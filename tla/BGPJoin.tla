------------------------------ MODULE BGPJoin ------------------------------
(***************************************************************************)
(* One query of the BGP engine, from the first request of a client to the  *)
(* message that says is_last: BGPProcessor builds one operation per triple *)
(* pattern, BGPIterator joins them by backtracking, BGPStreamer sends the  *)
(* rows in batches, and TimeControl ends the query when its time is over   *)
(* or the client cancels it, which is noticed only every TicksUntilCheck   *)
(* ticks (query_engine/, network/streaming/BgpStreamer.cpp).               *)
(***************************************************************************)
EXTENDS Naturals, Sequences, FiniteSets, FiniteSetsExt, Functions

CONSTANTS Queries,          \* queries [patterns, var_names] with real ids
          TreeMaps,         \* the possible contents: trees by predicate cache id
          RealId,           \* NodeIdsManager: real id of each cache id
          TicksUntilCheck,  \* ticks between two looks at the clock, 1000 in the code
          FirstBatch,       \* rows of a small first batch, 100 in the code
          MaxBatch          \* rows of a batch, 10000000 in the code

\* A pattern with the same new variable at both ends gets TwoVarCProduct, which
\* does not compare the two: the engine does not answer such a query.
LoopFree(q) ==
    \A i \in DOMAIN q.patterns :
        q.patterns[i].s = q.patterns[i].o /\ q.patterns[i].s[1] = "var" =>
            \E j \in 1..(i - 1) : q.patterns[i].s \in {q.patterns[j].s, q.patterns[j].o}

\* What a query is made of: both ends of a pattern are terms, and the client
\* names each variable of the patterns once; get_next_message reads one entry
\* of permutation_vec for each value of a row.
TermsOf(q) == UNION {{q.patterns[i].s, q.patterns[i].o} : i \in DOMAIN q.patterns}
WellFormed(q) ==
    /\ q.patterns \in Seq(Range(q.patterns)) /\ q.patterns # <<>>
    /\ \A t \in TermsOf(q) : t = <<t[1], t[2]>>
    /\ q.var_names \in Seq(Range(q.var_names)) /\ IsInjective(q.var_names)
    /\ Range(q.var_names) = {t[2] : t \in {t \in TermsOf(q) : t[1] = "var"}}

\* No step of the join ticks more than three times, so that it looks at the
\* clock at most once. A predicate with the cache id 0, the first node of the
\* sequence, is taken for one without a tree: its queries are not answered.
\* The points of a tree are nodes the NodeIdsManager knows: get_next_message
\* throws on any other.
ASSUME JoinAssumption ==
    /\ \A q \in Queries : WellFormed(q) /\ LoopFree(q)
    /\ TicksUntilCheck \in Nat /\ TicksUntilCheck >= 3
    /\ FirstBatch \in Nat \ {0} /\ MaxBatch \in Nat \ {0}
    /\ DOMAIN RealId \subseteq Nat /\ IsInjective(RealId)
    /\ \A t \in TreeMaps :
          /\ 0 \notin DOMAIN t
          /\ \A c \in DOMAIN t : t[c] \subseteq (DOMAIN RealId) \X (DOMAIN RealId)

VARIABLES query, trees,
          first_batch_small, sent_first_batch,   \* BGPStreamer
          batch_count,    \* rows of the message being built
          sent,           \* rows sent, as the client sees them
          repeated,       \* some row was sent twice
          is_last,        \* a message with is_last was sent
          scan,           \* per operation: its band (<<>> if none) and the points left
          tmp_holder, next_value, next_available, s_i, finished_ops,   \* BGPIterator
          result,         \* the local of next_concrete
          current_ticks, time_has_passed,   \* TimeControl
          expired,        \* the clock is beyond the deadline, or the client cancelled
          pc, caller      \* where the request is, and who called next_concrete

streamVars == <<first_batch_small, sent_first_batch, batch_count, sent, repeated, is_last>>
iterVars == <<scan, tmp_holder, next_value, next_available, s_i, finished_ops, result>>
timeVars == <<current_ticks, time_has_passed>>
vars == <<query, trees, streamVars, iterVars, timeVars, expired, pc, caller>>
---------------------------------------------------------------------------
(* BGPProcessor and BGPOpsFactory. A term is <<"var", name>> or            *)
(* <<"node", real id>>; a pattern has a subject, a predicate and an object.*)

IsVar(term) == term[1] = "var"
NotFound == 0 - 1

\* BGPProcessor::get_cache_id
CacheId(term) ==
    IF \E c \in DOMAIN RealId : RealId[c] = term[2]
    THEN CHOOSE c \in DOMAIN RealId : RealId[c] = term[2]
    ELSE NotFound

Patterns == query.patterns
Op == DOMAIN Patterns
LastOp == Len(Patterns)

\* find_headers: variables get their index at their first occurrence, the
\* subject of a pattern before its object, and a row has them in that order.
TermAt(k) == IF k % 2 = 1 THEN Patterns[(k + 1) \div 2].s ELSE Patterns[k \div 2].o
Variables == {TermAt(k)[2] : k \in {k \in 1..(2 * LastOp) : IsVar(TermAt(k))}}
FirstAt(v) == Min({k \in 1..(2 * LastOp) : TermAt(k) = <<"var", v>>})
HeaderPos(v) == Cardinality({u \in Variables : FirstAt(u) <= FirstAt(v)})

\* get_permutation_vec, and the row as a client gets it.
Permutation == [k \in DOMAIN query.var_names |-> HeaderPos(query.var_names[k])]
Permuted(row) == [k \in DOMAIN row |-> RealId[row[Permutation[k]]]]

\* do_all_predicates_have_trees
AllPredicatesHaveTrees ==
    \A i \in Op : CacheId(Patterns[i].p) # 0 /\ CacheId(Patterns[i].p) \in DOMAIN trees

Tree(i) == trees[CacheId(Patterns[i].p)]

\* join_incidence: the variable occurs in an earlier pattern.
Seen(i, term) == IsVar(term) /\ FirstAt(term[2]) <= 2 * (i - 1)

\* create_bgp_op: what is known of the two ends decides the operation.
OpKind(i) ==
    LET s == Patterns[i].s
        o == Patterns[i].o
    IN  CASE IsVar(s) /\ IsVar(o) /\ Seen(i, s) /\ Seen(i, o)   -> "TwoVarIntersection"
          [] IsVar(s) /\ IsVar(o) /\ Seen(i, s) # Seen(i, o)     -> "TwoVarJoinOne"
          [] IsVar(s) /\ IsVar(o) /\ ~Seen(i, s) /\ ~Seen(i, o) -> "TwoVarCProduct"
          [] IsVar(s) # IsVar(o) /\ (Seen(i, s) \/ Seen(i, o))   -> "OneVarIntersect"
          [] IsVar(s) # IsVar(o) /\ ~Seen(i, s) /\ ~Seen(i, o)   -> "OneVarCP"
          [] ~IsVar(s) /\ ~IsVar(o)                              -> "TripleExistence"

\* The scanners: all points, or those of a column (subject) or a row (object),
\* in the order of the k2tree library, which is external.
FullScanner(i) == Tree(i)
BandScanner(i, end, band) == {p \in Tree(i) : p[end] = band}
EmptyScanner == {}

BuildScanner(i) ==
    LET s == Patterns[i].s
        o == Patterns[i].o
    IN  CASE IsVar(s) /\ IsVar(o)   -> FullScanner(i)
          [] IsVar(s) /\ ~IsVar(o)  -> BandScanner(i, 2, CacheId(o))
          [] ~IsVar(s) /\ IsVar(o)  -> BandScanner(i, 1, CacheId(s))
          [] ~IsVar(s) /\ ~IsVar(o) -> EmptyScanner

\* A new operation: TwoVarJoinOne has no band scanner yet.
NewScan(i) ==
    [band |-> <<>>, left |-> IF OpKind(i) = "TwoVarJoinOne" THEN {} ELSE BuildScanner(i)]
---------------------------------------------------------------------------
(* BGPOp::run. An outcome is a RunResult with the row and the scanner the  *)
(* operation leaves and the ticks it took.                                 *)

\* What the row has for the variable of a term.
Value(term) == tmp_holder[HeaderPos(term[2])]

\* The tree has a point, or not.
Has(i, s, o) ==
    [ticks |-> 1, scan_done |-> TRUE, row |-> tmp_holder, scan |-> scan[i],
     valid_value |-> <<s, o>> \in Tree(i)]

TripleExistence(i) == Has(i, CacheId(Patterns[i].s), CacheId(Patterns[i].o))

OneVarIntersect(i) ==
    IF IsVar(Patterns[i].s) THEN Has(i, Value(Patterns[i].s), CacheId(Patterns[i].o))
                            ELSE Has(i, CacheId(Patterns[i].s), Value(Patterns[i].o))

TwoVarIntersection(i) == Has(i, Value(Patterns[i].s), Value(Patterns[i].o))

\* The next point of a scanner, any that rows has a row for; or the end of the
\* scan.
ScanOutcomes(band, rows) ==
    IF rows = <<>>
    THEN {[ticks |-> 1, scan_done |-> TRUE, valid_value |-> FALSE, row |-> tmp_holder,
           scan |-> [band |-> band, left |-> {}]]}
    ELSE {[ticks |-> 2, scan_done |-> DOMAIN rows = {p}, valid_value |-> TRUE, row |-> rows[p],
           scan |-> [band |-> band, left |-> DOMAIN rows \ {p}]] : p \in DOMAIN rows}

Set(row, term, value) == [row EXCEPT ![HeaderPos(term[2])] = value]

TwoVarCProduct(i) ==
    ScanOutcomes(<<>>, [p \in scan[i].left |->
        Set(Set(tmp_holder, Patterns[i].s, p[1]), Patterns[i].o, p[2])])

OneVarCP(i) ==
    ScanOutcomes(<<>>, [p \in scan[i].left |->
        IF IsVar(Patterns[i].s) THEN Set(tmp_holder, Patterns[i].s, p[1])
                                ELSE Set(tmp_holder, Patterns[i].o, p[2])])

\* The band scanner is made again when the value that the row has is not the
\* one of the scanner at hand.
TwoVarJoinOne(i) ==
    LET end   == IF Seen(i, Patterns[i].s) THEN 1 ELSE 2
        value == Value(IF end = 1 THEN Patterns[i].s ELSE Patterns[i].o)
        left  == IF scan[i].band = <<value>> THEN scan[i].left ELSE BandScanner(i, end, value)
    IN  ScanOutcomes(<<value>>, [p \in left |->
            IF end = 1 THEN Set(tmp_holder, Patterns[i].o, p[2])
                       ELSE Set(tmp_holder, Patterns[i].s, p[1])])

Outcomes(i) ==
    CASE OpKind(i) = "TwoVarIntersection" -> {TwoVarIntersection(i)}
      [] OpKind(i) = "OneVarIntersect"    -> {OneVarIntersect(i)}
      [] OpKind(i) = "TripleExistence"    -> {TripleExistence(i)}
      [] OpKind(i) = "TwoVarCProduct"     -> TwoVarCProduct(i)
      [] OpKind(i) = "OneVarCP"           -> OneVarCP(i)
      [] OpKind(i) = "TwoVarJoinOne"      -> TwoVarJoinOne(i)
---------------------------------------------------------------------------
(* TimeControl::tick, k times in a row. *)

\* Mutant: a timeout is forgotten at the next tick.
TicksPassForgets(k) == ~(expired /\ current_ticks + k >= TicksUntilCheck)

TicksPass(k) == ~time_has_passed /\ ~(expired /\ current_ticks + k >= TicksUntilCheck)

Tick(k) ==
    /\ TicksPass(k)
    /\ current_ticks' = (current_ticks + k) % TicksUntilCheck
    /\ UNCHANGED time_has_passed

\* One of the ticks returns false, and so will all that follow: what the step
\* had done to the row and to its scanner is never read again.
TickFails(k) ==
    /\ ~TicksPass(k)
    /\ time_has_passed' = TRUE /\ current_ticks' = 0

\* The deadline passes, or a cancellation sets the duration to zero
\* (force_cancel, from another request).
Expire ==
    /\ ~expired /\ ~is_last
    /\ expired' = TRUE
    /\ UNCHANGED <<query, trees, streamVars, iterVars, timeVars, pc, caller>>
---------------------------------------------------------------------------
(* BGPIterator. *)

\* next_concrete returns; a row goes into the message unless the constructor called.
Return(row) ==
    /\ pc' = "batch"
    /\ IF caller = "constructor" THEN UNCHANGED <<batch_count, sent, repeated>>
       ELSE /\ batch_count' = batch_count + 1
            /\ sent' = sent \cup {Permuted(row)}
            /\ repeated' = (repeated \/ Permuted(row) \in sent)
    /\ UNCHANGED <<first_batch_small, sent_first_batch, is_last>>

\* Mutant: the scanner stays at its end.
ResetKeepsScan(i) ==
    /\ finished_ops' = [finished_ops EXCEPT ![i] = FALSE]
    /\ s_i' = i - 1
    /\ UNCHANGED scan

Reset(i) ==
    /\ scan' = [scan EXCEPT ![i] = NewScan(i)]
    /\ finished_ops' = [finished_ops EXCEPT ![i] = FALSE]
    /\ s_i' = i - 1

NextConcrete ==
    /\ pc = "next_concrete"
    /\ \/ /\ TickFails(1)
          /\ Return(next_value)
          /\ UNCHANGED <<next_available, result>>
       \/ /\ Tick(1)
          /\ result' = next_value /\ next_available' = FALSE
          /\ pc' = "ops_until_last"
          /\ UNCHANGED streamVars
    /\ UNCHANGED <<query, trees, scan, tmp_holder, next_value, s_i, finished_ops, expired, caller>>

\* The first tick of ops_until_last.
OpsUntilLast ==
    /\ pc = "ops_until_last"
    /\ \/ Tick(1) /\ pc' = "ops"
       \/ TickFails(1) /\ pc' = "last"
    /\ UNCHANGED <<query, trees, streamVars, iterVars, expired, caller>>

\* One turn of the loops of ops_until_last.
Ops ==
    /\ pc = "ops"
    /\ IF s_i \in 1..(LastOp - 1)
       THEN \/ /\ finished_ops[s_i]
               /\ Reset(s_i)
               /\ UNCHANGED <<tmp_holder, timeVars, pc>>
            \/ /\ ~finished_ops[s_i]
               /\ \E o \in Outcomes(s_i) :
                     \/ /\ TickFails(o.ticks + 1)
                        /\ pc' = "last"
                        /\ UNCHANGED <<scan, tmp_holder, finished_ops, s_i>>
                     \/ /\ Tick(o.ticks + 1)
                        /\ scan' = [scan EXCEPT ![s_i] = o.scan]
                        /\ tmp_holder' = o.row
                        /\ finished_ops' = [finished_ops EXCEPT ![s_i] = o.scan_done]
                        /\ s_i' = IF o.valid_value THEN s_i + 1 ELSE s_i
                        /\ UNCHANGED pc
       ELSE pc' = "last" /\ UNCHANGED <<scan, tmp_holder, finished_ops, s_i, timeVars>>
    /\ UNCHANGED <<query, trees, streamVars, next_value, next_available, result, expired, caller>>

\* The rest of the loop of next_concrete.
Last ==
    /\ pc = "last"
    /\ \/ /\ s_i = 0
          /\ next_available' = FALSE
          /\ Return(result)
          /\ UNCHANGED <<scan, tmp_holder, next_value, s_i, finished_ops, timeVars>>
       \/ /\ s_i > 0 /\ finished_ops[s_i]
          /\ Reset(s_i)
          /\ pc' = "ops_until_last"
          /\ UNCHANGED <<streamVars, tmp_holder, next_value, next_available, timeVars>>
       \/ /\ s_i > 0 /\ ~finished_ops[s_i]
          /\ \E o \in Outcomes(s_i) :
                \/ /\ TickFails(o.ticks + 1)
                   /\ Return(result)
                   /\ UNCHANGED <<scan, tmp_holder, finished_ops, next_value, next_available>>
                \/ /\ Tick(o.ticks + 1)
                   /\ scan' = [scan EXCEPT ![s_i] = o.scan]
                   /\ tmp_holder' = o.row
                   /\ finished_ops' = [finished_ops EXCEPT ![s_i] = o.scan_done]
                   /\ IF o.valid_value
                      THEN next_value' = o.row /\ next_available' = TRUE /\ Return(result)
                      ELSE /\ pc' = "ops_until_last"
                           /\ UNCHANGED <<streamVars, next_value, next_available>>
          /\ UNCHANGED s_i
    /\ UNCHANGED <<query, trees, result, expired, caller>>
---------------------------------------------------------------------------
(* BGPStreamer::get_next_message. *)

\* The first request: execute_it, with an EmptyIterator if a predicate has no tree.
Execute ==
    /\ pc = "request"
    /\ IF AllPredicatesHaveTrees
       THEN /\ scan' = [i \in Op |-> NewScan(i)]
            /\ pc' = "next_concrete"
       ELSE pc' = "batch" /\ UNCHANGED scan
    /\ UNCHANGED <<query, trees, streamVars, tmp_holder, next_value, next_available, s_i,
                   finished_ops, result, timeVars, expired, caller>>

BatchFull ==
    \/ ~sent_first_batch /\ first_batch_small /\ batch_count >= FirstBatch
    \/ batch_count >= MaxBatch

NextRow ==
    /\ pc = "batch" /\ next_available /\ ~BatchFull
    /\ pc' = "next_concrete" /\ caller' = "streamer"
    /\ UNCHANGED <<query, trees, streamVars, iterVars, timeVars, expired>>

SendMessage ==
    /\ pc = "batch" /\ (~next_available \/ BatchFull)
    /\ sent_first_batch' = TRUE
    /\ is_last' = ~next_available
    /\ pc' = IF next_available THEN "client" ELSE "done"
    /\ UNCHANGED <<query, trees, first_batch_small, batch_count, sent, repeated, iterVars,
                   timeVars, expired, caller>>

\* Mutant: the rows of the earlier messages count for the next one.
AskMoreKeepsCount ==
    /\ pc = "client"
    /\ pc' = "batch"
    /\ UNCHANGED <<query, trees, streamVars, iterVars, timeVars, expired, caller>>

\* The client asks for more.
AskMore ==
    /\ pc = "client"
    /\ pc' = "batch" /\ batch_count' = 0
    /\ UNCHANGED <<query, trees, first_batch_small, sent_first_batch, sent, repeated, is_last,
                   iterVars, timeVars, expired, caller>>
---------------------------------------------------------------------------
\* The constructor leaves sent_first_batch without a value.
Init ==
    /\ query \in Queries /\ trees \in TreeMaps
    /\ first_batch_small \in BOOLEAN /\ sent_first_batch \in BOOLEAN /\ batch_count = 0
    /\ sent = {} /\ repeated = FALSE /\ is_last = FALSE
    /\ scan = <<>> /\ s_i = 1
    /\ tmp_holder = [k \in 1..Cardinality(Variables) |-> 0]
    /\ next_value = <<>> /\ next_available = FALSE /\ result = <<>>
    /\ finished_ops = [i \in Op |-> FALSE]
    /\ current_ticks = 0 /\ time_has_passed = FALSE /\ expired = FALSE
    /\ pc = "request" /\ caller = "constructor"

Server == Execute \/ NextConcrete \/ OpsUntilLast \/ Ops \/ Last \/ NextRow \/ SendMessage

Next == Server \/ AskMore \/ Expire

\* The worker thread of the request runs; the client asks while there is more.
Spec == Init /\ [][Next]_vars /\ WF_vars(Server) /\ WF_vars(AskMore)
---------------------------------------------------------------------------
(* Properties. *)

TypeOK ==
    /\ batch_count \in 0..MaxBatch /\ s_i \in 0..LastOp
    /\ current_ticks \in 0..(TicksUntilCheck - 1)
    /\ finished_ops \in [Op -> BOOLEAN]
    /\ pc \in {"request", "next_concrete", "ops_until_last", "ops", "last", "batch", "client", "done"}

\* The reference: the assignments of cache ids to the variables for which
\* every pattern is a point of its tree, as rows of real ids.
CacheIds == UNION {{p[1], p[2]} : p \in UNION {trees[t] : t \in DOMAIN trees}}
End(term, a) == IF IsVar(term) THEN a[term[2]] ELSE CacheId(term)
Solutions ==
    IF \E i \in Op : CacheId(Patterns[i].p) \notin DOMAIN trees THEN {}
    ELSE {[k \in DOMAIN query.var_names |-> RealId[a[query.var_names[k]]]] :
            a \in {a \in [Variables -> CacheIds] :
                     \A i \in Op : <<End(Patterns[i].s, a), End(Patterns[i].o, a)>> \in Tree(i)}}

\* BGPIterator and BGPStreamer implement QueryAnswer: rows are solutions, none
\* comes twice and none is missing when is_last says so, across batches, resets
\* of the operations and the change of bands of TwoVarJoinOne; once the time
\* has passed, what is still sent is a solution.
Status == IF time_has_passed THEN "cut" ELSE IF is_last THEN "complete" ELSE "open"

Answer == INSTANCE QueryAnswer WITH
    solutions <- Solutions, answer <- sent, again <- repeated, status <- Status

AnswersQuery == Answer!Spec

\* After the clock ran out the engine finds no new row: next_value stays and at
\* most the row it holds is sent, whatever the state the tick interrupted.
NothingNewAfterTimeout ==
    [][time_has_passed =>
          /\ next_value' = next_value
          /\ sent' \subseteq sent \cup {Permuted(result), Permuted(next_value)}]_vars

\* A query whose time is not over ends: the backtracking of the operations
\* comes to an end and is_last is sent.
QueryEnds == <>(is_last \/ time_has_passed)
===========================================================================
