---------------------------- MODULE QueryAnswer ----------------------------
(***************************************************************************)
(* What a client may expect of the answer to a query, whatever computes    *)
(* it: rows that are solutions arrive one by one; while the query is open  *)
(* no row comes twice, and the answer is only called complete when every   *)
(* solution has come.  A query whose time is over is cut: what still comes *)
(* is a solution, maybe one that came before, and nothing is promised of   *)
(* what is missing.                                                        *)
(***************************************************************************)
VARIABLES solutions,  \* the solutions of the query
          answer,     \* the rows that came
          again,      \* some row came twice
          status      \* "open", "complete" or "cut"

answerVars == <<solutions, answer, again, status>>

Init == answer = {} /\ again = FALSE /\ status = "open"

Deliver ==
    /\ status = "open"
    /\ \E row \in solutions \ answer : answer' = answer \cup {row}
    /\ UNCHANGED <<solutions, again, status>>

Complete ==
    /\ status = "open" /\ answer = solutions
    /\ status' = "complete"
    /\ UNCHANGED <<solutions, answer, again>>

\* The time is over: rows that were on their way still come.
Cut ==
    /\ status \in {"open", "cut"} /\ status' = "cut"
    /\ answer' \subseteq solutions /\ answer \subseteq answer'
    /\ (again => again')
    /\ UNCHANGED solutions

Next == Deliver \/ Complete \/ Cut

Spec == Init /\ [][Next]_answerVars
===========================================================================
