------------------------------ MODULE MCServer ------------------------------
(***************************************************************************)
(* Two workers and three connections, so that one connection waits for a   *)
(* worker while two are served.  Client 1 sends two messages, which lock   *)
(* and release predicates or run a query with a second message, client 2   *)
(* sends one, and client 3 connects and leaves.                            *)
(***************************************************************************)
EXTENDS Server

MCMaxRequests == [c \in Clients |-> 3 - c]
=============================================================================
