------------------------------ MODULE MCShared ------------------------------
(* An instance for TLC of the two things that threads share through a mutex of *)
(* their own: the string of communicate(), and the queue of multiplex.  In a   *)
(* behaviour one of them is in use; nobody calls communicate(), or the         *)
(* consumer of the queue waits, in the others.                                 *)
EXTENDS Comm, Conq

VARIABLE used

SharedInit ==
  \/ used = "string" /\ Init /\ Untouched /\ cpc = "waiting"
  \/ used = "queue" /\ Init /\ QInit

SharedNext ==
  /\ UNCHANGED used
  /\ \/ used = "string" /\ Next /\ UNCHANGED qvars
     \/ used = "queue" /\ QNext /\ UNCHANGED vars

SharedSpec == SharedInit /\ [][SharedNext]_<<used, vars, qvars>>
FairSharedSpec == SharedSpec /\ Fairness /\ QFairness

\* Two strings of one length, so that cas has to look at the bytes, and one longer.
MCValues == {<<"a">>, <<"b">>, <<"a", "b">>}
=============================================================================
