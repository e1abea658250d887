------------------------------- MODULE Mailbox -------------------------------
(***************************************************************************)
(* What the multiplex plugin promises its widget: a table of data sources, *)
(* each with a current content.  The widget is told of the sources that    *)
(* changed, all at once, with their contents of that moment; contents that *)
(* were replaced before it could be told are skipped.                      *)
(***************************************************************************)
CONSTANTS Slots,     \* the data sources
          Contents,  \* what a source can hold
          Initial    \* what it holds before its first report

VARIABLES cell,   \* [Slots -> current content]
          seen,   \* [Slots -> the content the reader last took]
          fresh   \* the slots that were put to since they were last taken

mvars == <<cell, seen, fresh>>

MInit ==
  /\ cell = [i \in Slots |-> Initial]
  /\ seen = [i \in Slots |-> Initial]
  /\ fresh = {}

Put(i, c) ==
  /\ cell[i] # c
  /\ cell' = [cell EXCEPT ![i] = c]
  /\ fresh' = fresh \cup {i}
  /\ UNCHANGED seen

\* The reader takes every fresh slot, and nothing when there is none.
Take ==
  /\ fresh # {}
  /\ seen' = [i \in Slots |-> IF i \in fresh THEN cell[i] ELSE seen[i]]
  /\ fresh' = {}
  /\ UNCHANGED cell

MNext == Take \/ \E i \in Slots, c \in Contents : Put(i, c)
MSpec == MInit /\ [][MNext]_mvars
=============================================================================
