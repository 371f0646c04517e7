---------------------------- MODULE FreshReads ----------------------------
(***************************************************************************)
(* What a query promises, without daemons, sockets or fingerprints: one    *)
(* FSDB file that is rewritten now and then, and readers.  An answer is    *)
(* the contents of the file at one moment between the request and the      *)
(* answer; a request may also come back without one.                       *)
(***************************************************************************)
EXTENDS Naturals

CONSTANTS
  Readers,
  LastVersion \* bound: how often the file is rewritten

VARIABLES
  version, \* contents of the file
  read     \* each reader: "away", "asked", "seen" a version, or "answered" with it

Read == [state : {"away", "asked"}, value : {0}] \cup
        [state : {"seen", "answered"}, value : 0 .. LastVersion]
Away == [state |-> "away", value |-> 0]
Asked == [state |-> "asked", value |-> 0]

Init == version = 0 /\ read = [r \in Readers |-> Away]

Rewrite == version < LastVersion /\ version' = version + 1 /\ UNCHANGED read

Move(r, from, to) ==
  /\ read[r].state \in from
  /\ read' = [read EXCEPT ![r] = to]
  /\ UNCHANGED version

Ask(r) == Move(r, {"away"}, Asked)
See(r) == Move(r, {"asked"}, [state |-> "seen", value |-> version])
Answer(r) == Move(r, {"seen"}, [state |-> "answered", value |-> read[r].value])
\* The daemon that had looked is gone; the reader does not know yet.
Drop(r) == Move(r, {"seen"}, Asked)
\* No answer, or one that has been used.
Leave(r) == Move(r, {"asked", "seen", "answered"}, Away)

Next == Rewrite \/ \E r \in Readers : Ask(r) \/ See(r) \/ Answer(r) \/ Drop(r) \/ Leave(r)

Spec == Init /\ [][Next]_<<version, read>>
=============================================================================
