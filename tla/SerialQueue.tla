----------------------------- MODULE SerialQueue ----------------------------
(***************************************************************************)
(* What the request queue promises its callers: seats are numbered in the  *)
(* order they are taken, one seat at a time has the turn, the turn goes to *)
(* the lowest seat still in line, and a seat may leave the line before its *)
(* turn.                                                                   *)
(***************************************************************************)
EXTENDS Naturals

CONSTANT Seats     \* the highest seat number

VARIABLES taken,   \* seats taken so far
          line,    \* seats waiting for their turn
          holder   \* the seat that has the turn, if any

vars == <<taken, line, holder>>

TypeOK ==
  /\ taken \in 0 .. Seats
  /\ line \in SUBSET (1 .. taken)
  /\ holder \in SUBSET (1 .. taken)

Init == taken = 0 /\ line = {} /\ holder = {}

(* A seat whose signal is aborted already is taken without joining the line.*)
Take ==
  /\ taken < Seats
  /\ taken' = taken + 1
  /\ line' \in {line, line \cup {taken + 1}}
  /\ UNCHANGED holder

Begin(i) ==
  /\ i \in line
  /\ \A j \in line : i <= j
  /\ holder = {}
  /\ holder' = {i}
  /\ line' = line \ {i}
  /\ UNCHANGED taken

End(i) ==
  /\ i \in holder
  /\ holder' = {}
  /\ UNCHANGED <<taken, line>>

Leave(i) ==
  /\ i \in line
  /\ line' = line \ {i}
  /\ UNCHANGED <<taken, holder>>

Next ==
  \/ Take
  \/ \E i \in 1 .. Seats : Begin(i) \/ End(i) \/ Leave(i)

Spec == Init /\ [][Next]_vars

=============================================================================
