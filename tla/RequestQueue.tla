---------------------------- MODULE RequestQueue ----------------------------
(***************************************************************************)
(* createRequestQueue: a chain of promises in which each call of enqueue   *)
(* hangs its turn on the settling of the turn before, and races it against *)
(* a cancellation that its signal triggers.                                *)
(*                                                                         *)
(* A step is one callback of the chain.  The job itself is the caller's:   *)
(* it settles at some time, with a value or an error.  The counter falls   *)
(* in the turn's own callbacks, before any other task can read it, so its  *)
(* decrement is part of the step that settles the turn.                    *)
(***************************************************************************)
EXTENDS Naturals

CONSTANT Calls     \* bound on the calls of enqueue

ASSUME CallsAssumption == Calls \in Nat

Seats == 1 .. Calls

VARIABLES issued,   \* calls so far; the call numbers are the seats of the chain
          aborted,  \* the call's signal is aborted
          state,    \* the closure's state: waiting, running or cancelled
          called,   \* seats whose job was called: it sends its request then
          turn,     \* the promise turn: pending, or settled
          size,     \* the queue's counter
          told      \* how the promise given to the caller settled

vars == <<issued, aborted, state, called, turn, size, told>>

(* Type correctness, the counter's range included                           *)
TypeOK ==
  /\ issued \in 0 .. Calls
  /\ aborted \in [Seats -> BOOLEAN]
  /\ state \in [Seats -> {"none", "waiting", "running", "cancelled"}]
  /\ called \in SUBSET Seats
  /\ turn \in [Seats -> {"pending", "fulfilled", "rejected"}]
  /\ size \in 0 .. Calls
  /\ told \in [Seats -> {"nothing", "value", "error", "cancelled"}]

Init ==
  /\ issued = 0
  /\ aborted = [i \in Seats |-> FALSE]
  /\ state = [i \in Seats |-> "none"]
  /\ called = {}
  /\ turn = [i \in Seats |-> "pending"]
  /\ size = 0
  /\ told = [i \in Seats |-> "nothing"]

Settled(i) == turn[i] # "pending"

(* Definitions named Mutant... are deliberate mistakes: a property of the   *)
(* run must fail when the one takes the place of the definition below it.   *)
MutantBreaksOnFailure(i) == i > 1 => turn[i - 1] = "fulfilled"
MutantNoChain(i) == TRUE

(* tail: what a new turn is chained to.  It is always fulfilled, so that a  *)
(* failed or cancelled job does not break the chain.                        *)
ChainReaches(i) == i > 1 => Settled(i - 1)

(* enqueue; a signal aborted beforehand cancels the seat at once.           *)
Enqueue ==
  LET i == issued + 1 IN
  /\ issued < Calls
  /\ issued' = i
  /\ size' = size + 1
  /\ state' = [state EXCEPT ![i] = IF aborted[i] THEN "cancelled" ELSE "waiting"]
  /\ UNCHANGED <<aborted, called, turn, told>>

MutantCancelsRunning(i) ==
  /\ ~aborted[i]
  /\ i <= issued + 1
  /\ aborted' = [aborted EXCEPT ![i] = TRUE]
  /\ state' = [state EXCEPT ![i] = IF @ = "none" THEN @ ELSE "cancelled"]
  /\ UNCHANGED <<issued, called, turn, size, told>>

(* The signal of call i aborts, before the call or at any time after it;    *)
(* onAbort cancels a seat only while it waits.                              *)
Abort(i) ==
  /\ ~aborted[i]
  /\ i <= issued + 1
  /\ aborted' = [aborted EXCEPT ![i] = TRUE]
  /\ state' = [state EXCEPT ![i] = IF @ = "waiting" THEN "cancelled" ELSE @]
  /\ UNCHANGED <<issued, called, turn, size, told>>

(* The chain reaches seat i: the job is called, or the seat is passed over. *)
TakeTurn(i) ==
  /\ i <= issued
  /\ i \notin called
  /\ ~Settled(i)
  /\ ChainReaches(i)
  /\ \/ /\ state[i] = "cancelled"
        /\ turn' = [turn EXCEPT ![i] = "rejected"]
        /\ size' = size - 1
        /\ UNCHANGED <<state, called>>
     \/ /\ state[i] # "cancelled"
        /\ state' = [state EXCEPT ![i] = "running"]
        /\ called' = called \cup {i}
        /\ UNCHANGED <<turn, size>>
  /\ UNCHANGED <<issued, aborted, told>>

(* The promise of the job settles, and the turn with it.                    *)
JobSettles(i) ==
  /\ i \in called
  /\ ~Settled(i)
  /\ \E how \in {"fulfilled", "rejected"} : turn' = [turn EXCEPT ![i] = how]
  /\ size' = size - 1
  /\ UNCHANGED <<issued, aborted, state, called, told>>

(* The race of turn and cancellation settles the caller's promise.          *)
Tell(i) ==
  /\ i <= issued
  /\ told[i] = "nothing"
  /\ \/ /\ state[i] = "cancelled"
        /\ told' = [told EXCEPT ![i] = "cancelled"]
     \/ /\ i \in called /\ Settled(i)
        /\ told' = [told EXCEPT ![i] = IF turn[i] = "fulfilled" THEN "value" ELSE "error"]
  /\ UNCHANGED <<issued, aborted, state, called, turn, size>>

Next ==
  \/ Enqueue
  \/ \E i \in Seats : Abort(i) \/ TakeTurn(i) \/ JobSettles(i) \/ Tell(i)

Spec == Init /\ [][Next]_vars

(* Callbacks that are ready run, and jobs settle: every request of a job to *)
(* LM Studio has a time limit.                                              *)
Fairness ==
  \A i \in Seats : WF_vars(TakeTurn(i)) /\ WF_vars(JobSettles(i)) /\ WF_vars(Tell(i))

FairSpec == Spec /\ Fairness

-----------------------------------------------------------------------------
Running == {i \in called : ~Settled(i)}

(* One job at a time, in the order of the calls.                            *)
OneJobAtATime ==
  \A i, j \in Running : i = j

(* What became of a call: its job was never called, is under way, or has    *)
(* come to an end.                                                          *)
Outcome(i) ==
  IF i \in called
  THEN CASE turn[i] = "pending"   -> "nothing"
         [] turn[i] = "fulfilled" -> "value"
         [] turn[i] = "rejected"  -> "error"
  ELSE "cancelled"

(* However a signal and the turn race, no caller is told of a cancellation  *)
(* whose job was or will be called (executor.ts takes it for "not sent" and *)
(* leaves the gate open), nor of anything while its job is under way: who   *)
(* was called hears its own result, aborted or not.                         *)
ToldAsItWent == \A i \in Seats : told[i] \in {"nothing", Outcome(i)}

(* Every caller is told, failures and cancellations before it or not.       *)
EveryCallerIsTold == \A i \in Seats : i <= issued ~> told[i] # "nothing"

(* The queue implements SerialQueue.                                        *)
Serial == INSTANCE SerialQueue WITH
  Seats  <- Calls,
  taken  <- issued,
  line   <- {i \in 1 .. issued : state[i] = "waiting"},
  holder <- Running

ImplementsSerial == Serial!Spec

=============================================================================
