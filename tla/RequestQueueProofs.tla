------------------------- MODULE RequestQueueProofs -------------------------
(* Theorems about RequestQueue, for any number of calls.                    *)
EXTENDS RequestQueue, FiniteSetTheorems, TLAPS

(* A turn begins only when all turns before it have settled: the chain of   *)
(* tail promises, read backwards.                                           *)
ChainInOrder ==
  \A i \in Seats : state[i] = "running" \/ Settled(i) =>
    \A k \in Seats : k < i => Settled(k)

SeatsAsIssued ==
  \A i \in Seats :
    /\ i <= issued <=> state[i] # "none"
    /\ i > issued => turn[i] = "pending" /\ told[i] = "nothing"
    /\ state[i] = "waiting" => turn[i] = "pending"
    /\ i \in called <=> state[i] = "running"

(* What was told is what became of the call, and a call that has no chance  *)
(* of running any more was cancelled: its turn will pass it over.           *)
ToldForGood ==
  \A i \in Seats : told[i] # "nothing" =>
    /\ told[i] = Outcome(i)
    /\ i \notin called => state[i] = "cancelled"

TypeButSize ==
  /\ issued \in 0 .. Calls
  /\ aborted \in [Seats -> BOOLEAN]
  /\ state \in [Seats -> {"none", "waiting", "running", "cancelled"}]
  /\ called \in SUBSET Seats
  /\ turn \in [Seats -> {"pending", "fulfilled", "rejected"}]
  /\ told \in [Seats -> {"nothing", "value", "error", "cancelled"}]

IInv == TypeButSize /\ SeatsAsIssued /\ ChainInOrder /\ ToldForGood

LEMMA InitIInv == Init => IInv
  BY CallsAssumption
     DEF Init, IInv, TypeButSize, SeatsAsIssued, ChainInOrder, ToldForGood, Settled, Seats

(* The chain has reached a seat when all before it have settled.            *)
LEMMA ReachedInOrder ==
  ASSUME TypeButSize, ChainInOrder, NEW i \in Seats, ChainReaches(i)
  PROVE  \A k \in Seats : k < i => Settled(k)
<1> SUFFICES ASSUME NEW k \in Seats, k < i PROVE Settled(k)
  OBVIOUS
<1> USE CallsAssumption DEF Seats
<1>1. i - 1 \in Seats /\ Settled(i - 1)
  BY DEF ChainReaches
<1>2. k = i - 1 \/ k < i - 1
  OBVIOUS
<1> QED BY <1>1, <1>2 DEF ChainInOrder

(* The two things that a turn may come to                                   *)
LEMMA TurnIs ==
  ASSUME IInv, NEW i \in Seats, TakeTurn(i)
  PROVE  /\ i <= issued /\ i \notin called /\ turn[i] = "pending" /\ ChainReaches(i)
         /\ issued' = issued /\ aborted' = aborted /\ told' = told
         /\ \/ /\ state[i] = "cancelled" /\ turn' = [turn EXCEPT ![i] = "rejected"]
               /\ size' = size - 1 /\ state' = state /\ called' = called
            \/ /\ state[i] = "waiting" /\ state' = [state EXCEPT ![i] = "running"]
               /\ called' = called \cup {i} /\ turn' = turn /\ size' = size
  BY CallsAssumption DEF TakeTurn, IInv, TypeButSize, SeatsAsIssued, Settled, Seats

LEMMA NextIInv == IInv /\ [Next]_vars => IInv'
<1> SUFFICES ASSUME IInv, [Next]_vars PROVE IInv'
  OBVIOUS
<1> USE CallsAssumption DEF IInv, TypeButSize, Seats
<1>1. CASE Enqueue
  <2>1. TypeButSize' /\ SeatsAsIssued' /\ ChainInOrder'
    BY <1>1 DEF Enqueue, SeatsAsIssued, ChainInOrder, Settled
  <2>2. ToldForGood'
    BY <1>1 DEF Enqueue, SeatsAsIssued, ToldForGood, Outcome
  <2> QED BY <2>1, <2>2
<1>2. ASSUME NEW i \in Seats, Abort(i) PROVE IInv'
  <2>1. TypeButSize' /\ SeatsAsIssued' /\ ChainInOrder'
    BY <1>2 DEF Abort, SeatsAsIssued, ChainInOrder, Settled
  <2>2. ToldForGood'
    BY <1>2 DEF Abort, ToldForGood, Outcome
  <2> QED BY <2>1, <2>2
<1>3. ASSUME NEW i \in Seats, TakeTurn(i) PROVE IInv'
  <2>0. /\ i <= issued /\ i \notin called /\ turn[i] = "pending"
        /\ issued' = issued /\ aborted' = aborted /\ told' = told
    BY <1>3, TurnIs
  <2>1. \A k \in Seats : k < i => turn[k] # "pending"
    BY <1>3, TurnIs, ReachedInOrder DEF Settled
  <2>2. CASE state[i] = "cancelled" /\ turn' = [turn EXCEPT ![i] = "rejected"]
             /\ state' = state /\ called' = called
    <3>1. TypeButSize' /\ SeatsAsIssued'
      BY <2>0, <2>2 DEF SeatsAsIssued
    <3>2. ChainInOrder'
      BY <2>1, <2>2 DEF ChainInOrder, Settled
    <3>3. ToldForGood'
      BY <2>0, <2>2 DEF ToldForGood, Outcome
    <3> QED BY <3>1, <3>2, <3>3
  <2>3. CASE state[i] = "waiting" /\ state' = [state EXCEPT ![i] = "running"]
             /\ called' = called \cup {i} /\ turn' = turn
    <3>1. TypeButSize' /\ SeatsAsIssued'
      BY <2>0, <2>3 DEF SeatsAsIssued
    <3>2. ChainInOrder'
      BY <2>1, <2>3 DEF ChainInOrder, Settled
    <3>3. told[i] = "nothing"
      BY <2>0, <2>3 DEF ToldForGood
    <3>4. ToldForGood'
      BY <2>0, <2>3, <3>3 DEF ToldForGood, Outcome
    <3> QED BY <3>1, <3>2, <3>4
  <2> QED BY <1>3, <2>2, <2>3, TurnIs
<1>4. ASSUME NEW i \in Seats, JobSettles(i) PROVE IInv'
  <2>1. TypeButSize' /\ SeatsAsIssued'
    BY <1>4 DEF JobSettles, SeatsAsIssued, Settled
  <2>2. ChainInOrder'
    BY <1>4 DEF JobSettles, SeatsAsIssued, ChainInOrder, Settled
  <2>3. told[i] = "nothing"
    BY <1>4 DEF JobSettles, ToldForGood, Outcome, Settled
  <2>4. ToldForGood'
    BY <1>4, <2>3 DEF JobSettles, ToldForGood, Outcome
  <2> QED BY <2>1, <2>2, <2>4
<1>5. ASSUME NEW i \in Seats, Tell(i) PROVE IInv'
  <2>1. TypeButSize' /\ SeatsAsIssued' /\ ChainInOrder'
    BY <1>5 DEF Tell, SeatsAsIssued, ChainInOrder, Settled
  <2>2. told'[i] = Outcome(i) /\ (i \notin called => state[i] = "cancelled")
    <3>1. CASE state[i] = "cancelled" /\ told' = [told EXCEPT ![i] = "cancelled"]
      <4>1. i \notin called
        BY <3>1 DEF SeatsAsIssued
      <4>2. Outcome(i) = "cancelled"
        BY <4>1 DEF Outcome
      <4>3. told'[i] = "cancelled"
        BY <3>1
      <4> QED BY <3>1, <4>2, <4>3
    <3>2. CASE /\ i \in called /\ Settled(i)
               /\ told' = [told EXCEPT ![i] = IF turn[i] = "fulfilled" THEN "value" ELSE "error"]
      <4>1. turn[i] \in {"fulfilled", "rejected"}
        BY <3>2 DEF Settled
      <4> QED BY <3>2, <4>1 DEF Outcome
    <3> QED BY <1>5, <3>1, <3>2 DEF Tell
  <2>3. /\ \A k \in Seats : Outcome(k)' = Outcome(k)
        /\ called' = called /\ state' = state
        /\ \A k \in Seats : k # i => told'[k] = told[k]
    BY <1>5 DEF Tell, Outcome
  <2>4. ToldForGood'
    <3> SUFFICES ASSUME NEW k \in Seats, told'[k] # "nothing"
                 PROVE  told'[k] = Outcome(k) /\ (k \notin called => state[k] = "cancelled")
      BY <2>3 DEF ToldForGood
    <3>1. CASE k = i
      BY <2>2, <3>1
    <3>2. CASE k # i
      BY <2>3, <3>2 DEF ToldForGood
    <3> QED BY <3>1, <3>2
  <2> QED BY <2>1, <2>4
<1>6. CASE UNCHANGED vars
  BY <1>6 DEF vars, SeatsAsIssued, ChainInOrder, ToldForGood, Outcome, Settled
<1> QED BY <1>1, <1>2, <1>3, <1>4, <1>5, <1>6 DEF Next

LEMMA Invariance == Spec => []IInv
  BY InitIInv, NextIInv, PTL DEF Spec

(* Two jobs never run at the same time, however many calls are made and     *)
(* whichever of them are cancelled (queue.ts, the tail chain).              *)
LEMMA OneJob == IInv => OneJobAtATime
  BY CallsAssumption
     DEF IInv, TypeButSize, SeatsAsIssued, ChainInOrder, OneJobAtATime, Running, Settled, Seats

(* So it is in every state of the queue, for any calls and cancellations.   *)
THEOREM MutualExclusion == Spec => []OneJobAtATime
  BY Invariance, OneJob, PTL

(* Who is told of a cancellation has sent nothing and never will, and who   *)
(* was called hears its own result once it is there: a signal that aborts   *)
(* as the turn arrives is never taken for both (queue.ts, onAbort and turn).*)
THEOREM ToldTruly == Spec => []ToldAsItWent
<1>1. IInv => ToldAsItWent
  BY DEF IInv, ToldForGood, ToldAsItWent
<1> QED BY <1>1, Invariance, PTL

-----------------------------------------------------------------------------
(* Every behaviour of the promise chain is one of SerialQueue: the line is  *)
(* served in the order of the calls, and a cancelled seat only leaves it.   *)
LEMMA InitSerial == Init => Serial!Init
  BY CallsAssumption DEF Init, Serial!Init, Running, Seats

LEMMA NextSerial == IInv /\ [Next]_vars => [Serial!Next]_(Serial!vars)
<1> DEFINE line == {i \in 1 .. issued : state[i] = "waiting"}
<1> SUFFICES ASSUME IInv, [Next]_vars
             PROVE  Serial!Next \/ UNCHANGED <<issued, line, Running>>
  BY DEF Serial!vars
<1> USE CallsAssumption DEF IInv, TypeButSize, Seats, Running, Settled
<1>1. CASE Enqueue
  <2>1. Running' = Running
    BY <1>1 DEF Enqueue, SeatsAsIssued
  <2>2. line' \in {line, line \cup {issued + 1}}
    <3>1. CASE aborted[issued + 1]
      <4> line' = line
        BY <1>1, <3>1 DEF Enqueue, SeatsAsIssued
      <4> QED OBVIOUS
    <3>2. CASE ~aborted[issued + 1]
      <4> line' = line \cup {issued + 1}
        BY <1>1, <3>2 DEF Enqueue, SeatsAsIssued
      <4> QED OBVIOUS
    <3> QED BY <3>1, <3>2
  <2> QED BY <1>1, <2>1, <2>2 DEF Enqueue, Serial!Next, Serial!Take
<1>2. ASSUME NEW i \in Seats, Abort(i) PROVE Serial!Next \/ UNCHANGED <<issued, line, Running>>
  <2>1. Running' = Running /\ issued' = issued
    BY <1>2 DEF Abort
  <2>2. CASE state[i] = "waiting"
    <3>1. i \in line /\ line' = line \ {i}
      BY <1>2, <2>2 DEF Abort, SeatsAsIssued
    <3> QED BY <2>1, <3>1 DEF Serial!Next, Serial!Leave
  <2>3. CASE state[i] # "waiting"
    <3>1. line' = line
      BY <1>2, <2>3 DEF Abort
    <3> QED BY <2>1, <3>1
  <2> QED BY <2>2, <2>3
<1>3. ASSUME NEW i \in Seats, TakeTurn(i) PROVE Serial!Next \/ UNCHANGED <<issued, line, Running>>
  <2>0. i <= issued /\ i \notin called /\ turn[i] = "pending" /\ issued' = issued
    BY <1>3, TurnIs
  <2>1. CASE /\ state[i] = "waiting" /\ state' = [state EXCEPT ![i] = "running"]
             /\ called' = called \cup {i} /\ turn' = turn
    <3>1. i \in line /\ line' = line \ {i}
      BY <2>0, <2>1
    <3>2. \A k \in Seats : k < i => turn[k] # "pending"
      BY <1>3, TurnIs, ReachedInOrder
    <3>3. \A j \in line : i <= j
      BY <3>2 DEF SeatsAsIssued
    <3>4. Running = {}
      <4> SUFFICES ASSUME NEW j \in Running PROVE FALSE
        OBVIOUS
      <4>1. j \in Seats /\ state[j] = "running" /\ turn[j] = "pending" /\ j # i
        BY <2>1 DEF SeatsAsIssued
      <4>2. ~(i < j)
        BY <2>0, <4>1 DEF ChainInOrder
      <4>3. ~(j < i)
        BY <3>2, <4>1
      <4> QED BY <4>1, <4>2, <4>3
    <3>5. Running' = {i}
      BY <2>0, <2>1, <3>4
    <3>6. Serial!Begin(i)
      BY <2>0, <3>1, <3>3, <3>4, <3>5 DEF Serial!Begin
    <3> QED BY <3>6 DEF Serial!Next
  <2>2. CASE /\ state[i] = "cancelled" /\ turn' = [turn EXCEPT ![i] = "rejected"]
             /\ called' = called /\ state' = state
    <3>1. Running' = Running
      BY <2>0, <2>2
    <3> QED BY <2>0, <2>2, <3>1
  <2> QED BY <1>3, <2>1, <2>2, TurnIs
<1>4. ASSUME NEW i \in Seats, JobSettles(i) PROVE Serial!Next \/ UNCHANGED <<issued, line, Running>>
  <2>1. Running = {i}
    <3>1. i \in Running
      BY <1>4 DEF JobSettles
    <3>2. \A j \in Running : i = j
      BY <3>1, OneJob DEF OneJobAtATime
    <3> HIDE DEF Running
    <3> QED BY <3>1, <3>2
  <2>2. Running' = {}
    BY <1>4, <2>1 DEF JobSettles
  <2>3. Serial!End(i)
    BY <1>4, <2>1, <2>2 DEF JobSettles, Serial!End
  <2> QED BY <2>3 DEF Serial!Next
<1>5. ASSUME NEW i \in Seats, Tell(i) PROVE Serial!Next \/ UNCHANGED <<issued, line, Running>>
  BY <1>5 DEF Tell
<1>6. CASE UNCHANGED vars
  BY <1>6 DEF vars
<1> QED BY <1>1, <1>2, <1>3, <1>4, <1>5, <1>6 DEF Next

(* The promise chain gives its callers what SerialQueue promises: turns in   *)
(* the order of the calls, one at a time (queue.ts createRequestQueue).      *)
THEOREM QueueIsSerial == Spec => ImplementsSerial
  BY InitSerial, NextSerial, Invariance, PTL DEF Spec, Serial!Spec, ImplementsSerial

-----------------------------------------------------------------------------
(* The counter is the number of seats whose turn has not settled: a seat    *)
(* that was cancelled stays counted until the chain has passed it.          *)
Open == {i \in 1 .. issued : turn[i] = "pending"}

CountsOpen == IsFiniteSet(Open) /\ size = Cardinality(Open)

LEMMA InitSize == Init => CountsOpen
<1> SUFFICES ASSUME Init PROVE CountsOpen
  OBVIOUS
<1>1. Open = {}
  BY DEF Init, Open
<1> QED BY <1>1, FS_EmptySet DEF Init, CountsOpen

(* A turn that settles is one less.                                         *)
LEMMA OneLess ==
  ASSUME CountsOpen, NEW i \in Open, Open' = Open \ {i}, size' = size - 1
  PROVE  CountsOpen'
<1>1. IsFiniteSet(Open \ {i}) /\ Cardinality(Open \ {i}) = Cardinality(Open) - 1
  BY FS_RemoveElement DEF CountsOpen
<1> QED BY <1>1 DEF CountsOpen

LEMMA NextSize == IInv /\ CountsOpen /\ [Next]_vars => CountsOpen'
<1> SUFFICES ASSUME IInv, CountsOpen, [Next]_vars PROVE CountsOpen'
  OBVIOUS
<1> USE CallsAssumption DEF IInv, TypeButSize, Seats
<1>1. CASE Enqueue
  <2>1. issued + 1 \notin Open /\ Open' = Open \cup {issued + 1}
    BY <1>1 DEF Enqueue, SeatsAsIssued, Open
  <2>2. /\ IsFiniteSet(Open \cup {issued + 1})
        /\ Cardinality(Open \cup {issued + 1}) = Cardinality(Open) + 1
    BY <2>1, FS_AddElement DEF CountsOpen
  <2> QED BY <1>1, <2>1, <2>2 DEF Enqueue, CountsOpen
<1>2. ASSUME NEW i \in Seats, TakeTurn(i) PROVE CountsOpen'
  <2>1. CASE turn' = turn /\ size' = size
    <3>1. Open' = Open
      BY <1>2, <2>1 DEF TakeTurn, Open
    <3> QED BY <2>1, <3>1 DEF CountsOpen
  <2>2. CASE turn' = [turn EXCEPT ![i] = "rejected"] /\ size' = size - 1
    <3>1. i \in Open /\ Open' = Open \ {i}
      BY <1>2, <2>2 DEF TakeTurn, Settled, Open
    <3> QED BY <2>2, <3>1, OneLess
  <2> QED BY <1>2, <2>1, <2>2 DEF TakeTurn
<1>3. ASSUME NEW i \in Seats, JobSettles(i) PROVE CountsOpen'
  <2>1. i \in Open /\ Open' = Open \ {i}
    BY <1>3 DEF JobSettles, SeatsAsIssued, Settled, Open
  <2> QED BY <1>3, <2>1, OneLess DEF JobSettles
<1>4. CASE UNCHANGED <<issued, turn, size>>
  <2>1. Open' = Open
    BY <1>4 DEF Open
  <2> QED BY <1>4, <2>1 DEF CountsOpen
<1> QED
  BY <1>1, <1>2, <1>3, <1>4 DEF Next, vars, Abort, Tell

LEMMA TypeFromSize == IInv /\ CountsOpen => TypeOK
<1> SUFFICES ASSUME IInv, CountsOpen PROVE TypeOK
  OBVIOUS
<1>1. issued \in 0 .. Calls /\ Calls \in Nat
  BY CallsAssumption DEF IInv, TypeButSize
<1>2. IsFiniteSet(1 .. issued) /\ Cardinality(1 .. issued) = issued
  BY <1>1, FS_Interval
<1>3. Open \in SUBSET (1 .. issued)
  BY DEF Open
<1>4. Cardinality(Open) \in 0 .. issued
  <2>1. IsFiniteSet(Open) /\ Cardinality(Open) <= Cardinality(1 .. issued)
    BY <1>2, <1>3, FS_Subset
  <2>2. Cardinality(Open) \in Nat
    BY <2>1, FS_CardinalityType
  <2> QED BY <1>2, <2>1, <2>2
<1> QED BY <1>1, <1>4 DEF IInv, TypeButSize, CountsOpen, TypeOK

(* Every variable keeps its type: the counter never leaves 0 .. Calls,      *)
(* whatever is cancelled or fails (queue.ts, size).                         *)
THEOREM TypeCorrect == Spec => []TypeOK
  BY InitSize, NextSize, TypeFromSize, Invariance, PTL DEF Spec

=============================================================================
