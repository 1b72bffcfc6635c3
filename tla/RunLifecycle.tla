---------------------------- MODULE RunLifecycle ----------------------------
(***************************************************************************)
(* What the server promises about check runs, whatever it does inside:     *)
(* which status a run may take after which, that LM Studio gets one        *)
(* generation request at a time, and that a request whose end is unknown   *)
(* keeps every later one back until the user has vouched for its run.      *)
(***************************************************************************)
CONSTANT Runs

VARIABLES status,   \* the status the user sees
          sending,  \* the runs with a generation request in flight
          suspects  \* runs whose last request may still be generating

vars == <<status, sending, suspects>>

Resting  == {"completed", "partially-failed", "stopped", "recovery-waiting"}
Statuses == Resting \cup {"absent", "running", "deleted"}

TypeOK ==
  /\ status \in [Runs -> Statuses]
  /\ sending \in SUBSET Runs
  /\ suspects \in SUBSET Runs

Init ==
  /\ status = [r \in Runs |-> "absent"]
  /\ sending = {}
  /\ suspects = {}

(* A run starts, or is stored as stopped because its settings are rejected. *)
Create(r) ==
  /\ status[r] = "absent"
  /\ \E s \in {"running", "stopped"} : status' = [status EXCEPT ![r] = s]
  /\ UNCHANGED <<sending, suspects>>

Send(r) ==
  /\ status[r] = "running"
  /\ sending = {} /\ suspects = {}
  /\ sending' = {r}
  /\ UNCHANGED <<status, suspects>>

Answer(r) ==
  /\ r \in sending
  /\ sending' = {}
  /\ UNCHANGED <<status, suspects>>

(* The request ends without an answer, and without the word of LM Studio    *)
(* that it stopped generating.                                              *)
Lose(r) ==
  /\ r \in sending
  /\ sending' = {}
  /\ suspects' = suspects \cup {r}
  /\ UNCHANGED status

(* A suspect comes to rest as recovery-waiting and as nothing else; the     *)
(* caution may also be needless.                                            *)
Rest(r) ==
  /\ status[r] = "running"
  /\ r \notin sending
  /\ \E s \in Resting :
       /\ r \in suspects => s = "recovery-waiting"
       /\ status' = [status EXCEPT ![r] = s]
  /\ UNCHANGED <<sending, suspects>>

(* Resuming or retrying; to resume a recovery-waiting run is to vouch.      *)
Reopen(r) ==
  /\ status[r] \in {"stopped", "recovery-waiting", "partially-failed"}
  /\ status' = [status EXCEPT ![r] = "running"]
  /\ suspects' = suspects \ {r}
  /\ UNCHANGED sending

Vouch(r) ==
  /\ r \in suspects
  /\ suspects' = suspects \ {r}
  /\ UNCHANGED <<status, sending>>

Delete(r) ==
  /\ status[r] \in {"stopped", "completed", "partially-failed"}
  /\ status' = [status EXCEPT ![r] = "deleted"]
  /\ UNCHANGED <<sending, suspects>>

(* The process ends.  A request in flight becomes a suspect; a suspect not  *)
(* yet recorded as recovery-waiting may be forgotten.                       *)
Restart ==
  /\ sending' = {}
  /\ \E lost \in SUBSET {r \in suspects : status[r] = "running"} :
       suspects' = (suspects \ lost) \cup sending
  /\ UNCHANGED status

Next ==
  \/ \E r \in Runs : \/ Create(r) \/ Send(r) \/ Answer(r) \/ Lose(r) \/ Rest(r)
                     \/ Reopen(r) \/ Vouch(r) \/ Delete(r)
  \/ Restart

Spec == Init /\ [][Next]_vars

-----------------------------------------------------------------------------
(* A suspect is on its way to recovery-waiting or there already, so there   *)
(* is always something the user can act on to clear it.                     *)
SuspectsAreShown ==
  \A r \in suspects : status[r] \in {"running", "recovery-waiting"}

(* Nothing is sent beside a suspect, and one request at a time.             *)
QuietWhileSuspect ==
  /\ sending # {} => suspects = {}
  /\ \A r, q \in sending : r = q

=============================================================================
