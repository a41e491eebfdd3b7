----------------------------- MODULE RestoreInv -----------------------------
(***************************************************************************)
(* The inductive invariant of Restore, in named parts.                     *)
(***************************************************************************)
EXTENDS Restore

(* The increments that were lost are those of goroutines that read a value *)
(* before somebody else's increment, so that one increment always remains. *)
Tally ==
  /\ count <= Cardinality(Restored)
  /\ Restored # {} => count > 0
  /\ \A i \in Workers : task[i] = "add" => seen[i] <= Cardinality(Restored)

(* Whose error is collected, and what is left to do when the call is over. *)
Outcome ==
  /\ errs = {i \in Workers : task[i] = "error"}
  /\ pc = "start" => Workers = {} /\ count = 0
  /\ pc = "returned" <=> ret # "none"
  /\ ret # "none" => \A i \in Workers : task[i] \in {"ok", "error"}
  /\ ret \in {"errKey", "errList", "errNotPresent"} => Workers = {}
  /\ metrics.hit <=> ret # "none" /\ count > 0
  /\ metrics.state = "complete" => ret # "none" /\ count = Total
  /\ ret = "errRestore" => count = 0 /\ errs # {}
  /\ ret = "nil" => count > 0 \/ errs = {}

(* cacheFileMutex: one goroutine between reading and writing the file. *)
Locked ==
  /\ \A i \in Workers : task[i] \in {"read", "write"} <=> lock = i
  /\ \A i \in Workers : task[i] = "write" => cacheData[i] = metadata.entries

IInv == TypeOK /\ Tally /\ Outcome /\ Locked
=============================================================================
