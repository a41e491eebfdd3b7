------------------------------ MODULE Download ------------------------------
(***************************************************************************)
(* What Restore.tla relies on for the download of one entry: the contract  *)
(* that the pipe of restore(), storage.Get, a backend and Extract keep     *)
(* together.  GetPipe.tla is shown to implement it.                        *)
(*                                                                         *)
(* Restore.tla takes a download as one step, which succeeds or fails: it   *)
(* has no workspace, and everything before Succeed or Fail is a stutter.   *)
(***************************************************************************)
CONSTANT Name   \* paths of the workspace

VARIABLES
  result,    \* what restore() returned
  complete,  \* whether everything the object has was read
  reach,     \* the paths the object leads to
  content    \* what is at each path

vars == <<result, complete, reach, content>>

Init == result = "none" /\ reach \subseteq Name

(* What was read stays read. *)
Read == complete => complete'

Extract ==
  /\ result = "none" /\ Read
  /\ \A n \in Name \ reach : content'[n] = content[n]
  /\ UNCHANGED <<result, reach>>

Succeed ==
  /\ result = "none" /\ complete
  /\ result' = "ok"
  /\ UNCHANGED <<complete, reach, content>>

(* What was extracted stays in the workspace, half of a member as well. *)
Fail ==
  /\ result = "none" /\ Read
  /\ \A n \in Name \ reach : content'[n] = content[n]
  /\ result' = "error"
  /\ UNCHANGED reach

Next == Extract \/ Succeed \/ Fail

Spec == Init /\ [][Next]_vars
=============================================================================
