------------------------------- MODULE Upload -------------------------------
(***************************************************************************)
(* What Rebuild.tla relies on for the upload of one source: the contract   *)
(* that the pipe of rebuild(), storage.Put and a backend keep together.    *)
(* PutPipe.tla is shown to implement it.                                   *)
(*                                                                         *)
(* Rebuild.tla takes Publish and Succeed in one step (PutOK), and Publish  *)
(* and Fail in one step (PutFails): nobody but the upload itself can tell  *)
(* when within them Put returns.  Steps after Fail are its LateWrite.      *)
(***************************************************************************)
CONSTANT Backend   \* "uploader", "writer" or "file", as in Rebuild

VARIABLES
  status,   \* what the caller of Put knows
  object    \* what is stored at the key

Init == status = "scheduled" /\ object = "before"

(* A file is truncated when it is opened. *)
Begin ==
  /\ status = "scheduled"
  /\ status' = "running"
  /\ object' = IF Backend = "file" THEN "partial" ELSE object

Refuse ==
  /\ status = "scheduled"
  /\ status' = "failed"
  /\ UNCHANGED object

Publish ==
  /\ status \in {"running", "failed"}
  /\ object' = "whole"
  /\ UNCHANGED status

Succeed ==
  /\ status = "running" /\ object = "whole"
  /\ status' = "ok"
  /\ UNCHANGED object

Fail ==
  /\ status = "running"
  /\ status' = "failed"
  /\ UNCHANGED object

(* A part of the archive becomes the object after Put has failed. *)
Spoil ==
  /\ status = "failed"
  /\ Backend # "uploader"
  /\ object' = "partial"
  /\ UNCHANGED status

Next == Begin \/ Refuse \/ Publish \/ Succeed \/ Fail \/ Spoil

Spec == Init /\ [][Next]_<<status, object>>
=============================================================================
