------------------------------ MODULE Harness ------------------------------
(***************************************************************************)
(* Saves and restores of one key through the Harness cache service: calls  *)
(* of Put and of Get by different builds on one remote storage.            *)
(***************************************************************************)
EXTENDS HarnessPut, HarnessGet

vars == <<storeVars, putVars, getVars>>

Init == StoreInit /\ PutInit /\ GetInit

Next == \/ PutNext /\ UNCHANGED getVars
        \/ GetNext /\ UNCHANGED putVars

Spec == Init /\ [][Next]_vars

(***************************************************************************)
(* Requests are answered or end with the operation's context, and the      *)
(* scheduler runs every goroutine: the function, the distributor and each  *)
(* of the workers.                                                         *)
(***************************************************************************)
Fairness ==
  /\ \A u \in Upload :
       /\ WF_vars(PutCallStep(u) /\ UNCHANGED getVars)
       /\ WF_vars(DistributorStep(u) /\ UNCHANGED getVars)
       /\ \A w \in Worker : WF_vars(w \in scenario.workers /\ PutWorkerStep(u, w) /\ UNCHANGED getVars)
  /\ \A d \in Download :
       /\ WF_vars(GetCallStep(d) /\ UNCHANGED putVars)
       /\ \A w \in Worker : WF_vars(w \in scenario.workers /\ FetcherStep(d, w) /\ UNCHANGED putVars)

FairSpec == Spec /\ Fairness

Bytes == (Upload \cup {"service"}) \X Nat

TypeOK ==
  /\ scenario \in Scenarios
  /\ faults \in 0..scenario.faults
  /\ object.kind \in {"absent", "plain", "manifest"}
  /\ parts \in Seq(Seq(Bytes))
  /\ put \in [Upload -> {"unused", "start", "parts", "ok", "error"}]
  /\ get \in [Download -> {"unused", "start", "again", "parts", "ok", "combined", "error"}]
  /\ written \in [Download -> Seq(Bytes)]
  /\ \A u \in Upload, w \in scenario.workers : worker[u][w].tries < MaxTries
  /\ \A d \in Download, w \in scenario.workers : fetcher[d][w].tries < MaxTries

-----------------------------------------------------------------------------
PutReturned(u) == put[u] \in {"ok", "error"}
GetReturned(d) == get[d] \in {"ok", "combined", "error"}

(* What a restore gets of the object at the key, if nothing changes. *)
Restorable ==
  IF object.kind = "manifest"
    THEN FlattenSeq([k \in DOMAIN object.numbers |-> PartAt(object.numbers[k])])
    ELSE object.bytes

(***************************************************************************)
(* A save that succeeds can be restored byte for byte, if no other save of *)
(* the key ran: whatever the order in which the workers finish, whichever  *)
(* requests had to be repeated, and whatever error a worker saw that was   *)
(* another one's.                                                          *)
(***************************************************************************)
SoleUploadIsRestorable ==
  \A u \in Upload \ scenario.dir :
    /\ put[u] = "ok"
    /\ \A v \in Upload \ {u} : put[v] \in {"unused", "start"}
    => /\ object # NoObject
       /\ Restorable = Content(u)

(***************************************************************************)
(* A manifest lists the parts of its upload once each and in order, also   *)
(* when several saves of the key run at the same time.                     *)
(***************************************************************************)
ManifestListsParts ==
  object.kind = "manifest" =>
    /\ object.numbers = [k \in DOMAIN object.numbers |-> k]
    /\ Len(object.numbers) * scenario.chunk \in
         Len(object.checksum)..Len(object.checksum) + scenario.chunk - 1

(***************************************************************************)
(* A restore assembled from parts is the archive of one save, although     *)
(* other saves of the key overwrite the same part objects meanwhile.       *)
(***************************************************************************)
CombinedIsOneUpload ==
  \A d \in Download :
    get[d] = "combined" => \E u \in Upload : written[d] = Content(u)

(***************************************************************************)
(* Every call returns, also when a part fails and nobody receives from     *)
(* results any more.                                                       *)
(***************************************************************************)
CallsReturn ==
  /\ \A u \in Upload : put[u] = "start" ~> PutReturned(u)
  /\ \A d \in Download : get[d] = "start" ~> GetReturned(d)

(***************************************************************************)
(* "Get writes contents of the given object with given key from remote     *)
(* storage to io.Writer": what Get has written when it returns nil is the  *)
(* archive of one save.                                                    *)
(***************************************************************************)
GetWritesAnUpload ==
  \A d \in Download :
    get[d] \in {"ok", "combined"} => \E u \in Upload : written[d] = Content(u)
=============================================================================
