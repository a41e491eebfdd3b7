---------------------------- MODULE HarnessStore ----------------------------
(***************************************************************************)
(* The remote storage behind the Harness cache service, as the backend of  *)
(* storage/backend/harness uses it.  Uploads and downloads of ONE cache    *)
(* key share it: the object at the key, and the objects key.part1,         *)
(* key.part2, ... that every multipart upload of the key writes.           *)
(*                                                                         *)
(* Every request first asks the cache service for a presigned link and     *)
(* then uses it; both halves can fail.  The number of failures of a        *)
(* behaviour is bounded by its scenario (bound: scenario.faults).          *)
(***************************************************************************)
EXTENDS Naturals, Sequences

CONSTANTS
  Upload,     \* calls of Put for the key
  Download,   \* calls of Get for the key
  Worker,     \* workers
  MaxTries,   \* maxRetries, maxDownloadRetries
  Scenarios   \* what the uploads send, the configuration, the faults

(***************************************************************************)
(* Sizes are in bytes of a small unit; a configured size of zero stands    *)
(* for every size that is not positive.  The pool of workers of every call *)
(* (maxWorkers, maxDownloadWorkers) is scenario.workers.                   *)
(***************************************************************************)
Scenario == [size: [Upload -> Nat], dir: SUBSET Upload,
             uploads: SUBSET Upload, downloads: SUBSET Download,
             enabled: BOOLEAN, maxSize: Nat, chunk: Nat, threshold: Nat,
             workers: SUBSET Worker, faults: Nat]

ASSUME HarnessAssumption ==
  /\ MaxTries \in Nat \ {0}
  /\ Scenarios \subseteq Scenario
  /\ \A s \in Scenarios : s.workers # {}
  /\ "service" \notin Upload

VARIABLES
  scenario,  \* what this behaviour is about
  faults,    \* how many requests have failed
  object,    \* the object at the key
  parts      \* the objects key.partN

storeVars == <<scenario, faults, object, parts>>

(* A byte is known by the upload it belongs to and its place there. *)
Content(u) == [k \in 1..scenario.size[u] |-> <<u, k>>]

(* Bytes that are no upload's: an error page, the text of a manifest. *)
ErrorPage    == << <<"service", 1>> >>
ManifestText == << <<"service", 2>> >>

NoObject  == [kind |-> "absent"]
Plain(bytes) == [kind |-> "plain", bytes |-> bytes]

(***************************************************************************)
(* CompleteMultipartUploadRequest: the numbers of the parts, in the order  *)
(* they are listed, and the MD5 sum, which stands for what was summed.     *)
(***************************************************************************)
Manifest(numbers, checksum) ==
  [kind |-> "manifest", numbers |-> numbers, checksum |-> checksum]

(* An object that was never stored is answered with 404. *)
PartAt(n) == IF n \in 1..Len(parts) THEN parts[n] ELSE <<>>

(* The part objects after bytes have been stored at key.partN. *)
PartsWith(n, bytes) ==
  [k \in 1..(IF n > Len(parts) THEN n ELSE Len(parts)) |->
     IF k = n THEN bytes ELSE PartAt(k)]

StoreInit ==
  /\ scenario \in Scenarios
  /\ faults = 0
  /\ object = NoObject
  /\ parts = <<>>

(***************************************************************************)
(* What becomes of a request: the link and the answer are fine, or         *)
(* getLink fails (transport, status, body), or the request itself does.    *)
(***************************************************************************)
Succeeds == UNCHANGED faults
Fails    == faults < scenario.faults /\ faults' = faults + 1

(* A PUT: done and answered; done, but the answer is lost, an error or     *)
(* without an ETag; not done.                                              *)
PutOutcome == {[stored |-> TRUE, ok |-> TRUE],
               [stored |-> TRUE, ok |-> FALSE],
               [stored |-> FALSE, ok |-> FALSE]}

Answer(ok) == IF ok THEN Succeeds ELSE Fails
=============================================================================
