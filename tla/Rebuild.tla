------------------------------ MODULE Rebuild ------------------------------
(***************************************************************************)
(* cache/rebuilder.go: the "save cache" half of the plugin.                *)
(*                                                                         *)
(* Every member of Run is one call of rebuilder.Rebuild, made by a         *)
(* pipeline step of its own; all of them write one remote storage.  A call *)
(* first scans its source paths one after the other (Lstat, the missing-   *)
(* path policy, and without override an existence check of the remote      *)
(* object), then starts one goroutine per scheduled source, waits for all  *)
(* of them, drains their results and returns.                              *)
(*                                                                         *)
(* The archive written for a source is abstracted to the item that wrote   *)
(* it and to whether it is whole; PutPipe.tla opens up the pipe between    *)
(* the archiver and the backend that this module treats as one upload.     *)
(***************************************************************************)
EXTENDS Naturals, Sequences, FiniteSets

CONSTANTS
  Run,          \* the concurrent calls of Rebuild
  Source,       \* local source paths
  Path,         \* normalised paths, the last part of a remote key
  Key,          \* values a key generator can return
  NoKey,        \* not a key: no key generated yet, or no fallback generator
  NoItem,       \* not an item: the writer of an object older than every call
  NormPath,     \* normalizeDockerPath
  Calls,        \* the configurations a call can be made with
  Backend,      \* how the storage backend makes an upload visible
  ExistsHonest  \* FALSE: Exists may answer "no" on a transport error

MissingPathPolicy == {"strict", "skipAllowEmpty", "skipRequirePresent"}

(***************************************************************************)
(* "uploader": S3 and Azure, the SDK publishes the object in one step;     *)
(* "writer": GCS, the object is published by closing the writer, which the *)
(* backend also does after a failed copy; "file": filesystem and SFTP,     *)
(* the object is truncated and written in place.                           *)
(***************************************************************************)
BackendKind == {"uploader", "writer", "file"}

Item == Run \X Nat

Call == [srcs: Seq(Source), key: Key, fallback: Key \cup {NoKey},
         override: BOOLEAN, policy: MissingPathPolicy]

ASSUME RebuildAssumption ==
  /\ NormPath \in [Source -> Path]
  /\ NoKey \notin Key
  /\ NoItem \notin Item
  /\ Calls \subseteq Call
  /\ Backend \in BackendKind
  /\ ExistsHonest \in BOOLEAN

Object == Key \X Path

ContentKind == {"absent", "partial", "whole", "mixed"}
Content == [kind: ContentKind, item: Item \cup {NoItem}]

Absent        == [kind |-> "absent", item |-> NoItem]
Older         == [kind |-> "whole", item |-> NoItem]
Mixed         == [kind |-> "mixed", item |-> NoItem]
Partial(r, i) == [kind |-> "partial", item |-> <<r, i>>]
Whole(r, i)   == [kind |-> "whole", item |-> <<r, i>>]

VARIABLES
  call,     \* the receiver and argument of each Rebuild call
  pc,       \* where the call is
  key,      \* the generated cache key
  pos,      \* index of the next source of the scan
  task,     \* what became of each source
  results,  \* contents of the results channel
  summary,  \* rebuildSummary
  ret,      \* what the call returned
  store,    \* remote storage
  late      \* failed uploads whose backend has still something under way

vars == <<call, pc, key, pos, task, results, summary, ret, store, late>>

(* The fields of rebuildSummary. *)
Counter == {"requested", "missing", "existing", "scheduled", "uploaded", "failed"}
Summary == [Counter -> Nat]

MutantInitialSummary(n) == [c \in Counter |-> IF c = "requested" THEN n - 1 ELSE 0]

InitialSummary(n) == [c \in Counter |-> IF c = "requested" THEN n ELSE 0]

TaskState == {"unseen", "missing", "existing", "scheduled",
              "running", "ok", "failed", "sent"}

ScanError == {"errNoSources", "errKey", "errScan", "errAllMissing"}
Return    == {"none", "nil", "errUpload"} \cup ScanError

Indices(r) == 1..Len(call[r].srcs)
Dst(r, i)  == <<key[r], NormPath[call[r].srcs[i]]>>

(* A source for which a goroutine is, or was, started. *)
Uploads(r) == {i \in Indices(r) :
                 task[r][i] \in {"scheduled", "running", "ok", "failed", "sent"}}

Init ==
  /\ call \in [Run -> Calls]
  /\ store \in [Object -> {Absent, Older}]
  /\ pc = [r \in Run |-> "start"]
  /\ key = [r \in Run |-> NoKey]
  /\ pos = [r \in Run |-> 1]
  /\ task = [r \in Run |-> [i \in Indices(r) |-> "unseen"]]
  /\ results = [r \in Run |-> {}]
  /\ summary = [r \in Run |-> InitialSummary(Len(call[r].srcs))]
  /\ ret = [r \in Run |-> "none"]
  /\ late = {}

-----------------------------------------------------------------------------
(* The sequential part of a call. *)

Finish(r, value) ==
  /\ pc' = [pc EXCEPT ![r] = "returned"]
  /\ ret' = [ret EXCEPT ![r] = value]

NoSources(r) ==
  /\ pc[r] = "start"
  /\ call[r].srcs = <<>>
  /\ Finish(r, IF call[r].policy = "skipRequirePresent"
                 THEN "errNoSources" ELSE "nil")
  /\ UNCHANGED <<call, key, pos, task, results, summary, store, late>>

UseKey(r, k) ==
  /\ key' = [key EXCEPT ![r] = k]
  /\ pc' = [pc EXCEPT ![r] = "scan"]
  /\ UNCHANGED <<call, pos, task, results, summary, ret, store, late>>

(* generateKey: the generator, or after its failure the fallback generator. *)
GenerateKey(r) ==
  /\ pc[r] = "start"
  /\ call[r].srcs # <<>>
  /\ \/ UseKey(r, call[r].key)
     \/ call[r].fallback # NoKey /\ UseKey(r, call[r].fallback)

GenerateKeyFails(r) ==
  /\ pc[r] = "start"
  /\ call[r].srcs # <<>>
  /\ Finish(r, "errKey")
  /\ UNCHANGED <<call, key, pos, task, results, summary, store, late>>

Scanning(r) == pc[r] = "scan" /\ pos[r] <= Len(call[r].srcs)

(* Record what the scan decided about the current source and move on. *)
Decide(r, verdict) ==
  /\ task' = [task EXCEPT ![r][pos[r]] = verdict]
  /\ summary' = [summary EXCEPT ![r][verdict] = @ + 1]
  /\ pos' = [pos EXCEPT ![r] = @ + 1]
  /\ UNCHANGED <<call, pc, key, results, ret, store, late>>

(***************************************************************************)
(* handleMissingPath.  Lstat fails with fs.ErrNotExist, which both skip    *)
(* policies skip, or with another error, which only the policy of the      *)
(* automatic detection skips; in every other case Rebuild returns.         *)
(***************************************************************************)
SkippedByPolicy(r, lstat) ==
  \/ call[r].policy = "skipRequirePresent" /\ lstat = "notExist"
  \/ call[r].policy = "skipAllowEmpty"

HandleMissingPath(r) ==
  /\ Scanning(r)
  /\ \E lstat \in {"notExist", "otherError"} :
       \/ /\ SkippedByPolicy(r, lstat)
          /\ Decide(r, "missing")
       \/ /\ ~ SkippedByPolicy(r, lstat)
          /\ Finish(r, "errScan")
          /\ UNCHANGED <<call, key, pos, task, results, summary, store, late>>

MutantExistsAnswers(o) == BOOLEAN

ExistsAnswers(o) ==
  {store[o] # Absent} \cup (IF ExistsHonest THEN {} ELSE {FALSE})

SkipExisting(r) ==
  /\ Scanning(r)
  /\ ~ call[r].override
  /\ TRUE \in ExistsAnswers(Dst(r, pos[r]))
  /\ Decide(r, "existing")

ExistsFails(r) ==
  /\ Scanning(r)
  /\ ~ call[r].override
  /\ Finish(r, "errScan")
  /\ UNCHANGED <<call, key, pos, task, results, summary, store, late>>

Schedule(r) ==
  /\ Scanning(r)
  /\ call[r].override \/ FALSE \in ExistsAnswers(Dst(r, pos[r]))
  /\ Decide(r, "scheduled")

ScanDone(r) == pc[r] = "scan" /\ pos[r] > Len(call[r].srcs)

MutantNothingToSave(r) == FALSE

NothingToSave(r) ==
  /\ call[r].policy = "skipRequirePresent"
  /\ summary[r].missing = summary[r].requested

NothingScheduled(r) ==
  /\ ScanDone(r)
  /\ summary[r].scheduled = 0
  /\ Finish(r, IF NothingToSave(r) THEN "errAllMissing" ELSE "nil")
  /\ UNCHANGED <<call, key, pos, task, results, summary, store, late>>

StartUploads(r) ==
  /\ ScanDone(r)
  /\ summary[r].scheduled > 0
  /\ pc' = [pc EXCEPT ![r] = "wait"]
  /\ UNCHANGED <<call, key, pos, task, results, summary, ret, store, late>>

MutantAllSent(r) == \E i \in Uploads(r) : task[r][i] = "sent"

AllSent(r) == \A i \in Uploads(r) : task[r][i] = "sent"

(* wg.Wait() has nothing left to wait for. *)
WaitDone(r) ==
  /\ pc[r] = "wait"
  /\ AllSent(r)
  /\ pc' = [pc EXCEPT ![r] = "collect"]
  /\ UNCHANGED <<call, key, pos, task, results, summary, ret, store, late>>

CollectResult(r) ==
  /\ pc[r] = "collect"
  /\ \E res \in results[r] :
       /\ results' = [results EXCEPT ![r] = @ \ {res}]
       /\ summary' = [summary EXCEPT
                        ![r][IF res.ok THEN "uploaded" ELSE "failed"] = @ + 1]
  /\ UNCHANGED <<call, pc, key, pos, task, ret, store, late>>

MutantUploadError(r) == summary[r].failed > 0 /\ summary[r].uploaded = 0

UploadError(r) == summary[r].failed > 0

ReturnResult(r) ==
  /\ pc[r] = "collect"
  /\ results[r] = {}
  /\ Finish(r, IF UploadError(r) THEN "errUpload" ELSE "nil")
  /\ UNCHANGED <<call, key, pos, task, results, summary, store, late>>

-----------------------------------------------------------------------------
(* The goroutine of source i, which runs rebuild() and sends its result. *)

SetTask(r, i, state) == task' = [task EXCEPT ![r][i] = state]
SetObject(r, i, content) == store' = [store EXCEPT ![Dst(r, i)] = content]

MutantStarted(r) == pc[r] \in {"scan", "wait"}

(* The go statements come after the whole scan. *)
Started(r) == pc[r] = "wait"

Running(r, i) == Started(r) /\ task[r][i] = "running"

MutantTruncatesOnOpen == TRUE

(* A file is truncated when it is opened; the other backends stage. *)
TruncatesOnOpen == Backend = "file"

PutOpen(r, i) ==
  /\ Started(r)
  /\ task[r][i] = "scheduled"
  /\ SetTask(r, i, "running")
  /\ IF TruncatesOnOpen THEN SetObject(r, i, Partial(r, i)) ELSE UNCHANGED store
  /\ UNCHANGED <<call, pc, key, pos, results, summary, ret, late>>

(***************************************************************************)
(* The upload cannot even begin (no directory, no connection, no rights),  *)
(* or it has not begun when its time is up.                                *)
(***************************************************************************)
PutRejected(r, i) ==
  /\ Started(r)
  /\ task[r][i] = "scheduled"
  /\ SetTask(r, i, "failed")
  /\ late' \in {late, late \cup {<<r, i>>}}
  /\ UNCHANGED <<call, pc, key, pos, results, summary, ret, store>>

(* Bytes written into a file that another writer has opened since. *)
Intrude(r, i) ==
  /\ Backend = "file"
  /\ store[Dst(r, i)] # Absent
  /\ store[Dst(r, i)].item # <<r, i>>
  /\ SetObject(r, i, Mixed)

PutIntoForeignFile(r, i) ==
  /\ Running(r, i)
  /\ Intrude(r, i)
  /\ UNCHANGED <<call, pc, key, pos, task, results, summary, ret, late>>

(* What the end of the archive does to the object. *)
Publish(r, i) ==
  IF Backend = "file" /\ store[Dst(r, i)] # Partial(r, i)
    THEN UNCHANGED store
    ELSE SetObject(r, i, Whole(r, i))

PutOK(r, i) ==
  /\ Running(r, i)
  /\ SetTask(r, i, "ok")
  /\ Publish(r, i)
  /\ UNCHANGED <<call, pc, key, pos, results, summary, ret, late>>

(***************************************************************************)
(* What an upload that fails leaves behind: nothing new, the whole archive *)
(* (a lost answer, a failed ACL call, the context expiring as the last     *)
(* write ends), the part read so far when the writer is closed after a     *)
(* failed copy, or bytes in a file that is by now another writer's.        *)
(***************************************************************************)
Residue(r, i) ==
  \/ UNCHANGED store
  \/ Publish(r, i)
  \/ Backend = "writer" /\ SetObject(r, i, Partial(r, i))
  \/ Intrude(r, i)

(***************************************************************************)
(* An error or the operation timeout.  Put returns when its context is     *)
(* done, the goroutine or the server it waited for may not be done yet.    *)
(***************************************************************************)
PutFails(r, i) ==
  /\ Running(r, i)
  /\ SetTask(r, i, "failed")
  /\ Residue(r, i)
  /\ late' \in {late, late \cup {<<r, i>>}}
  /\ UNCHANGED <<call, pc, key, pos, results, summary, ret>>

(* What an upload that Put gave up does later: its last effect, or its open. *)
LateWrite(r, i) ==
  /\ <<r, i>> \in late
  /\ \/ late' = late \ {<<r, i>>} /\ Residue(r, i)
     \/ UNCHANGED late /\ TruncatesOnOpen /\ SetObject(r, i, Partial(r, i))
  /\ UNCHANGED <<call, pc, key, pos, task, results, summary, ret>>

MutantChannelCapacity(r) == 1

(* make(chan uploadResult, len(scheduled)) *)
ChannelCapacity(r) == summary[r].scheduled

SendResult(r, i) ==
  /\ Started(r)
  /\ task[r][i] \in {"ok", "failed"}
  /\ Cardinality(results[r]) < ChannelCapacity(r)
  /\ results' = [results EXCEPT
                   ![r] = @ \cup {[index |-> i, ok |-> task[r][i] = "ok"]}]
  /\ SetTask(r, i, "sent")
  /\ UNCHANGED <<call, pc, key, pos, summary, ret, store, late>>

-----------------------------------------------------------------------------
CallStep(r) ==
  \/ NoSources(r) \/ GenerateKey(r) \/ GenerateKeyFails(r)
  \/ HandleMissingPath(r) \/ SkipExisting(r) \/ ExistsFails(r) \/ Schedule(r)
  \/ NothingScheduled(r) \/ StartUploads(r) \/ WaitDone(r)
  \/ CollectResult(r) \/ ReturnResult(r)

UploadStep(r, i) ==
  \/ PutOpen(r, i) \/ PutRejected(r, i) \/ PutIntoForeignFile(r, i)
  \/ PutOK(r, i) \/ PutFails(r, i) \/ SendResult(r, i)

(* Every call has returned: the steps are over and the processes exit. *)
AllReturned ==
  /\ \A r \in Run : pc[r] = "returned"
  /\ UNCHANGED vars

Next ==
  \/ \E r \in Run : CallStep(r)
  \/ \E r \in Run : \E i \in Indices(r) : UploadStep(r, i) \/ LateWrite(r, i)
  \/ AllReturned

Spec == Init /\ [][Next]_vars

(***************************************************************************)
(* The Go scheduler runs every goroutine that can run.  An upload ends: it *)
(* writes a finite archive, and storage.go gives its context a timeout, so *)
(* writing blocks into the file of another writer is no progress.          *)
(***************************************************************************)
UploadProgress(r, i) ==
  PutOpen(r, i) \/ PutRejected(r, i) \/ PutOK(r, i) \/ PutFails(r, i) \/ SendResult(r, i)

Fairness ==
  /\ \A r \in Run : WF_vars(CallStep(r))
  /\ \A r \in Run : WF_vars(\E i \in Indices(r) : UploadProgress(r, i))

FairSpec == Spec /\ Fairness

-----------------------------------------------------------------------------
(* Properties. *)

(* The variables keep their types. *)
TypeOK ==
  /\ call \in [Run -> Calls]
  /\ pc \in [Run -> {"start", "scan", "wait", "collect", "returned"}]
  /\ key \in [Run -> Key \cup {NoKey}]
  /\ pos \in [Run -> Nat \ {0}]
  /\ DOMAIN task = Run
  /\ \A r \in Run : task[r] \in [Indices(r) -> TaskState]
  /\ DOMAIN results = Run
  /\ \A r \in Run : results[r] \subseteq [index: Indices(r), ok: BOOLEAN]
  /\ summary \in [Run -> Summary]
  /\ ret \in [Run -> Return]
  /\ store \in [Object -> Content]
  /\ late \subseteq Item

(* No other source of this or of any other call goes to the same object. *)
Exclusive(r, i) ==
  \A r2 \in Run : \A i2 \in Indices(r2) :
    Dst(r2, i2) = Dst(r, i) => r2 = r /\ i2 = i

(***************************************************************************)
(* rebuildSummary accounts for every source exactly once: when a call that *)
(* reached the end returns, requested = missing + existing + uploaded +    *)
(* failed, whatever the order in which the goroutines answered, and it     *)
(* returns nil exactly when no upload failed.                              *)
(***************************************************************************)
SummaryAccounts ==
  \A r \in Run : ret[r] \in {"nil", "errUpload"} =>
    /\ summary[r].requested = summary[r].missing + summary[r].existing
                               + summary[r].uploaded + summary[r].failed
    /\ ret[r] = "nil" <=> summary[r].failed = 0

(***************************************************************************)
(* All or nothing before the first upload: a call that gives up in the     *)
(* scan (a missing path under the strict policy, a failed existence check, *)
(* no key) has left no trace in the storage, also for the sources it had   *)
(* already scheduled.                                                      *)
(***************************************************************************)
ScanErrorStoresNothing ==
  \A r \in Run : ret[r] \in ScanError =>
    \A i \in Indices(r) : \A o \in Object : store[o].item # <<r, i>>

(***************************************************************************)
(* "cache save complete" is true: when Rebuild returns nil, every source   *)
(* it uploaded to an object of its own is stored there, whole.  A failed   *)
(* or a forgotten goroutine cannot hide behind the others.                 *)
(***************************************************************************)
SuccessStoresArchive ==
  \A r \in Run : ret[r] = "nil" =>
    \A i \in Uploads(r) : Exclusive(r, i) => store[Dst(r, i)] = Whole(r, i)

(***************************************************************************)
(* After a nil return every source that was not missing has a whole        *)
(* archive at its key, its own, another call's, or an older one.           *)
(***************************************************************************)
SavedIsWhole ==
  \A r \in Run : ret[r] = "nil" =>
    \A i \in Indices(r) :
      task[r][i] # "missing" => store[Dst(r, i)].kind = "whole"

(***************************************************************************)
(* The skipRequirePresent policy succeeds only with something cached.      *)
(***************************************************************************)
RequirePresentCachesSomething ==
  \A r \in Run :
    ret[r] = "nil" /\ call[r].policy = "skipRequirePresent" =>
      \E i \in Indices(r) : store[Dst(r, i)] # Absent

(***************************************************************************)
(* Without override an object that was there before is never touched,      *)
(* provided nobody else writes it: the existence check and the upload are  *)
(* far apart, with the whole rest of the scan between them.                *)
(***************************************************************************)
NoOverrideKeepsExclusive ==
  [][\A r \in Run : \A i \in Indices(r) :
       /\ ~ call[r].override
       /\ key[r] # NoKey
       /\ Exclusive(r, i)
       /\ store[Dst(r, i)] # Absent
       /\ store[Dst(r, i)].item # <<r, i>>
       => store'[Dst(r, i)] = store[Dst(r, i)]]_vars

(***************************************************************************)
(* Every call returns: the results channel has room for every goroutine,   *)
(* since Rebuild reads it only after all of them have ended.               *)
(***************************************************************************)
EveryCallReturns == \A r \in Run : <>(pc[r] = "returned")
=============================================================================
