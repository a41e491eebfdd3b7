--------------------------- MODULE RebuildProofs ---------------------------
(***************************************************************************)
(* Proofs about Rebuild, for any set of calls, sources, keys and backends. *)
(***************************************************************************)
EXTENDS RebuildInv, FiniteSetTheorems, TLAPS

(* The number of sources is a natural number and their indices are finite. *)
LEMMA IndicesFinite ==
  ASSUME TypeOK, NEW r \in Run
  PROVE  /\ Len(call[r].srcs) \in Nat
         /\ Indices(r) \subseteq Nat \ {0}
         /\ IsFiniteSet(Indices(r))
         /\ call[r] \in Call
<1>1. call[r] \in Call
  BY RebuildAssumption DEF TypeOK
<1>2. Len(call[r].srcs) \in Nat
  BY <1>1 DEF Call
<1>3. QED
  BY <1>1, <1>2, FS_Interval DEF Indices

(* A remote key is an object once the cache key is known. *)
LEMMA DstType ==
  ASSUME TypeOK, NEW r \in Run, NEW i \in Indices(r), key[r] \in Key
  PROVE  Dst(r, i) \in Object
<1>1. call[r].srcs[i] \in Source
  BY IndicesFinite DEF Call, Indices
<1>2. QED
  BY <1>1, RebuildAssumption DEF Dst, Object

LEMMA InitTypeOK == Init => TypeOK
<1> SUFFICES ASSUME Init PROVE TypeOK
  OBVIOUS
<1>1. \A r \in Run : Len(call[r].srcs) \in Nat
  BY RebuildAssumption DEF Init, Call
<1>2. summary \in [Run -> Summary]
  BY <1>1 DEF Init, InitialSummary, Summary, Counter
<1>3. store \in [Object -> Content]
  BY DEF Init, Absent, Older, Content, ContentKind
<1>4. \A r \in Run : task[r] \in [Indices(r) -> TaskState]
  BY DEF Init, Indices, TaskState
<1>5. QED
  BY <1>2, <1>3, <1>4, RebuildAssumption DEF Init, TypeOK, Return

(* The steps that only move one source of one call from state to state. *)
LEMMA SetTaskType ==
  ASSUME TypeOK, NEW r \in Run, NEW i \in Indices(r), NEW v \in TaskState,
         SetTask(r, i, v), call' = call
  PROVE  /\ DOMAIN task' = Run
         /\ \A q \in Run : task'[q] \in [Indices(q)' -> TaskState]
BY DEF TypeOK, SetTask, Indices

LEMMA StoreType ==
  ASSUME TypeOK, NEW r \in Run, NEW i \in Indices(r),
         \/ UNCHANGED store
         \/ SetObject(r, i, Mixed)
         \/ SetObject(r, i, Partial(r, i))
         \/ SetObject(r, i, Whole(r, i))
  PROVE  store' \in [Object -> Content]
<1>1. i \in Nat
  BY IndicesFinite
<1>2. {Mixed, Partial(r, i), Whole(r, i)} \subseteq Content
  BY <1>1 DEF Mixed, Partial, Whole, Content, ContentKind, Item
<1>3. QED
  BY <1>2 DEF TypeOK, SetObject

LEMMA ResidueType ==
  ASSUME TypeOK, NEW r \in Run, NEW i \in Indices(r), Residue(r, i)
  PROVE  store' \in [Object -> Content]
BY StoreType DEF Residue, Publish, Intrude

LEMMA FinishType ==
  ASSUME TypeOK, NEW r \in Run, NEW v \in Return, Finish(r, v),
         UNCHANGED <<call, key, pos, task, results, summary, store, late>>
  PROVE  TypeOK'
BY DEF TypeOK, Finish, Indices

LEMMA DecideType ==
  ASSUME TypeOK, NEW r \in Run, Scanning(r), NEW v \in Verdict, Decide(r, v)
  PROVE  TypeOK'
<1>1. pos[r] \in Indices(r) /\ pos[r] + 1 \in Nat \ {0}
  BY IndicesFinite DEF TypeOK, Scanning, Indices
<1>2. SetTask(r, pos[r], v) /\ v \in TaskState
  BY DEF Decide, SetTask, Verdict, TaskState
<1>3. v \in Counter
  BY DEF Verdict, Counter
<1>4. summary' \in [Run -> Summary]
  BY <1>3 DEF TypeOK, Decide, Summary
<1>5. QED
  BY <1>1, <1>2, <1>4, SetTaskType DEF Decide, TypeOK, Indices

LEMMA CallStepTypeOK ==
  ASSUME TypeOK, NEW r \in Run, CallStep(r)
  PROVE  TypeOK'
<1>1. CASE NoSources(r)
  BY <1>1, FinishType DEF NoSources, Return, ScanError
<1>2. CASE GenerateKey(r)
  <2>1. ASSUME NEW k \in Key, UseKey(r, k) PROVE TypeOK'
    BY <2>1 DEF UseKey, TypeOK, Indices
  <2>2. call[r].key \in Key /\ (call[r].fallback # NoKey => call[r].fallback \in Key)
    BY IndicesFinite DEF Call
  <2>3. QED
    BY <1>2, <2>1, <2>2 DEF GenerateKey
<1>3. CASE GenerateKeyFails(r)
  BY <1>3, FinishType DEF GenerateKeyFails, Return, ScanError
<1>4. CASE HandleMissingPath(r)
  BY <1>4, FinishType, DecideType DEF HandleMissingPath, Return, ScanError, Verdict
<1>5. CASE SkipExisting(r)
  BY <1>5, DecideType DEF SkipExisting, Verdict
<1>6. CASE ExistsFails(r)
  BY <1>6, FinishType DEF ExistsFails, Return, ScanError
<1>7. CASE Schedule(r)
  BY <1>7, DecideType DEF Schedule, Verdict
<1>8. CASE NothingScheduled(r)
  BY <1>8, FinishType DEF NothingScheduled, Return, ScanError
<1>9. CASE StartUploads(r)
  BY <1>9 DEF StartUploads, TypeOK, Indices
<1>10. CASE WaitDone(r)
  BY <1>10 DEF WaitDone, TypeOK, Indices
<1>11. CASE CollectResult(r)
  <2>1. PICK res \in results[r] :
          /\ results' = [results EXCEPT ![r] = @ \ {res}]
          /\ summary' = [summary EXCEPT
                           ![r][IF res.ok THEN "uploaded" ELSE "failed"] = @ + 1]
    BY <1>11 DEF CollectResult
  <2>2. (IF res.ok THEN "uploaded" ELSE "failed") \in Counter
    BY DEF Counter
  <2>3. summary' \in [Run -> Summary]
    BY <2>1, <2>2 DEF TypeOK, Summary
  <2>4. QED
    BY <1>11, <2>1, <2>3 DEF CollectResult, TypeOK, Indices
<1>12. CASE ReturnResult(r)
  BY <1>12, FinishType DEF ReturnResult, Return
<1>13. QED
  BY <1>1, <1>2, <1>3, <1>4, <1>5, <1>6, <1>7, <1>8, <1>9, <1>10, <1>11, <1>12
     DEF CallStep

LEMMA UploadStepTypeOK ==
  ASSUME TypeOK, NEW r \in Run, NEW i \in Indices(r), UploadStep(r, i)
  PROVE  TypeOK'
<1>1. CASE PutOpen(r, i)
  BY <1>1, SetTaskType, StoreType DEF PutOpen, TypeOK, Indices, TaskState
<1>2. CASE PutRejected(r, i)
  <2>1. <<r, i>> \in Item
    BY IndicesFinite DEF Item
  <2>2. late' \subseteq Item
    BY <1>2, <2>1 DEF PutRejected, TypeOK
  <2>3. QED
    BY <1>2, <2>2, SetTaskType DEF PutRejected, TypeOK, Indices, TaskState
<1>3. CASE PutIntoForeignFile(r, i)
  BY <1>3, StoreType DEF PutIntoForeignFile, Intrude, TypeOK, Indices
<1>4. CASE PutOK(r, i)
  BY <1>4, SetTaskType, StoreType DEF PutOK, Publish, TypeOK, Indices, TaskState
<1>5. CASE PutFails(r, i)
  <2>1. <<r, i>> \in Item
    BY IndicesFinite DEF Item
  <2>2. late' \subseteq Item
    BY <1>5, <2>1 DEF PutFails, TypeOK
  <2>3. QED
    BY <1>5, <2>2, SetTaskType, ResidueType DEF PutFails, TypeOK, Indices, TaskState
<1>6. CASE SendResult(r, i)
  <2>1. [index |-> i, ok |-> task[r][i] = "ok"] \in [index : Indices(r), ok : BOOLEAN]
    OBVIOUS
  <2>2. \A q \in Run : results'[q] \subseteq [index : Indices(q), ok : BOOLEAN]
    BY <1>6, <2>1 DEF SendResult, TypeOK
  <2>3. QED
    BY <1>6, <2>2, SetTaskType DEF SendResult, TypeOK, Indices, TaskState
<1>7. QED
  BY <1>1, <1>2, <1>3, <1>4, <1>5, <1>6 DEF UploadStep

LEMMA LateWriteTypeOK ==
  ASSUME TypeOK, NEW r \in Run, NEW i \in Indices(r), LateWrite(r, i)
  PROVE  TypeOK'
<1>1. store' \in [Object -> Content]
  BY ResidueType, StoreType DEF LateWrite
<1>2. late' \subseteq Item
  BY DEF LateWrite, TypeOK
<1>3. QED
  BY <1>1, <1>2 DEF LateWrite, TypeOK, Indices

LEMMA NextTypeOK == TypeOK /\ [Next]_vars => TypeOK'
<1> SUFFICES ASSUME TypeOK, [Next]_vars PROVE TypeOK'
  OBVIOUS
<1>1. CASE UNCHANGED vars
  BY <1>1 DEF vars, TypeOK, Indices
<1>2. QED
  BY <1>1, CallStepTypeOK, UploadStepTypeOK, LateWriteTypeOK DEF Next, AllReturned

(* Type correctness of every call, upload and object of the storage. *)
THEOREM SpecTypeOK == Spec => []TypeOK
BY InitTypeOK, NextTypeOK, PTL DEF Spec

-----------------------------------------------------------------------------
(* What the steps of one call leave alone. *)

LEMMA UploadFrame ==
  ASSUME TypeOK, NEW r \in Run, NEW i \in Indices(r), UploadStep(r, i)
  PROVE  /\ pc[r] = "wait"
         /\ UNCHANGED <<call, pc, key, pos, summary, ret>>
         /\ task[r][i] \in {"scheduled", "running", "ok", "failed"}
         /\ \E v \in Launched : \A q \in Run : \A j \in Indices(q) :
              task'[q][j] = IF q = r /\ j = i THEN v ELSE task[q][j]
<1>1. ASSUME NEW v \in Launched, SetTask(r, i, v)
      PROVE  \A q \in Run : \A j \in Indices(q) :
               task'[q][j] = IF q = r /\ j = i THEN v ELSE task[q][j]
  BY <1>1 DEF SetTask, TypeOK
<1>2. CASE PutOpen(r, i)
  BY <1>1, <1>2 DEF PutOpen, Started, Launched
<1>3. CASE PutRejected(r, i)
  BY <1>1, <1>3 DEF PutRejected, Started, Launched
<1>4. CASE PutIntoForeignFile(r, i)
  BY <1>4 DEF PutIntoForeignFile, Running, Started, Launched
<1>5. CASE PutOK(r, i)
  BY <1>1, <1>5 DEF PutOK, Running, Started, Launched
<1>6. CASE PutFails(r, i)
  BY <1>1, <1>6 DEF PutFails, Running, Started, Launched
<1>7. CASE SendResult(r, i)
  BY <1>1, <1>7 DEF SendResult, Started, Launched
<1>8. QED
  BY <1>2, <1>3, <1>4, <1>5, <1>6, <1>7 DEF UploadStep

LEMMA DecideFrame ==
  ASSUME TypeOK, NEW r \in Run, Scanning(r), NEW v \in Verdict, Decide(r, v)
  PROVE  /\ pos[r] \in Indices(r)
         /\ UNCHANGED <<call, pc, key, results, ret, store>>
         /\ \A q \in Run : pos'[q] = IF q = r THEN pos[q] + 1 ELSE pos[q]
         /\ \A q \in Run : \A j \in Indices(q) :
              task'[q][j] = IF q = r /\ j = pos[r] THEN v ELSE task[q][j]
         /\ \A q \in Run : \A c \in Counter :
              summary'[q][c] = IF q = r /\ c = v THEN summary[q][c] + 1
                               ELSE summary[q][c]
<1>1. pos[r] \in Indices(r)
  BY IndicesFinite DEF TypeOK, Scanning, Indices
<1>2. \A q \in Run : \A j \in Indices(q) :
        task'[q][j] = IF q = r /\ j = pos[r] THEN v ELSE task[q][j]
  BY <1>1 DEF Decide, TypeOK
<1>3. \A q \in Run : \A c \in Counter :
        summary'[q][c] = IF q = r /\ c = v THEN summary[q][c] + 1
                         ELSE summary[q][c]
  BY DEF Decide, TypeOK, Summary, Verdict, Counter
<1>4. QED
  BY <1>1, <1>2, <1>3 DEF Decide, TypeOK

(***************************************************************************)
(* A step of a call is one of five kinds: it returns, chooses the key,     *)
(* decides about a source, moves to the next phase or drains a result.     *)
(***************************************************************************)
Returns(r, v) ==
  /\ Finish(r, v)
  /\ UNCHANGED <<call, key, pos, task, results, summary, store, late>>

LEMMA CallStepKinds ==
  ASSUME TypeOK, NEW r \in Run, CallStep(r)
  PROVE  \/ pc[r] = "start" /\ call[r].srcs = <<>> /\ Returns(r, "nil")
         \/ pc[r] \in {"start", "scan"} /\ \E v \in ScanError : Returns(r, v)
         \/ ScanDone(r) /\ summary[r].scheduled = 0 /\ Returns(r, "nil")
         \/ /\ pc[r] = "collect" /\ results[r] = {}
            /\ Returns(r, IF UploadError(r) THEN "errUpload" ELSE "nil")
         \/ pc[r] = "start" /\ call[r].srcs # <<>> /\ \E k \in Key : UseKey(r, k)
         \/ Scanning(r) /\ \E v \in {"missing", "existing"} : Decide(r, v)
         \/ Schedule(r)
         \/ StartUploads(r)
         \/ WaitDone(r)
         \/ CollectResult(r)
<1>1. CASE NoSources(r)
  BY <1>1 DEF NoSources, Returns, ScanError
<1>2. CASE GenerateKey(r)
  <2>1. call[r].key \in Key /\ (call[r].fallback # NoKey => call[r].fallback \in Key)
    BY IndicesFinite DEF Call
  <2>2. QED
    BY <1>2, <2>1 DEF GenerateKey
<1>3. CASE GenerateKeyFails(r)
  BY <1>3 DEF GenerateKeyFails, Returns, ScanError
<1>4. CASE HandleMissingPath(r)
  BY <1>4 DEF HandleMissingPath, Returns, ScanError, Scanning
<1>5. CASE SkipExisting(r)
  BY <1>5 DEF SkipExisting
<1>6. CASE ExistsFails(r)
  BY <1>6 DEF ExistsFails, Returns, ScanError, Scanning
<1>8. CASE NothingScheduled(r)
  BY <1>8 DEF NothingScheduled, Returns, ScanError, ScanDone
<1>12. CASE ReturnResult(r)
  BY <1>12 DEF ReturnResult, Returns
<1>13. QED
  BY <1>1, <1>2, <1>3, <1>4, <1>5, <1>6, <1>8, <1>12 DEF CallStep

-----------------------------------------------------------------------------
(* PhaseInv is inductive. *)

LEMMA InitPhase == Init => PhaseInv
BY RebuildAssumption DEF Init, PhaseInv, Phase, Indices, ScanError

(* A call that a step leaves alone keeps its part of the invariant. *)
SameCall(q) ==
  /\ call' = call
  /\ pc'[q] = pc[q] /\ key'[q] = key[q] /\ pos'[q] = pos[q] /\ ret'[q] = ret[q]
  /\ summary'[q] = summary[q] /\ results'[q] = results[q]
  /\ \A j \in Indices(q) : task'[q][j] = task[q][j]

LEMMA OtherCallsSame ==
  ASSUME TypeOK, NEW r \in Run, NEW q \in Run, q # r,
         CallStep(r) \/ \E i \in Indices(r) : UploadStep(r, i)
  PROVE  SameCall(q)
<1>1. ASSUME NEW i \in Indices(r), UploadStep(r, i) PROVE SameCall(q)
  <2>1. results'[q] = results[q]
    BY <1>1 DEF UploadStep, PutOpen, PutRejected, PutIntoForeignFile, PutOK,
                PutFails, SendResult, TypeOK
  <2>2. QED
    BY <1>1, <2>1, UploadFrame DEF SameCall
<1>2. ASSUME CallStep(r) PROVE SameCall(q)
  <2>1. ASSUME NEW v \in Verdict, Scanning(r), Decide(r, v) PROVE SameCall(q)
    BY <2>1 DEF SameCall, Decide, TypeOK
  <2>2. ASSUME NEW v, Returns(r, v) PROVE SameCall(q)
    BY <2>2 DEF SameCall, Returns, Finish, TypeOK
  <2>3. ASSUME NEW k \in Key, UseKey(r, k) PROVE SameCall(q)
    BY <2>3 DEF SameCall, UseKey, TypeOK
  <2>4. ASSUME StartUploads(r) \/ WaitDone(r) \/ CollectResult(r) PROVE SameCall(q)
    BY <2>4 DEF SameCall, StartUploads, WaitDone, CollectResult, TypeOK
  <2>5. ASSUME Schedule(r) PROVE SameCall(q)
    BY <2>1, <2>5 DEF Schedule, Verdict
  <2>6. QED
    BY <1>2, <2>1, <2>2, <2>3, <2>4, <2>5, CallStepKinds DEF Verdict
<1>3. QED
  BY <1>1, <1>2

(* A late write moves no call and no source. *)
LEMMA LateWriteSame ==
  ASSUME NEW r \in Run, NEW i \in Indices(r), LateWrite(r, i)
  PROVE  /\ UNCHANGED <<call, pc, key, pos, task, results, summary, ret>>
         /\ late' \subseteq late
         /\ \A q \in Run : SameCall(q)
BY DEF LateWrite, SameCall

LEMMA SameCallPhase ==
  ASSUME NEW q \in Run, SameCall(q), Phase(q)
  PROVE  Phase(q)'
BY DEF SameCall, Phase, Indices, Pending, Uploads

LEMMA CallStepPhase ==
  ASSUME TypeOK, PhaseInv, NEW r \in Run, CallStep(r)
  PROVE  Phase(r)'
<1> Phase(r)
  BY DEF PhaseInv
<1>1. ASSUME NEW v \in Return \ {"none"}, Returns(r, v),
             v \in ScanError => pc[r] \in {"start", "scan"}
      PROVE  Phase(r)'
  <2>1. pc[r] \in {"start", "scan"} =>
          \A i \in Indices(r) : task[r][i] \notin Launched
    <3>1. pos[r] \in Nat /\ \A i \in Indices(r) : i \in Nat
      BY IndicesFinite DEF TypeOK
    <3>2. \A i \in Indices(r) : i < pos[r] \/ i >= pos[r]
      BY <3>1
    <3>3. QED
      BY <3>2 DEF Verdict, Launched, Phase
  <2>2. pc'[r] = "returned" /\ ret'[r] = v
    BY <1>1 DEF Returns, Finish, TypeOK
  <2>3. QED
    BY <1>1, <2>1, <2>2 DEF Returns, Indices, Phase
<1>2. ASSUME pc[r] = "start", call[r].srcs # <<>>, NEW k \in Key, UseKey(r, k)
      PROVE  Phase(r)'
  <2>1. pc'[r] = "scan" /\ key'[r] = k
    BY <1>2 DEF UseKey, TypeOK
  <2>2. QED
    BY <1>2, <2>1, IndicesFinite DEF UseKey, Phase, Indices, ScanError
<1>3. ASSUME Scanning(r), NEW v \in Verdict, Decide(r, v)
      PROVE  Phase(r)'
  <2>1. pos[r] \in Nat /\ Len(call[r].srcs) \in Nat
    BY IndicesFinite DEF TypeOK
  <2>2. /\ pos'[r] = pos[r] + 1
        /\ UNCHANGED <<call, pc, key, ret>>
        /\ \A j \in Indices(r) : task'[r][j] = IF j = pos[r] THEN v ELSE task[r][j]
    BY <1>3, DecideFrame
  <2>3. pc[r] = "scan" /\ pos[r] <= Len(call[r].srcs) /\ ret[r] = "none"
    BY <1>3, <2>1 DEF Scanning, Phase
  <2>4. \A j \in Indices(r) : j \in Nat
    BY IndicesFinite
  <2>5. QED
    BY <2>1, <2>2, <2>3, <2>4 DEF Phase, Indices, ScanError
<1>4. CASE StartUploads(r)
  <2>1. pc'[r] = "wait"
    BY <1>4 DEF StartUploads, TypeOK
  <2>2. QED
    BY <1>4, <2>1 DEF StartUploads, ScanDone, Phase, Indices
<1>5. CASE WaitDone(r)
  BY <1>5 DEF WaitDone, AllSent, Phase, TypeOK, Indices, Pending, Uploads
<1>6. CASE CollectResult(r)
  BY <1>6 DEF CollectResult, Phase, Indices, Pending, Uploads
<1>7. Schedule(r) => \E v \in Verdict : Scanning(r) /\ Decide(r, v)
  BY DEF Schedule, Verdict
<1>8. QED
  BY <1>1, <1>2, <1>3, <1>4, <1>5, <1>6, <1>7, CallStepKinds
     DEF Return, ScanError, Verdict

LEMMA UploadStepPhase ==
  ASSUME TypeOK, PhaseInv, NEW r \in Run, NEW i \in Indices(r), UploadStep(r, i)
  PROVE  Phase(r)'
<1>1. pc[r] = "wait" /\ Phase(r)
  BY UploadFrame DEF PhaseInv
<1>2. QED
  BY <1>1, UploadFrame DEF Phase, Indices, Launched, ScanError

LEMMA NextPhase == TypeOK /\ PhaseInv /\ [Next]_vars => PhaseInv'
<1> SUFFICES ASSUME TypeOK, PhaseInv, [Next]_vars, NEW q \in Run
             PROVE  Phase(q)'
  BY DEF PhaseInv
<1>1. CASE UNCHANGED vars
  BY <1>1, SameCallPhase DEF vars, SameCall, PhaseInv
<1>2. ASSUME NEW r \in Run,
             CallStep(r) \/ \E i \in Indices(r) : UploadStep(r, i)
      PROVE  Phase(q)'
  BY <1>2, CallStepPhase, UploadStepPhase, OtherCallsSame, SameCallPhase DEF PhaseInv
<1>3. ASSUME NEW r \in Run, NEW i \in Indices(r), LateWrite(r, i)
      PROVE  Phase(q)'
  BY <1>3, LateWriteSame, SameCallPhase DEF PhaseInv
<1>4. QED
  BY <1>1, <1>2, <1>3 DEF Next, AllReturned

-----------------------------------------------------------------------------
(* CountInv is inductive. *)

LEMMA UploadsFinite ==
  ASSUME TypeOK, NEW r \in Run
  PROVE  /\ IsFiniteSet(Uploads(r)) /\ Cardinality(Uploads(r)) \in Nat
         /\ IsFiniteSet(Pending(r)) /\ Cardinality(Pending(r)) \in Nat
         /\ Cardinality(Uploads(r)) = 0 => Uploads(r) = {} /\ Pending(r) = {}
<1>1. Uploads(r) \in SUBSET Indices(r) /\ Pending(r) \in SUBSET Uploads(r)
  BY DEF Uploads, Pending
<1>2. IsFiniteSet(Uploads(r)) /\ IsFiniteSet(Pending(r))
  BY <1>1, IndicesFinite, FS_Subset
<1>3. QED
  BY <1>1, <1>2, FS_CardinalityType, FS_EmptySet

LEMMA SummaryType ==
  ASSUME TypeOK, NEW r \in Run
  PROVE  /\ summary[r].requested \in Nat /\ summary[r].missing \in Nat
         /\ summary[r].existing \in Nat /\ summary[r].scheduled \in Nat
         /\ summary[r].uploaded \in Nat /\ summary[r].failed \in Nat
         /\ pos[r] \in Nat /\ Len(call[r].srcs) \in Nat
<1>1. summary[r] \in [Counter -> Nat] /\ pos[r] \in Nat
  BY DEF TypeOK, Summary
<1>2. \A c \in Counter : summary[r][c] \in Nat
  BY <1>1
<1>3. QED
  BY <1>1, <1>2, IndicesFinite DEF Counter

LEMMA InitCount == Init => CountInv
<1> SUFFICES ASSUME Init, NEW r \in Run PROVE Count(r)
  BY DEF CountInv
<1>1. Uploads(r) = {} /\ results[r] = {}
  BY DEF Init, Uploads, Indices
<1>2. QED
  BY <1>1, FS_EmptySet DEF Init, Count, InitialSummary, Counter

LEMMA SameCallCount ==
  ASSUME TypeOK, NEW q \in Run, SameCall(q), Count(q)
  PROVE  Count(q)'
<1>1. Indices(q)' = Indices(q) /\ Uploads(q)' = Uploads(q) /\ Pending(q)' = Pending(q)
  BY DEF SameCall, Indices, Uploads, Pending
<1>2. /\ Cardinality(Uploads(q))' = Cardinality(Uploads(q))
      /\ Cardinality(Pending(q))' = Cardinality(Pending(q))
      /\ Cardinality(results[q])' = Cardinality(results[q])
  BY <1>1 DEF SameCall
<1>3. \A res \in results[q] : res.index \in Indices(q)
  BY DEF TypeOK
<1>4. QED
  BY <1>1, <1>2, <1>3 DEF SameCall, Count

LEMMA ReturnCount ==
  ASSUME TypeOK, PhaseInv, CountInv, NEW r \in Run, NEW v \in Return \ {"none"},
         Returns(r, v),
         \/ v \in ScanError
         \/ v = "nil" /\ pc[r] = "start" /\ call[r].srcs = <<>>
         \/ v = "nil" /\ ScanDone(r) /\ summary[r].scheduled = 0
         \/ /\ pc[r] = "collect" /\ results[r] = {}
            /\ v = IF UploadError(r) THEN "errUpload" ELSE "nil"
  PROVE  Count(r)'
<1> Count(r) /\ Phase(r)
  BY DEF CountInv, PhaseInv
<1>1. /\ pc'[r] = "returned" /\ ret'[r] = v
      /\ UNCHANGED <<call, task, results, summary>>
      /\ Uploads(r)' = Uploads(r) /\ Pending(r)' = Pending(r)
  BY DEF Returns, Finish, TypeOK, Uploads, Pending, Indices
<1>2. CASE v \in ScanError
  BY <1>1, <1>2 DEF Count, ScanError
<1>3. CASE \/ v = "nil" /\ pc[r] = "start" /\ call[r].srcs = <<>>
           \/ v = "nil" /\ ScanDone(r) /\ summary[r].scheduled = 0
  <2>1. /\ summary[r].requested = summary[r].missing + summary[r].existing
        /\ summary[r].scheduled = 0
    <3>1. CASE v = "nil" /\ pc[r] = "start" /\ call[r].srcs = <<>>
      <4>1. pos[r] = 1 /\ Len(call[r].srcs) = 0
        BY <3>1 DEF Phase
      <4>2. QED
        BY <3>1, <4>1, SummaryType DEF Count
    <3>2. CASE v = "nil" /\ ScanDone(r) /\ summary[r].scheduled = 0
      <4>1. /\ summary[r].missing \in Nat /\ summary[r].existing \in Nat
            /\ pos[r] \in Nat /\ Len(call[r].srcs) \in Nat
        BY SummaryType
      <4>2. pos[r] = Len(call[r].srcs) + 1
        BY <3>2, <4>1 DEF Phase, ScanDone
      <4>3. /\ summary[r].requested = Len(call[r].srcs)
            /\ summary[r].missing + summary[r].existing + 0 = pos[r] - 1
        BY <3>2 DEF Count, ScanDone
      <4>4. QED
        BY <3>2, <4>1, <4>2, <4>3
    <3>3. QED
      BY <1>3, <3>1, <3>2
  <2>2. Pending(r) = {} /\ results[r] = {}
    BY <1>3, <2>1, UploadsFinite DEF Count, ScanDone
  <2>3. summary[r].uploaded = 0 /\ summary[r].failed = 0
    BY <1>3 DEF Count, ScanDone
  <2>4. QED
    <3>1. Cardinality(Pending(r)) = 0 /\ Cardinality(results[r]) = 0
      BY <2>2, FS_EmptySet
    <3>2. v = "nil"
      BY <1>3
    <3>3. summary[r].missing \in Nat /\ summary[r].existing \in Nat
      BY SummaryType
    <3>4. /\ summary[r].requested = summary[r].missing + summary[r].existing
                                    + summary[r].scheduled
          /\ summary[r].scheduled = summary[r].uploaded + summary[r].failed
                                    + Cardinality(results[r])
                                    + Cardinality(Pending(r))
      BY <2>1, <2>3, <3>1, <3>3
    <3>5. summary[r].requested = Len(call[r].srcs) /\ IsFiniteSet(results[r])
      BY DEF Count
    <3>6. QED
      BY <1>1, <2>2, <2>3, <3>2, <3>4, <3>5 DEF Count
<1>4. CASE /\ pc[r] = "collect" /\ results[r] = {}
           /\ v = IF UploadError(r) THEN "errUpload" ELSE "nil"
  <2>1. Pending(r) = {}
    BY <1>4 DEF Phase
  <2>2. v = "nil" <=> summary[r].failed = 0
    BY <1>4, SummaryType DEF UploadError
  <2>3. QED
    BY <1>1, <1>4, <2>1, <2>2 DEF Count
<1>5. QED
  BY <1>2, <1>3, <1>4

LEMMA DecideCount ==
  ASSUME TypeOK, PhaseInv, CountInv, NEW r \in Run, Scanning(r),
         NEW v \in Verdict, Decide(r, v)
  PROVE  Count(r)'
<1> Count(r) /\ Phase(r)
  BY DEF CountInv, PhaseInv
<1>1. /\ pos[r] \in Indices(r) /\ pos'[r] = pos[r] + 1
      /\ UNCHANGED <<call, pc, results, ret>>
      /\ \A j \in Indices(r) : task'[r][j] = IF j = pos[r] THEN v ELSE task[r][j]
  BY DecideFrame
<1>2. \A c \in Counter :
        summary'[r][c] = IF c = v THEN summary[r][c] + 1 ELSE summary[r][c]
  BY DecideFrame
<1>3. /\ summary'[r].requested = summary[r].requested
      /\ summary'[r].uploaded = summary[r].uploaded
      /\ summary'[r].failed = summary[r].failed
      /\ summary'[r].scheduled = IF v = "scheduled" THEN summary[r].scheduled + 1
                                 ELSE summary[r].scheduled
      /\ summary'[r].missing + summary'[r].existing + summary'[r].scheduled
           = summary[r].missing + summary[r].existing + summary[r].scheduled + 1
  <2>1. /\ "requested" \in Counter /\ "missing" \in Counter /\ "existing" \in Counter
        /\ "scheduled" \in Counter /\ "uploaded" \in Counter /\ "failed" \in Counter
    BY DEF Counter
  <2>2. /\ summary'[r].requested = IF "requested" = v THEN summary[r].requested + 1
                                    ELSE summary[r].requested
        /\ summary'[r].missing = IF "missing" = v THEN summary[r].missing + 1
                                  ELSE summary[r].missing
        /\ summary'[r].existing = IF "existing" = v THEN summary[r].existing + 1
                                   ELSE summary[r].existing
        /\ summary'[r].scheduled = IF "scheduled" = v THEN summary[r].scheduled + 1
                                    ELSE summary[r].scheduled
        /\ summary'[r].uploaded = IF "uploaded" = v THEN summary[r].uploaded + 1
                                   ELSE summary[r].uploaded
        /\ summary'[r].failed = IF "failed" = v THEN summary[r].failed + 1
                                 ELSE summary[r].failed
    BY <1>2, <2>1
  <2>3. /\ summary[r].missing \in Nat /\ summary[r].existing \in Nat
        /\ summary[r].scheduled \in Nat
    BY SummaryType
  <2>4. CASE v = "missing"
    BY <2>2, <2>3, <2>4
  <2>5. CASE v = "existing"
    BY <2>2, <2>3, <2>5
  <2>6. CASE v = "scheduled"
    BY <2>2, <2>3, <2>6
  <2>7. QED
    BY <2>4, <2>5, <2>6 DEF Verdict
<1>4. pc[r] = "scan" /\ ret[r] = "none" /\ results[r] = {}
  BY DEF Scanning, Phase, Count
<1>5. task[r][pos[r]] = "unseen"
  BY <1>1, <1>4, SummaryType DEF Phase
<1>6. Cardinality(Uploads(r)') = IF v = "scheduled" THEN Cardinality(Uploads(r)) + 1
                                ELSE Cardinality(Uploads(r))
  <2>1. CASE v = "scheduled"
    <3>1. Uploads(r)' = Uploads(r) \cup {pos[r]} /\ pos[r] \notin Uploads(r)
      BY <1>1, <1>5, <2>1 DEF Uploads, Indices
    <3>2. IsFiniteSet(Uploads(r))
      BY UploadsFinite
    <3>3. Cardinality(Uploads(r) \cup {pos[r]}) = Cardinality(Uploads(r)) + 1
      BY <3>1, <3>2, FS_AddElement
    <3>4. QED
      BY <2>1, <3>1, <3>3
  <2>2. CASE v # "scheduled"
    <3>1. Uploads(r)' = Uploads(r)
      BY <1>1, <1>5, <2>2 DEF Uploads, Indices, Verdict
    <3>2. QED
      BY <2>2, <3>1
  <2>3. QED
    BY <2>1, <2>2
<1>7. QED
  BY <1>1, <1>3, <1>4, <1>6, SummaryType DEF Count, Phase

LEMMA PhaseMoveCount ==
  ASSUME TypeOK, PhaseInv, CountInv, NEW r \in Run, StartUploads(r) \/ WaitDone(r)
  PROVE  Count(r)'
<1> Count(r) /\ Phase(r)
  BY DEF CountInv, PhaseInv
<1>1. /\ UNCHANGED <<call, task, results, summary, ret>>
      /\ pc'[r] \in {"wait", "collect"}
      /\ Uploads(r)' = Uploads(r) /\ Pending(r)' = Pending(r)
  BY DEF StartUploads, WaitDone, TypeOK, Uploads, Pending, Indices
<1>2. ret[r] = "none"
  BY DEF StartUploads, WaitDone, ScanDone, Phase
<1>3. CASE WaitDone(r)
  BY <1>1, <1>2, <1>3 DEF WaitDone, Count
<1>4. CASE StartUploads(r)
  <2>1. pc[r] = "scan" /\ pos[r] = Len(call[r].srcs) + 1
    <3>1. pos[r] \in Nat /\ Len(call[r].srcs) \in Nat
      BY SummaryType
    <3>2. QED
      BY <1>4, <3>1 DEF StartUploads, ScanDone, Phase
  <2>2. Pending(r) = Uploads(r)
    <3>1. \A i \in Indices(r) : i < pos[r]
      BY <2>1, SummaryType, IndicesFinite DEF Indices
    <3>2. QED
      BY <2>1, <3>1 DEF Phase, Verdict, Pending, Uploads
  <2>3. Cardinality(results[r]) = 0 /\ Cardinality(Pending(r)) = summary[r].scheduled
    BY <2>1, <2>2, FS_EmptySet DEF Count
  <2>4. /\ summary[r].missing \in Nat /\ summary[r].existing \in Nat
        /\ summary[r].scheduled \in Nat /\ Len(call[r].srcs) \in Nat
    BY SummaryType
  <2>5. /\ summary[r].requested = Len(call[r].srcs)
        /\ summary[r].missing + summary[r].existing + summary[r].scheduled = pos[r] - 1
        /\ summary[r].uploaded = 0 /\ summary[r].failed = 0
    BY <2>1 DEF Count
  <2>6. /\ summary[r].requested = summary[r].missing + summary[r].existing
                                  + summary[r].scheduled
        /\ summary[r].scheduled = summary[r].uploaded + summary[r].failed
                                  + Cardinality(results[r])
                                  + Cardinality(Pending(r))
    BY <2>1, <2>3, <2>4, <2>5
  <2>7. QED
    BY <1>1, <1>2, <2>6 DEF Count
<1>5. QED
  BY <1>3, <1>4

LEMMA CollectCount ==
  ASSUME TypeOK, PhaseInv, CountInv, NEW r \in Run, CollectResult(r)
  PROVE  Count(r)'
<1> Count(r) /\ Phase(r)
  BY DEF CountInv, PhaseInv
<1>1. PICK res \in results[r] :
        /\ results' = [results EXCEPT ![r] = @ \ {res}]
        /\ summary' = [summary EXCEPT
                         ![r][IF res.ok THEN "uploaded" ELSE "failed"] = @ + 1]
  BY DEF CollectResult
<1>2. /\ pc[r] = "collect" /\ ret[r] = "none" /\ UNCHANGED <<call, pc, task, ret>>
      /\ Uploads(r)' = Uploads(r) /\ Pending(r)' = Pending(r)
      /\ results'[r] = results[r] \ {res}
  BY <1>1 DEF CollectResult, Phase, TypeOK, Uploads, Pending, Indices
<1>3. /\ IsFiniteSet(results'[r])
      /\ Cardinality(results'[r]) = Cardinality(results[r]) - 1
      /\ Cardinality(results[r]) \in Nat
  <2>1. IsFiniteSet(results[r])
    BY DEF Count
  <2>2. QED
    BY <1>2, <2>1, FS_RemoveElement, FS_CardinalityType
<1>4. DEFINE c == IF res.ok THEN "uploaded" ELSE "failed"
<1>5. /\ summary'[r].requested = summary[r].requested
      /\ summary'[r].missing = summary[r].missing
      /\ summary'[r].existing = summary[r].existing
      /\ summary'[r].scheduled = summary[r].scheduled
      /\ \/ /\ summary'[r].uploaded = summary[r].uploaded + 1
            /\ summary'[r].failed = summary[r].failed
         \/ /\ summary'[r].uploaded = summary[r].uploaded
            /\ summary'[r].failed = summary[r].failed + 1
  <2>1. c \in {"uploaded", "failed"} /\ summary' = [summary EXCEPT ![r][c] = @ + 1]
    BY <1>1
  <2>2. \A k \in Counter : summary'[r][k] = IF k = c THEN summary[r][k] + 1
                                             ELSE summary[r][k]
    BY <2>1 DEF TypeOK, Summary, Counter
  <2>3. CASE c = "uploaded"
    BY <2>2, <2>3 DEF Counter
  <2>4. CASE c = "failed"
    BY <2>2, <2>4 DEF Counter
  <2>5. QED
    BY <2>1, <2>3, <2>4
<1>6. Cardinality(Pending(r)) \in Nat /\ summary[r].uploaded \in Nat
      /\ summary[r].failed \in Nat
  BY SummaryType, UploadsFinite
<1>7. /\ summary[r].requested = summary[r].missing + summary[r].existing
                                + summary[r].scheduled
      /\ summary[r].scheduled = summary[r].uploaded + summary[r].failed
                                + Cardinality(results[r]) + Cardinality(Pending(r))
  BY <1>2 DEF Count
<1>8. summary'[r].scheduled = summary'[r].uploaded + summary'[r].failed
                              + Cardinality(results'[r]) + Cardinality(Pending(r))
  BY <1>3, <1>5, <1>6, <1>7
<1>9. \A q \in results'[r] : task'[r][q.index] = "sent"
  BY <1>2 DEF Count
<1>10. summary'[r].requested = Len(call'[r].srcs)
  BY <1>2, <1>5 DEF Count
<1>11. QED
  BY <1>2, <1>3, <1>5, <1>7, <1>8, <1>9, <1>10 DEF Count

LEMMA UploadStepCount ==
  ASSUME TypeOK, PhaseInv, CountInv, NEW r \in Run, NEW i \in Indices(r),
         UploadStep(r, i)
  PROVE  Count(r)'
<1> Count(r) /\ Phase(r)
  BY DEF CountInv, PhaseInv
<1>1. /\ pc[r] = "wait" /\ pc' = pc /\ ret' = ret /\ summary' = summary
      /\ call' = call /\ ret[r] = "none"
      /\ i \in Pending(r)
  BY UploadFrame DEF Phase, Pending, Uploads
<1>2. PICK v \in Launched : \A j \in Indices(r) :
        task'[r][j] = IF j = i THEN v ELSE task[r][j]
  BY UploadFrame
<1>3. IsFiniteSet(results[r]) /\ IsFiniteSet(Pending(r))
  BY UploadsFinite DEF Count
<1>4. Cardinality(results[r]) \in Nat /\ Cardinality(Pending(r)) \in Nat
  BY <1>3, FS_CardinalityType
<1>5. \/ results'[r] = results[r] /\ v # "sent"
      \/ SendResult(r, i) /\ v = "sent"
  <2>1. CASE SendResult(r, i)
    BY <1>2, <2>1 DEF SendResult, SetTask, TypeOK
  <2>2. CASE PutOpen(r, i)
    BY <1>2, <2>2 DEF PutOpen, SetTask, TypeOK
  <2>3. CASE PutRejected(r, i)
    BY <1>2, <2>3 DEF PutRejected, SetTask, TypeOK
  <2>4. CASE PutIntoForeignFile(r, i)
    BY <1>2, <2>4 DEF PutIntoForeignFile, Running
  <2>5. CASE PutOK(r, i)
    BY <1>2, <2>5 DEF PutOK, SetTask, TypeOK
  <2>6. CASE PutFails(r, i)
    BY <1>2, <2>6 DEF PutFails, SetTask, TypeOK
  <2>7. QED
    BY <2>1, <2>2, <2>3, <2>4, <2>5, <2>6 DEF UploadStep
<1>6. CASE results'[r] = results[r] /\ v # "sent"
  <2>1. Pending(r)' = Pending(r)
    BY <1>1, <1>2, <1>6 DEF Pending, Uploads, Indices, Launched
  <2>2. \A res \in results[r] : task'[r][res.index] = "sent"
    BY <1>1, <1>2 DEF Count, Pending, TypeOK
  <2>3. QED
    BY <1>1, <1>6, <2>1, <2>2 DEF Count
<1>7. CASE SendResult(r, i) /\ v = "sent"
  <2>1. PICK res : /\ res.index = i
                   /\ results'[r] = results[r] \cup {res}
    <3>1. results'[r] = results[r] \cup {[index |-> i, ok |-> task[r][i] = "ok"]}
      BY <1>7 DEF SendResult, TypeOK
    <3>2. QED
      BY <3>1
  <2>2. res \notin results[r]
    BY <1>1, <2>1 DEF Count, Pending
  <2>3. /\ IsFiniteSet(results'[r])
        /\ Cardinality(results'[r]) = Cardinality(results[r]) + 1
    BY <1>3, <2>1, <2>2, FS_AddElement
  <2>4. Pending(r)' = Pending(r) \ {i}
    BY <1>1, <1>2, <1>7 DEF Pending, Uploads, Indices, Launched
  <2>5. Cardinality(Pending(r)') = Cardinality(Pending(r)) - 1
    BY <1>1, <1>3, <2>4, FS_RemoveElement
  <2>6. \A q \in results'[r] : task'[r][q.index] = "sent"
    BY <1>2, <1>7, <2>1 DEF Count, TypeOK
  <2>7. /\ summary[r].uploaded \in Nat /\ summary[r].failed \in Nat
    BY SummaryType
  <2>8. summary[r].scheduled = summary[r].uploaded + summary[r].failed
                               + Cardinality(results'[r]) + Cardinality(Pending(r)')
    <3>1. summary[r].scheduled = summary[r].uploaded + summary[r].failed
                                 + Cardinality(results[r]) + Cardinality(Pending(r))
      BY <1>1 DEF Count
    <3>2. QED
      BY <1>4, <2>3, <2>5, <2>7, <3>1
  <2>9. QED
    BY <1>1, <2>3, <2>6, <2>8 DEF Count
<1>8. QED
  BY <1>5, <1>6, <1>7

LEMMA NextCount == TypeOK /\ PhaseInv /\ CountInv /\ [Next]_vars => CountInv'
<1> SUFFICES ASSUME TypeOK, PhaseInv, CountInv, [Next]_vars, NEW q \in Run
             PROVE  Count(q)'
  BY DEF CountInv
<1>1. CASE UNCHANGED vars
  BY <1>1, SameCallCount DEF vars, SameCall, CountInv
<1>2. ASSUME NEW r \in Run, CallStep(r) PROVE Count(r)'
  <2>1. Schedule(r) => \E v \in Verdict : Scanning(r) /\ Decide(r, v)
    BY DEF Schedule, Verdict
  <2>2. ASSUME NEW k \in Key, pc[r] = "start", UseKey(r, k) PROVE Count(r)'
    <3>1. /\ UNCHANGED <<call, pos, task, results, summary, ret>> /\ pc'[r] = "scan"
          /\ Uploads(r)' = Uploads(r) /\ Pending(r)' = Pending(r)
      BY <2>2 DEF UseKey, TypeOK, Uploads, Pending, Indices
    <3>2. QED
      BY <2>2, <3>1 DEF CountInv, Count, PhaseInv, Phase
  <2>3. QED
    BY <1>2, <2>1, <2>2, CallStepKinds, ReturnCount, DecideCount, PhaseMoveCount,
       CollectCount DEF Return, ScanError, Verdict
<1>3. ASSUME NEW r \in Run,
             CallStep(r) \/ \E i \in Indices(r) : UploadStep(r, i)
      PROVE  Count(q)'
  BY <1>2, <1>3, UploadStepCount, OtherCallsSame, SameCallCount DEF CountInv
<1>4. ASSUME NEW r \in Run, NEW i \in Indices(r), LateWrite(r, i)
      PROVE  Count(q)'
  BY <1>4, LateWriteSame, SameCallCount DEF CountInv
<1>5. QED
  BY <1>1, <1>3, <1>4 DEF Next, AllReturned

(***************************************************************************)
(* The summary of a finished Rebuild accounts for every requested source,  *)
(* and nil is returned exactly when no upload failed, for any number of    *)
(* sources and any order of their goroutines.                              *)
(***************************************************************************)
THEOREM SpecSummaryAccounts == Spec => []SummaryAccounts
<1>1. TypeOK /\ CountInv => SummaryAccounts
  <2> SUFFICES ASSUME TypeOK, CountInv, NEW r \in Run, ret[r] \in {"nil", "errUpload"}
               PROVE  /\ summary[r].requested = summary[r].missing + summary[r].existing
                               + summary[r].uploaded + summary[r].failed
                      /\ ret[r] = "nil" <=> summary[r].failed = 0
    BY DEF SummaryAccounts
  <2>1. Cardinality(results[r]) = 0 /\ Cardinality(Pending(r)) = 0
    BY FS_EmptySet DEF CountInv, Count
  <2>2. /\ summary[r].missing \in Nat /\ summary[r].existing \in Nat
        /\ summary[r].uploaded \in Nat /\ summary[r].failed \in Nat
    BY SummaryType
  <2>3. /\ summary[r].requested = summary[r].missing + summary[r].existing
                                  + summary[r].scheduled
        /\ summary[r].scheduled = summary[r].uploaded + summary[r].failed
                                  + Cardinality(results[r])
                                  + Cardinality(Pending(r))
        /\ ret[r] = "nil" <=> summary[r].failed = 0
    <3>1. Count(r)
      BY DEF CountInv
    <3>2. QED
      BY <3>1 DEF Count
  <2>4. QED
    BY <2>1, <2>2, <2>3
<1>2. QED
  BY <1>1, InitTypeOK, NextTypeOK, InitPhase, NextPhase, InitCount, NextCount, PTL
     DEF Spec

-----------------------------------------------------------------------------
(* The call steps, the keys and the launched sources. *)

LEMMA KeyStable ==
  ASSUME TypeOK, PhaseInv, [Next]_vars
  PROVE  /\ call' = call
         /\ \A q \in Run : key[q] # NoKey => key'[q] = key[q]
<1>1. ASSUME NEW r \in Run, CallStep(r)
      PROVE  call' = call /\ \A q \in Run : key[q] # NoKey => key'[q] = key[q]
  <2>1. ASSUME NEW k \in Key, pc[r] = "start", UseKey(r, k)
        PROVE  call' = call /\ \A q \in Run : key[q] # NoKey => key'[q] = key[q]
    BY <2>1 DEF UseKey, TypeOK, PhaseInv, Phase
  <2>2. QED
    BY <1>1, <2>1, CallStepKinds DEF Returns, Decide, Schedule, StartUploads,
       WaitDone, CollectResult
<1>2. QED
  BY <1>1, UploadFrame, LateWriteSame DEF Next, AllReturned, vars

LEMMA ExclusiveBack ==
  ASSUME TypeOK, PhaseInv, [Next]_vars, NEW r \in Run, NEW i \in Indices(r),
         key[r] \in Key, Exclusive(r, i)'
  PROVE  /\ Exclusive(r, i)
         /\ Dst(r, i)' = Dst(r, i)
         /\ Dst(r, i) \in Object
<1>1. NoKey \notin Key /\ key'[r] = key[r] /\ call' = call
  BY KeyStable, RebuildAssumption
<1>2. Dst(r, i)' = Dst(r, i)
  BY <1>1 DEF Dst
<1>3. ASSUME NEW r2 \in Run, NEW i2 \in Indices(r2), Dst(r2, i2) = Dst(r, i)
      PROVE  r2 = r /\ i2 = i
  <2>1. key[r2] = key[r]
    BY <1>3 DEF Dst
  <2>2. key'[r2] = key[r2]
    BY <1>1, <2>1, KeyStable
  <2>3. Dst(r2, i2)' = Dst(r, i)' /\ Indices(r2)' = Indices(r2)
    BY <1>1, <1>2, <1>3, <2>2 DEF Dst, Indices
  <2>4. QED
    BY <2>3 DEF Exclusive
<1>4. QED
  BY <1>2, <1>3, DstType DEF Exclusive

(* A call step changes no object and no source that was launched. *)
LEMMA CallStepLaunched ==
  ASSUME TypeOK, PhaseInv, NEW r \in Run, CallStep(r),
         NEW q \in Run, NEW j \in Indices(q)
  PROVE  /\ store' = store /\ late' = late
         /\ task'[q][j] # task[q][j] =>
              /\ q = r /\ j = pos[r] /\ Scanning(r)
              /\ task[q][j] = "unseen"
              /\ task'[q][j] \in Verdict
              /\ task'[q][j] = "scheduled" => Schedule(r)
<1>1. ASSUME NEW v \in Verdict, Scanning(r), Decide(r, v), task'[q][j] # task[q][j]
      PROVE  q = r /\ j = pos[r] /\ task[q][j] = "unseen" /\ task'[q][j] = v
  <2>1. q = r /\ j = pos[r] /\ task'[q][j] = v
    BY <1>1, DecideFrame
  <2>2. pos[r] \in Nat /\ pc[r] = "scan"
    BY <1>1 DEF TypeOK, Scanning
  <2>3. QED
    BY <2>1, <2>2 DEF PhaseInv, Phase
<1>2. QED
  BY <1>1, CallStepKinds DEF Returns, UseKey, Decide, Schedule, StartUploads,
     WaitDone, CollectResult, Verdict

LEMMA CallStepBlame ==
  ASSUME TypeOK, CountInv, NEW r \in Run, CallStep(r),
         NEW q \in Run, NEW j \in Indices(q), Blamed(q, j)
  PROVE  Blamed(q, j)'
<1>1. summary[q].failed \in Nat
  BY SummaryType
<1>2. CASE q # r
  BY <1>2, OtherCallsSame DEF SameCall, Blamed
<1>3. CASE q = r /\ ~ CollectResult(r)
  <2>1. ASSUME NEW v \in Verdict, Scanning(r), Decide(r, v)
        PROVE  results' = results /\ summary'[r].failed = summary[r].failed
    <3>1. "failed" \in Counter /\ v # "failed"
      BY DEF Counter, Verdict
    <3>2. QED
      BY <2>1, <3>1, DecideFrame
  <2>2. results' = results /\ summary'[r].failed = summary[r].failed
    BY <1>3, <2>1, CallStepKinds DEF Returns, UseKey, Schedule, StartUploads,
       WaitDone, Verdict
  <2>3. QED
    BY <1>3, <2>2 DEF Blamed
<1>4. CASE q = r /\ CollectResult(r)
  <2>1. PICK res \in results[r] :
          /\ results' = [results EXCEPT ![r] = @ \ {res}]
          /\ summary' = [summary EXCEPT
                           ![r][IF res.ok THEN "uploaded" ELSE "failed"] = @ + 1]
    BY <1>4 DEF CollectResult
  <2>2. results'[r] = results[r] \ {res}
    BY <2>1 DEF TypeOK
  <2>3. summary'[r].failed = IF res.ok THEN summary[r].failed
                             ELSE summary[r].failed + 1
    BY <2>1 DEF TypeOK, Summary, Counter
  <2>4. CASE summary[r].failed > 0
    BY <1>1, <1>4, <2>3, <2>4 DEF Blamed
  <2>5. CASE [index |-> j, ok |-> FALSE] \in results[r] /\ ~ summary[r].failed > 0
    <3>1. CASE res = [index |-> j, ok |-> FALSE]
      BY <1>1, <1>4, <2>3, <3>1 DEF Blamed
    <3>2. CASE res # [index |-> j, ok |-> FALSE]
      BY <1>4, <2>2, <2>5, <3>2 DEF Blamed
    <3>3. QED
      BY <3>1, <3>2
  <2>6. QED
    BY <1>4, <2>4, <2>5 DEF Blamed
<1>5. QED
  BY <1>2, <1>3, <1>4

-----------------------------------------------------------------------------
(* LateInv is inductive: Put gives up an upload only by failing it. *)

LEMMA InitLate == Init => LateInv
BY DEF Init, LateInv

(* The steps of one upload and the tasks, blame and late writes of all. *)
LEMMA UploadStepBlame ==
  ASSUME TypeOK, NEW r \in Run, NEW i \in Indices(r), UploadStep(r, i),
         NEW q \in Run, NEW j \in Indices(q)
  PROVE  /\ Blamed(q, j) => Blamed(q, j)'
         /\ ~ (q = r /\ j = i) => task'[q][j] = task[q][j]
         /\ <<q, j>> \in late' => <<q, j>> \in late \/ (q = r /\ j = i)
<1>1. summary' = summary
  BY UploadFrame
<1>2. ~ (q = r /\ j = i) => task'[q][j] = task[q][j]
  BY UploadFrame
<1>3. results[q] \subseteq results'[q]
  BY DEF UploadStep, PutOpen, PutRejected, PutIntoForeignFile, PutOK,
         PutFails, SendResult, TypeOK
<1>4. late' \subseteq late \cup {<<r, i>>}
  BY DEF UploadStep, PutOpen, PutRejected, PutIntoForeignFile, PutOK,
         PutFails, SendResult
<1>5. QED
  BY <1>1, <1>2, <1>3, <1>4 DEF Blamed

LEMMA NextLate == TypeOK /\ PhaseInv /\ CountInv /\ LateInv /\ [Next]_vars => LateInv'
<1> DEFINE Reported(r, i) ==
      task[r][i] = "failed" \/ (task[r][i] = "sent" /\ Blamed(r, i))
<1> SUFFICES ASSUME TypeOK, PhaseInv, CountInv, LateInv, [Next]_vars,
                    NEW r \in Run, NEW i \in Indices(r), <<r, i>> \in late'
             PROVE  Reported(r, i)'
  BY KeyStable DEF LateInv, Indices
<1>1. <<r, i>> \in late => Reported(r, i)
  BY DEF LateInv
<1>2. CASE UNCHANGED vars
  BY <1>1, <1>2 DEF vars, Blamed
<1>3. ASSUME NEW q \in Run, CallStep(q) PROVE Reported(r, i)'
  BY <1>1, <1>3, CallStepLaunched, CallStepBlame
<1>4. ASSUME NEW q \in Run, NEW j \in Indices(q), UploadStep(q, j)
      PROVE  Reported(r, i)'
  <2>1. CASE ~ (q = r /\ j = i)
    BY <1>1, <1>4, <2>1, UploadStepBlame
  <2>2. CASE q = r /\ j = i /\ <<r, i>> \notin late
    BY <1>4, <2>2 DEF UploadStep, PutOpen, PutRejected, PutIntoForeignFile, PutOK,
       PutFails, SendResult, SetTask, TypeOK
  <2>3. CASE q = r /\ j = i /\ <<r, i>> \in late
    <3>1. task[r][i] = "failed"
      BY <1>1, <1>4, <2>3, UploadFrame
    <3>2. SendResult(r, i)
      BY <1>4, <2>3, <3>1 DEF UploadStep, PutOpen, PutRejected,
         PutIntoForeignFile, Running, PutOK, PutFails
    <3>3. task'[r][i] = "sent" /\ Blamed(r, i)'
      BY <3>1, <3>2 DEF SendResult, SetTask, Blamed, TypeOK
    <3>4. QED
      BY <3>3
  <2>4. QED
    BY <2>1, <2>2, <2>3
<1>5. ASSUME NEW q \in Run, NEW j \in Indices(q), LateWrite(q, j)
      PROVE  Reported(r, i)'
  BY <1>1, <1>5, LateWriteSame DEF Blamed
<1>6. QED
  BY <1>2, <1>3, <1>4, <1>5 DEF Next, AllReturned

-----------------------------------------------------------------------------
(* TraceInv is inductive: only a launched upload writes, and only its object. *)

LEMMA UploadStore ==
  ASSUME TypeOK, NEW r \in Run, NEW i \in Indices(r),
         UploadStep(r, i) \/ LateWrite(r, i), NEW o \in Object
  PROVE  \/ store'[o] = store[o]
         \/ /\ o = Dst(r, i)
            /\ store'[o] \in {Mixed, Partial(r, i), Whole(r, i)}
<1>1. ASSUME NEW c, SetObject(r, i, c)
      PROVE  store'[o] = store[o] \/ (o = Dst(r, i) /\ store'[o] = c)
  BY <1>1 DEF SetObject, TypeOK
<1>2. \/ store' = store
      \/ \E c \in {Mixed, Partial(r, i), Whole(r, i)} : SetObject(r, i, c)
  BY DEF UploadStep, PutOpen, PutRejected, PutIntoForeignFile, PutOK, PutFails,
         SendResult, LateWrite, Residue, Publish, Intrude
<1>3. QED
  BY <1>1, <1>2

LEMMA ItemsDiffer ==
  ASSUME TypeOK, NEW r \in Run, NEW i \in Indices(r),
         NEW q \in Run, NEW j \in Indices(q)
  PROVE  /\ Partial(r, i).item = <<q, j>> => r = q /\ i = j
         /\ Whole(r, i).item = <<q, j>> => r = q /\ i = j
         /\ Mixed.item # <<q, j>>
         /\ Absent.item # <<q, j>>
         /\ Older.item # <<q, j>>
<1>1. <<q, j>> \in Item
  BY IndicesFinite DEF Item
<1>2. QED
  BY <1>1, RebuildAssumption DEF Partial, Whole, Mixed, Absent, Older

LEMMA InitTrace == Init => TraceInv
<1> SUFFICES ASSUME Init, NEW o \in Object, NEW r \in Run, NEW i \in Indices(r)
             PROVE  store[o].item # <<r, i>>
  BY DEF TraceInv
<1>1. store[o] \in {Absent, Older}
  BY DEF Init
<1>2. QED
  BY <1>1, InitTypeOK, ItemsDiffer

LEMMA NextTrace ==
  TypeOK /\ PhaseInv /\ LateInv /\ TraceInv /\ [Next]_vars => TraceInv'
<1> SUFFICES ASSUME TypeOK, PhaseInv, LateInv, TraceInv, [Next]_vars,
                    NEW o \in Object, NEW q \in Run, NEW j \in Indices(q),
                    (store[o].item = <<q, j>>)'
             PROVE  (task[q][j] \in Launched /\ o = Dst(q, j))'
  BY KeyStable DEF TraceInv, Indices
<1>1. task[q][j] # "unseen" => Dst(q, j)' = Dst(q, j)
  <2>1. task[q][j] # "unseen" => key[q] # NoKey
    BY RebuildAssumption DEF PhaseInv, Phase
  <2>2. QED
    BY <2>1, KeyStable DEF Dst
<1>2. CASE UNCHANGED vars
  BY <1>2 DEF vars, TraceInv, Dst
<1>3. ASSUME NEW r \in Run, CallStep(r)
      PROVE  (task[q][j] \in Launched /\ o = Dst(q, j))'
  <2>1. store' = store /\ (task[q][j] # "unseen" => task'[q][j] = task[q][j])
    BY <1>3, CallStepLaunched
  <2>2. task[q][j] \in Launched /\ o = Dst(q, j)
    BY <2>1 DEF TraceInv
  <2>3. QED
    BY <1>1, <2>1, <2>2 DEF Launched
<1>4. ASSUME NEW r \in Run, NEW i \in Indices(r),
             UploadStep(r, i) \/ LateWrite(r, i)
      PROVE  (task[q][j] \in Launched /\ o = Dst(q, j))'
  <2>1. task[q][j] \in Launched => task'[q][j] \in Launched
    BY <1>4, UploadFrame, LateWriteSame
  <2>2. q = r /\ j = i => task[q][j] # "unseen" /\ task'[q][j] \in Launched
    <3>1. CASE UploadStep(r, i)
      BY <3>1, UploadFrame
    <3>2. CASE LateWrite(r, i)
      BY <3>2, LateWriteSame DEF LateWrite, LateInv, Launched
    <3>3. QED
      BY <1>4, <3>1, <3>2
  <2>3. CASE store'[o] = store[o]
    BY <1>1, <2>1, <2>3 DEF TraceInv, Launched
  <2>4. CASE o = Dst(r, i) /\ store'[o] \in {Mixed, Partial(r, i), Whole(r, i)}
    BY <1>1, <2>2, <2>4, ItemsDiffer
  <2>5. QED
    BY <1>4, <2>3, <2>4, UploadStore
<1>5. QED
  BY <1>2, <1>3, <1>4 DEF Next, AllReturned

(***************************************************************************)
(* A Rebuild that gives up during its scan (missing path, failed existence *)
(* check, no key, nothing present) leaves no object of its own in storage. *)
(***************************************************************************)
THEOREM SpecScanErrorStoresNothing == Spec => []ScanErrorStoresNothing
<1>1. TypeOK /\ PhaseInv /\ TraceInv => ScanErrorStoresNothing
  BY DEF PhaseInv, Phase, TraceInv, ScanErrorStoresNothing
<1>2. QED
  BY <1>1, InitTypeOK, NextTypeOK, InitPhase, NextPhase, InitCount, NextCount,
     InitLate, NextLate, InitTrace, NextTrace, PTL DEF Spec

-----------------------------------------------------------------------------
(* StoredInv is inductive: nobody interferes with an exclusive upload. *)

(* The upload of an exclusive item itself. *)
LEMMA OwnUploadStored ==
  ASSUME TypeOK, NEW r \in Run, NEW i \in Indices(r), UploadStep(r, i),
         Dst(r, i) \in Object, Dst(r, i)' = Dst(r, i), Stored(r, i)
  PROVE  /\ Stored(r, i)'
         /\ \/ store'[Dst(r, i)] = store[Dst(r, i)]
            \/ store'[Dst(r, i)] \in {Partial(r, i), Whole(r, i)}
<1> DEFINE d == Dst(r, i)
<1>1. ASSUME NEW v, SetTask(r, i, v) PROVE task'[r][i] = v
  BY <1>1 DEF SetTask, TypeOK
<1>2. ASSUME NEW c, SetObject(r, i, c) PROVE store'[d] = c
  BY <1>2 DEF SetObject, TypeOK
<1>3. CASE PutOpen(r, i)
  BY <1>1, <1>2, <1>3 DEF PutOpen, Stored, Partial
<1>4. CASE PutRejected(r, i)
  BY <1>1, <1>4 DEF PutRejected, Stored
<1>5. CASE PutIntoForeignFile(r, i)
  BY <1>5 DEF PutIntoForeignFile, Intrude, Running, Stored, TruncatesOnOpen, Partial
<1>6. CASE PutOK(r, i)
  <2>1. store'[d] = Whole(r, i)
    BY <1>2, <1>6 DEF PutOK, Publish, Running, Stored, TruncatesOnOpen
  <2>2. QED
    BY <1>1, <1>6, <2>1 DEF PutOK, Stored, Whole
<1>7. CASE PutFails(r, i)
  <2>1. task'[r][i] = "failed" /\ (TruncatesOnOpen => store[d] = Partial(r, i))
    BY <1>1, <1>7 DEF PutFails, Running, Stored
  <2>2. \/ store'[d] = store[d]
        \/ store'[d] \in {Partial(r, i), Whole(r, i)}
    BY <1>2, <1>7, <2>1 DEF PutFails, Residue, Publish, Intrude, TruncatesOnOpen, Partial
  <2>3. QED
    BY <2>1, <2>2 DEF Stored, Partial, Whole
<1>8. CASE SendResult(r, i)
  <2>1. store' = store /\ task'[r][i] = "sent" /\ late' = late
    BY <1>1, <1>8 DEF SendResult
  <2>2. CASE task[r][i] = "ok"
    BY <2>1, <2>2 DEF Stored, Whole
  <2>3. CASE task[r][i] = "failed"
    <3>1. Blamed(r, i)'
      BY <1>8, <2>3 DEF SendResult, Blamed, TypeOK
    <3>2. QED
      BY <2>1, <3>1 DEF Stored
  <2>4. QED
    BY <1>8, <2>2, <2>3 DEF SendResult
<1>9. QED
  BY <1>3, <1>4, <1>5, <1>6, <1>7, <1>8 DEF UploadStep

(* The upload of another item does not touch an exclusive object. *)
LEMMA OtherUploadStored ==
  ASSUME TypeOK, NEW r \in Run, NEW i \in Indices(r), Dst(r, i) \in Object,
         NEW q \in Run, NEW j \in Indices(q), UploadStep(q, j) \/ LateWrite(q, j),
         ~ (q = r /\ j = i), Exclusive(r, i)
  PROVE  store'[Dst(r, i)] = store[Dst(r, i)]
<1>1. Dst(q, j) # Dst(r, i)
  BY DEF Exclusive
<1>2. QED
  BY <1>1, UploadStore

(* What an upload that Put gave up does afterwards to an object of its own. *)
LEMMA OwnLateNew ==
  ASSUME TypeOK, NEW r \in Run, NEW i \in Indices(r), LateWrite(r, i),
         Dst(r, i) \in Object,
         store[Dst(r, i)] = Absent \/ store[Dst(r, i)].item = <<r, i>>
  PROVE  \/ store'[Dst(r, i)] = store[Dst(r, i)]
         \/ store'[Dst(r, i)] \in {Partial(r, i), Whole(r, i)}
<1>1. ASSUME NEW c, SetObject(r, i, c) PROVE store'[Dst(r, i)] = c
  BY <1>1 DEF SetObject, TypeOK
<1>2. QED
  BY <1>1 DEF LateWrite, Residue, Publish, Intrude

LEMMA InitStored == Init => StoredInv
BY DEF Init, StoredInv, Stored, Indices

LEMMA NextStored ==
  TypeOK /\ PhaseInv /\ CountInv /\ LateInv /\ StoredInv /\ [Next]_vars => StoredInv'
<1> SUFFICES ASSUME TypeOK, PhaseInv, CountInv, LateInv, StoredInv, [Next]_vars,
                    NEW r \in Run, NEW i \in Indices(r), Exclusive(r, i)',
                    task'[r][i] \in Launched
             PROVE  Stored(r, i)'
  <2>1. TypeOK /\ PhaseInv /\ CountInv /\ LateInv /\ [Next]_vars =>
          LateInv' /\ call' = call
    BY NextLate, KeyStable
  <2>2. LateInv' /\ call' = call =>
          \A r \in Run : \A i \in Indices(r) :
            task'[r][i] \notin Launched => Stored(r, i)'
    BY DEF LateInv, Stored, Launched, Indices
  <2>3. QED
    BY <2>1, <2>2 DEF StoredInv, Indices
<1>1. ASSUME task[r][i] # "unseen"
      PROVE  Stored(r, i) /\ Exclusive(r, i) /\ Dst(r, i) \in Object
             /\ Dst(r, i)' = Dst(r, i)
  <2>1. key[r] \in Key
    BY <1>1 DEF PhaseInv, Phase
  <2>2. QED
    BY <2>1, ExclusiveBack DEF StoredInv
<1>2. CASE UNCHANGED vars
  BY <1>1, <1>2 DEF vars, Launched, Stored, Blamed, Dst
<1>3. ASSUME NEW q \in Run, CallStep(q) PROVE Stored(r, i)'
  <2>1. task'[r][i] = task[r][i] /\ store' = store /\ late' = late
    BY <1>3, CallStepLaunched DEF Launched, Verdict
  <2>2. Blamed(r, i) => Blamed(r, i)'
    BY <1>3, CallStepBlame
  <2>3. QED
    BY <1>1, <2>1, <2>2 DEF Stored, Launched
<1>4. ASSUME NEW q \in Run, NEW j \in Indices(q), UploadStep(q, j)
      PROVE  Stored(r, i)'
  <2>1. CASE q = r /\ j = i
    BY <1>1, <1>4, <2>1, UploadFrame, OwnUploadStored
  <2>2. CASE ~ (q = r /\ j = i)
    <3>1. /\ task'[r][i] = task[r][i]
          /\ Blamed(r, i) => Blamed(r, i)'
          /\ <<r, i>> \in late' => <<r, i>> \in late
      BY <1>4, <2>2, UploadStepBlame
    <3>2. store'[Dst(r, i)] = store[Dst(r, i)]
      BY <1>1, <1>4, <2>2, <3>1, OtherUploadStored DEF Launched
    <3>3. QED
      BY <1>1, <3>1, <3>2 DEF Stored, Launched
  <2>3. QED
    BY <2>1, <2>2
<1>5. ASSUME NEW q \in Run, NEW j \in Indices(q), LateWrite(q, j)
      PROVE  Stored(r, i)'
  <2>1. /\ task'[r][i] = task[r][i] /\ Blamed(r, i)' = Blamed(r, i)
        /\ late' \subseteq late
    BY <1>5, LateWriteSame DEF Blamed
  <2>2. CASE q = r /\ j = i
    <3>1. \/ task[r][i] = "failed"
          \/ task[r][i] = "sent" /\ Blamed(r, i)
      BY <1>5, <2>2 DEF LateWrite, LateInv
    <3>2. QED
      BY <2>1, <2>2, <3>1 DEF Stored
  <2>3. CASE ~ (q = r /\ j = i)
    <3>1. store'[Dst(r, i)] = store[Dst(r, i)]
      BY <1>1, <1>5, <2>1, <2>3, OtherUploadStored DEF Launched
    <3>2. QED
      BY <1>1, <2>1, <3>1 DEF Stored, Launched
  <2>4. QED
    BY <2>2, <2>3
<1>6. QED
  BY <1>2, <1>3, <1>4, <1>5 DEF Next, AllReturned

(***************************************************************************)
(* When Rebuild returns nil, the archive of every source with an object of *)
(* its own is stored whole, for any number of calls, sources and uploads   *)
(* and every backend.                                                      *)
(***************************************************************************)
THEOREM SpecSuccessStoresArchive == Spec => []SuccessStoresArchive
<1>1. TypeOK /\ CountInv /\ StoredInv => SuccessStoresArchive
  <2> SUFFICES ASSUME TypeOK, CountInv, StoredInv,
                      NEW r \in Run, ret[r] = "nil",
                      NEW i \in Uploads(r), Exclusive(r, i)
               PROVE  store[Dst(r, i)] = Whole(r, i)
    BY DEF SuccessStoresArchive
  <2>1. results[r] = {} /\ Pending(r) = {} /\ summary[r].failed = 0
    BY DEF CountInv, Count
  <2>2. i \in Indices(r) /\ task[r][i] = "sent"
    BY <2>1 DEF Pending, Uploads
  <2>3. ~ Blamed(r, i)
    BY <2>1 DEF Blamed
  <2>4. QED
    BY <2>2, <2>3 DEF StoredInv, Stored
<1>2. QED
  BY <1>1, InitTypeOK, NextTypeOK, InitPhase, NextPhase, InitCount, NextCount,
     InitLate, NextLate, InitStored, NextStored, PTL DEF Spec

-----------------------------------------------------------------------------
(* PresentInv is inductive: an object, once there, never disappears. *)

LEMMA ContentsDiffer ==
  ASSUME NEW r \in Run, NEW i
  PROVE  Absent \notin {Mixed, Partial(r, i), Whole(r, i)}
BY DEF Absent, Mixed, Partial, Whole

LEMMA StoreKeepsObjects ==
  ASSUME TypeOK, PhaseInv, [Next]_vars, NEW o \in Object, store[o] # Absent
  PROVE  store'[o] # Absent
<1>1. CASE UNCHANGED vars
  BY <1>1 DEF vars
<1>2. ASSUME NEW r \in Run, CallStep(r), Indices(r) # {} PROVE store'[o] # Absent
  BY <1>2, CallStepLaunched
<1>3. ASSUME NEW r \in Run, NEW i \in Indices(r), UploadStep(r, i) \/ LateWrite(r, i)
      PROVE  store'[o] # Absent
  BY <1>3, UploadStore, ContentsDiffer
<1>4. ASSUME NEW r \in Run, CallStep(r), Indices(r) = {} PROVE store'[o] # Absent
  BY <1>4, CallStepKinds
     DEF Returns, UseKey, Decide, Schedule, StartUploads, WaitDone, CollectResult
<1>5. QED
  BY <1>1, <1>2, <1>3, <1>4 DEF Next, AllReturned, vars

(* The upload of the item itself leaves an object, or is going to be blamed. *)
LEMMA OwnUploadPresent ==
  ASSUME TypeOK, NEW r \in Run, NEW i \in Indices(r), UploadStep(r, i),
         Dst(r, i) \in Object, Dst(r, i)' = Dst(r, i), Present(r, i)
  PROVE  Present(r, i)'
<1> DEFINE d == Dst(r, i)
<1>1. ASSUME NEW v, SetTask(r, i, v) PROVE task'[r][i] = v
  BY <1>1 DEF SetTask, TypeOK
<1>2. ASSUME NEW c, SetObject(r, i, c) PROVE store'[d] = c
  BY <1>2 DEF SetObject, TypeOK
<1>3. CASE PutOpen(r, i)
  BY <1>1, <1>2, <1>3, ContentsDiffer DEF PutOpen, Present
<1>4. CASE PutRejected(r, i)
  BY <1>1, <1>4 DEF PutRejected, Present
<1>5. CASE PutIntoForeignFile(r, i)
  BY <1>2, <1>5, ContentsDiffer DEF PutIntoForeignFile, Intrude, Running, Present
<1>6. CASE PutOK(r, i)
  <2>1. store'[d] # Absent
    BY <1>2, <1>6, ContentsDiffer DEF PutOK, Publish, Running, Present, TruncatesOnOpen
  <2>2. QED
    BY <1>1, <1>6, <2>1 DEF PutOK, Present
<1>7. CASE PutFails(r, i)
  BY <1>1, <1>7 DEF PutFails, Present
<1>8. CASE SendResult(r, i)
  <2>1. store' = store /\ task'[r][i] = "sent"
    BY <1>1, <1>8 DEF SendResult
  <2>2. task[r][i] = "failed" => Blamed(r, i)'
    BY <1>8 DEF SendResult, Blamed, TypeOK
  <2>3. QED
    BY <1>8, <2>1, <2>2 DEF SendResult, Present
<1>9. QED
  BY <1>3, <1>4, <1>5, <1>6, <1>7, <1>8 DEF UploadStep

LEMMA InitPresent == Init => PresentInv /\ DecidedInv
<1> SUFFICES ASSUME Init PROVE PresentInv /\ DecidedInv
  OBVIOUS
<1>1. \A r \in Run : summary[r].existing = 0
  BY DEF Init, InitialSummary, Counter
<1>2. QED
  BY <1>1 DEF Init, PresentInv, Present, DecidedInv, Decided, Indices

LEMMA NextPresent ==
  TypeOK /\ PhaseInv /\ CountInv /\ LateInv /\ PresentInv /\ [Next]_vars => PresentInv'
<1> SUFFICES ASSUME TypeOK, PhaseInv, CountInv, LateInv, PresentInv, [Next]_vars,
                    NEW r \in Run, NEW i \in Indices(r)
             PROVE  Present(r, i)'
  BY KeyStable DEF PresentInv, Indices
<1>1. task[r][i] # "unseen" =>
        /\ Dst(r, i) \in Object /\ Dst(r, i)' = Dst(r, i)
        /\ store[Dst(r, i)] # Absent => store'[Dst(r, i)] # Absent
  <2>1. task[r][i] # "unseen" => key[r] \in Key
    BY DEF PhaseInv, Phase
  <2>2. task[r][i] # "unseen" => Dst(r, i) \in Object /\ Dst(r, i)' = Dst(r, i)
    BY <2>1, DstType, KeyStable, RebuildAssumption DEF Dst
  <2>3. QED
    BY <2>2, StoreKeepsObjects
<1>2. Present(r, i)
  BY DEF PresentInv
<1>3. ASSUME task'[r][i] = task[r][i], Blamed(r, i) => Blamed(r, i)'
      PROVE  Present(r, i)'
  BY <1>1, <1>2, <1>3 DEF Present, TruncatesOnOpen
<1>4. CASE UNCHANGED vars
  BY <1>3, <1>4 DEF vars, Blamed
<1>5. ASSUME NEW q \in Run, CallStep(q) PROVE Present(r, i)'
  <2>1. CASE task'[r][i] = task[r][i]
    BY <1>3, <1>5, <2>1, CallStepBlame
  <2>2. CASE task'[r][i] # task[r][i]
    <3>1. /\ q = r /\ i = pos[r] /\ Scanning(r) /\ store' = store
          /\ task'[r][i] \in Verdict
      BY <1>5, <2>2, CallStepLaunched
    <3>2. task'[r][i] = "existing" => SkipExisting(r)
      <4>1. ASSUME NEW v \in Verdict, Decide(r, v) PROVE task'[r][i] = v
        BY <3>1, <4>1, DecideFrame
      <4>2. HandleMissingPath(r) \/ SkipExisting(r) \/ Schedule(r)
              \/ task' = task
        BY <1>5, <3>1 DEF CallStep, NoSources, GenerateKey, UseKey, GenerateKeyFails,
             ExistsFails, NothingScheduled, StartUploads, WaitDone, CollectResult,
             ReturnResult
      <4>3. CASE HandleMissingPath(r)
        BY <2>2, <4>1, <4>3 DEF HandleMissingPath, Verdict
      <4>4. CASE Schedule(r)
        BY <4>1, <4>4 DEF Schedule, Verdict
      <4>5. QED
        BY <2>2, <4>2, <4>3, <4>4
    <3>3. task'[r][i] = "existing" =>
            store[Dst(r, i)] # Absent /\ Dst(r, i)' = Dst(r, i)
      BY <3>1, <3>2 DEF SkipExisting, ExistsAnswers, Decide, Dst
    <3>4. QED
      BY <3>1, <3>3 DEF Present, Verdict
  <2>3. QED
    BY <2>1, <2>2
<1>6. ASSUME NEW q \in Run, NEW j \in Indices(q), UploadStep(q, j)
      PROVE  Present(r, i)'
  <2>1. CASE q = r /\ j = i
    BY <1>1, <1>2, <1>6, <2>1, UploadFrame, OwnUploadPresent
  <2>2. CASE ~ (q = r /\ j = i)
    BY <1>3, <1>6, <2>2, UploadStepBlame
  <2>3. QED
    BY <2>1, <2>2
<1>7. ASSUME NEW q \in Run, NEW j \in Indices(q), LateWrite(q, j)
      PROVE  Present(r, i)'
  BY <1>3, <1>7, LateWriteSame DEF Blamed
<1>8. QED
  BY <1>4, <1>5, <1>6, <1>7 DEF Next, AllReturned

(* The counters of a call move by its own steps. *)
LEMMA DecisionsKept ==
  ASSUME TypeOK, PhaseInv, NEW r \in Run,
         CallStep(r) \/ \E i \in Indices(r) : UploadStep(r, i) \/ LateWrite(r, i),
         NEW q \in Run, NEW j \in Indices(q)
  PROVE  /\ task[q][j] # "unseen" => task'[q][j] # "unseen"
         /\ task[q][j] # "unseen" /\ task[q][j] # "missing" => task'[q][j] # "missing"
         /\ task[q][j] = "existing" => task'[q][j] = "existing"
         /\ j \in Uploads(q) => task'[q][j] \in {"scheduled", "running", "ok", "failed", "sent"}
<1>1. CASE CallStep(r)
  BY <1>1, CallStepLaunched DEF Uploads
<1>2. ASSUME NEW i \in Indices(r), UploadStep(r, i)
      PROVE  \/ task'[q][j] = task[q][j]
             \/ /\ task[q][j] \in {"scheduled", "running", "ok", "failed"}
                /\ task'[q][j] \in Launched
  BY <1>2, UploadFrame
<1>3. ASSUME NEW i \in Indices(r), LateWrite(r, i) PROVE task'[q][j] = task[q][j]
  BY <1>3, LateWriteSame
<1>4. QED
  BY <1>1, <1>2, <1>3 DEF Launched, Uploads

(* Which counters and returns a step of a call leaves alone. *)
LEMMA CallStepDecided ==
  ASSUME TypeOK, PhaseInv, CountInv, DecidedInv, NEW r \in Run, CallStep(r)
  PROVE  Decided(r)'
<1> Phase(r) /\ Count(r) /\ Decided(r)
  BY DEF PhaseInv, CountInv, DecidedInv
<1>1. \A j \in Indices(r) :
        /\ task[r][j] # "unseen" => task'[r][j] # "unseen"
        /\ task[r][j] # "unseen" /\ task[r][j] # "missing" => task'[r][j] # "missing"
        /\ task[r][j] = "existing" => task'[r][j] = "existing"
  BY DecisionsKept
<1>2. pos[r] \in Nat /\ \A c \in Counter : summary[r][c] \in Nat
  BY DEF TypeOK, Summary
<1>3. {"missing", "existing", "scheduled", "requested"} \subseteq Counter
  BY DEF Counter
<1>4. ASSUME ScanDone(r) PROVE \A j \in Indices(r) : task[r][j] \in Verdict
  <2>1. Len(call[r].srcs) \in Nat
    BY IndicesFinite
  <2>2. \A j \in Indices(r) : j < pos[r]
    BY <1>2, <1>4, <2>1 DEF ScanDone, Indices
  <2>3. QED
    BY <1>4, <2>2 DEF ScanDone, Phase
<1>5. IsFiniteSet(Uploads(r))
  BY IndicesFinite, FS_Subset DEF Uploads
<1>6. ASSUME NEW v \in Return, Returns(r, v), v # "nil" PROVE Decided(r)'
  <2>1. pc'[r] = "returned" /\ ret'[r] = v
    BY <1>6 DEF Returns, Finish, TypeOK
  <2>2. QED
    BY <1>6, <2>1 DEF Decided, Returns, Indices
<1>7. ASSUME Returns(r, "nil"),
             \A j \in Indices(r) : task[r][j] # "unseen",
             call[r].policy = "skipRequirePresent" =>
               \E j \in Indices(r) : task[r][j] # "missing"
      PROVE  Decided(r)'
  <2>1. pc'[r] = "returned" /\ ret'[r] = "nil"
    BY <1>7 DEF Returns, Finish, TypeOK
  <2>2. QED
    BY <1>7, <2>1 DEF Decided, Returns, Indices
<1>8. CASE NoSources(r)
  <2>1. Indices(r) = {}
    BY <1>8 DEF NoSources, Indices
  <2>2. QED
    BY <1>6, <1>7, <1>8, <2>1 DEF NoSources, Returns, Return, ScanError
<1>9. CASE GenerateKey(r)
  <2>1. /\ pc'[r] = "scan" /\ ret[r] = "none"
        /\ UNCHANGED <<call, task, summary, ret>>
    BY <1>9 DEF GenerateKey, UseKey, TypeOK, Phase
  <2>2. QED
    BY <2>1 DEF Decided, Indices
<1>10. CASE GenerateKeyFails(r) \/ ExistsFails(r)
  BY <1>6, <1>10 DEF GenerateKeyFails, ExistsFails, Returns, Return, ScanError
<1>11. ASSUME Scanning(r), NEW v \in Verdict, Decide(r, v) PROVE Decided(r)'
  <2>1. /\ pos[r] \in Indices(r) /\ task'[r][pos[r]] = v
        /\ pc'[r] = "scan" /\ ret'[r] = "none" /\ call' = call
        /\ v # "existing" => summary'[r].existing = summary[r].existing
    BY <1>3, <1>11, DecideFrame DEF Scanning, Phase
  <2>2. QED
    BY <1>1, <2>1 DEF Decided, Indices
<1>12. CASE HandleMissingPath(r)
  BY <1>6, <1>11, <1>12 DEF HandleMissingPath, Returns, Return, ScanError, Verdict
<1>13. CASE SkipExisting(r) \/ Schedule(r)
  BY <1>11, <1>13 DEF SkipExisting, Schedule, Verdict
<1>14. CASE NothingScheduled(r)
  <2>1. Uploads(r) = {}
    BY <1>5, <1>14, FS_EmptySet DEF NothingScheduled, ScanDone, Count
  <2>2. \A j \in Indices(r) : task[r][j] \in {"missing", "existing"}
    BY <1>4, <1>14, <2>1 DEF NothingScheduled, Uploads, Verdict
  <2>3. ~ NothingToSave(r) /\ call[r].policy = "skipRequirePresent" =>
          summary[r].existing > 0
    <3>1. pos[r] = Len(call[r].srcs) + 1
      BY <1>2, <1>14, IndicesFinite DEF NothingScheduled, ScanDone, Phase
    <3>2. summary[r].missing + summary[r].existing = summary[r].requested
      BY <1>2, <1>3, <1>14, <3>1, IndicesFinite DEF NothingScheduled, ScanDone, Count
    <3>3. QED
      BY <1>2, <1>3, <3>2 DEF NothingToSave
  <2>4. CASE NothingToSave(r)
    BY <1>6, <1>14, <2>4 DEF NothingScheduled, Returns, Return, ScanError
  <2>5. CASE ~ NothingToSave(r)
    BY <1>7, <1>14, <2>2, <2>3, <2>5 DEF NothingScheduled, Returns, Decided
  <2>6. QED
    BY <2>4, <2>5
<1>15. CASE StartUploads(r)
  <2>1. Uploads(r) # {}
    BY <1>5, <1>15, FS_EmptySet DEF StartUploads, ScanDone, Count
  <2>2. pc'[r] = "wait" /\ ret[r] = "none" /\ UNCHANGED <<call, task, summary, ret>>
    BY <1>15 DEF StartUploads, ScanDone, TypeOK, Phase
  <2>3. QED
    BY <1>4, <1>15, <2>1, <2>2 DEF StartUploads, Decided, Uploads, Indices, Verdict
<1>16. CASE WaitDone(r)
  BY <1>16 DEF WaitDone, Decided, Uploads, Indices, TypeOK
<1>17. CASE CollectResult(r)
  <2>1. summary'[r].existing = summary[r].existing
    BY <1>3, <1>17 DEF CollectResult, TypeOK, Summary
  <2>2. QED
    BY <1>17, <2>1 DEF CollectResult, Decided, Uploads, Indices
<1>18. CASE ReturnResult(r)
  <2>1. /\ \A j \in Indices(r) : task[r][j] # "unseen"
        /\ \E j \in Indices(r) : task[r][j] # "missing"
    BY <1>18 DEF ReturnResult, Decided, Uploads
  <2>2. QED
    BY <1>6, <1>7, <1>18, <2>1 DEF ReturnResult, Returns, Return
<1>19. QED
  BY <1>8, <1>9, <1>10, <1>12, <1>13, <1>14, <1>15, <1>16, <1>17, <1>18 DEF CallStep

LEMMA NextDecided ==
  TypeOK /\ PhaseInv /\ CountInv /\ DecidedInv /\ [Next]_vars => DecidedInv'
<1> SUFFICES ASSUME TypeOK, PhaseInv, CountInv, DecidedInv, [Next]_vars, NEW q \in Run
             PROVE  Decided(q)'
  BY DEF DecidedInv
<1> Decided(q)
  BY DEF DecidedInv
<1>1. CASE UNCHANGED vars
  BY <1>1 DEF vars, Decided, Uploads, Indices
<1>2. ASSUME NEW r \in Run, NEW i \in Indices(r), UploadStep(r, i) \/ LateWrite(r, i)
      PROVE  Decided(q)'
  <2>1. UNCHANGED <<call, pc, key, pos, summary, ret>>
    BY <1>2, UploadFrame, LateWriteSame
  <2>2. \A j \in Indices(q) :
          /\ task[q][j] # "unseen" => task'[q][j] # "unseen"
          /\ task[q][j] # "unseen" /\ task[q][j] # "missing" => task'[q][j] # "missing"
          /\ task[q][j] = "existing" => task'[q][j] = "existing"
          /\ j \in Uploads(q) =>
               task'[q][j] \in {"scheduled", "running", "ok", "failed", "sent"}
    BY <1>2, DecisionsKept
  <2>3. ret[q] = "nil" => \A j \in Indices(q) : task[q][j] # "unseen"
    BY DEF Decided
  <2>4. Indices(q)' = Indices(q)
    BY <2>1 DEF Indices
  <2>5. Uploads(q) # {} => (Uploads(q) # {})'
    BY <2>2, <2>4 DEF Uploads
  <2>6. QED
    BY <2>1, <2>2, <2>3, <2>4, <2>5 DEF Decided
<1>3. ASSUME NEW r \in Run, CallStep(r) PROVE Decided(q)'
  <2>1. CASE q = r
    BY <1>3, <2>1, CallStepDecided
  <2>2. CASE q # r
    <3>1. SameCall(q)
      BY <1>3, <2>2, OtherCallsSame
    <3>2. QED
      BY <3>1 DEF SameCall, Decided, Uploads, Indices
  <2>3. QED
    BY <2>1, <2>2
<1>4. QED
  BY <1>1, <1>2, <1>3 DEF Next, AllReturned

(* After a nil return a source is missing, was there, or was uploaded. *)
LEMMA NilPresent ==
  ASSUME TypeOK, CountInv, PresentInv, DecidedInv, NEW r \in Run, ret[r] = "nil",
         NEW i \in Indices(r), task[r][i] # "missing"
  PROVE  store[Dst(r, i)] # Absent
<1>1. results[r] = {} /\ Pending(r) = {} /\ summary[r].failed = 0
  BY DEF CountInv, Count
<1>2. ~ Blamed(r, i)
  BY <1>1 DEF Blamed
<1>3. task[r][i] \in {"existing", "sent"}
  BY <1>1 DEF DecidedInv, Decided, Pending, Uploads, TypeOK, TaskState
<1>4. QED
  BY <1>2, <1>3 DEF PresentInv, Present

(***************************************************************************)
(* Under skipRequirePresent a nil return means that something is cached:   *)
(* at least one source of the call has an object, whatever the other calls *)
(* and the uploads that were given up do, and for every backend.           *)
(***************************************************************************)
THEOREM SpecRequirePresentCachesSomething == Spec => []RequirePresentCachesSomething
<1>1. TypeOK /\ CountInv /\ PresentInv /\ DecidedInv => RequirePresentCachesSomething
  BY NilPresent DEF DecidedInv, Decided, RequirePresentCachesSomething
<1>2. QED
  BY <1>1, InitTypeOK, NextTypeOK, InitPhase, NextPhase, InitCount, NextCount,
     InitLate, NextLate, InitPresent, NextPresent, NextDecided, PTL DEF Spec

-----------------------------------------------------------------------------
(* WholeInv is inductive for a backend that publishes in one step. *)

LEMMA NextWhole ==
  ASSUME Backend = "uploader"
  PROVE  TypeOK /\ PhaseInv /\ WholeInv /\ [Next]_vars => WholeInv'
<1> SUFFICES ASSUME TypeOK, PhaseInv, WholeInv, [Next]_vars, NEW o \in Object
             PROVE  store'[o] = Absent \/ store'[o].kind = "whole"
  BY DEF WholeInv
<1>1. CASE store'[o] = store[o]
  BY <1>1 DEF WholeInv
<1>2. ASSUME NEW r \in Run, NEW i \in Indices(r), SetObject(r, i, Whole(r, i))
      PROVE  store'[o] = Absent \/ store'[o].kind = "whole"
  <2>1. store'[o] = store[o] \/ store'[o] = Whole(r, i)
    BY <1>2 DEF SetObject, TypeOK
  <2>2. QED
    BY <1>1, <2>1 DEF Whole
<1>3. ASSUME NEW r \in Run, CallStep(r) PROVE store' = store
  BY <1>3, CallStepKinds
     DEF Returns, UseKey, Decide, Schedule, StartUploads, WaitDone, CollectResult
<1>4. ASSUME NEW r \in Run, NEW i \in Indices(r), UploadStep(r, i) \/ LateWrite(r, i)
      PROVE  store' = store \/ SetObject(r, i, Whole(r, i))
  BY <1>4 DEF UploadStep, PutOpen, PutRejected, PutIntoForeignFile, PutOK, PutFails,
     SendResult, LateWrite, Residue, Publish, Intrude, TruncatesOnOpen
<1>5. QED
  BY <1>1, <1>2, <1>3, <1>4 DEF Next, AllReturned, vars

(***************************************************************************)
(* With a backend that publishes an object in one step (S3, Azure), after  *)
(* a nil return every source that was not missing has a whole archive at   *)
(* its key, also when other sources and calls write the same object.       *)
(***************************************************************************)
THEOREM SpecSavedIsWhole ==
  ASSUME Backend = "uploader"
  PROVE  Spec => []SavedIsWhole
<1>1. TypeOK /\ PhaseInv /\ CountInv /\ PresentInv /\ DecidedInv /\ WholeInv => SavedIsWhole
  <2> SUFFICES ASSUME TypeOK, PhaseInv, CountInv, PresentInv, DecidedInv, WholeInv,
                      NEW r \in Run, ret[r] = "nil",
                      NEW i \in Indices(r), task[r][i] # "missing"
               PROVE  store[Dst(r, i)].kind = "whole"
    BY DEF SavedIsWhole
  <2>1. store[Dst(r, i)] # Absent
    BY NilPresent
  <2>2. Dst(r, i) \in Object
    BY DstType DEF DecidedInv, Decided, PhaseInv, Phase
  <2>3. QED
    BY <2>1, <2>2 DEF WholeInv
<1>2. Init => WholeInv
  BY DEF Init, WholeInv, Absent, Older
<1>3. Spec => []SavedIsWhole
  BY <1>1, <1>2, InitTypeOK, NextTypeOK, InitPhase, NextPhase, InitCount, NextCount,
     InitLate, NextLate, InitPresent, NextPresent, NextDecided, NextWhole, PTL DEF Spec
<1>4. QED
  BY <1>3

-----------------------------------------------------------------------------
(* NewObjectInv is inductive when the existence check tells the truth. *)

LEMMA InitNewObject == Init => NewObjectInv
BY DEF Init, NewObjectInv, Uploads, Indices

LEMMA NextNewObject ==
  ASSUME ExistsHonest
  PROVE  TypeOK /\ PhaseInv /\ CountInv /\ LateInv /\ StoredInv /\ NewObjectInv
           /\ [Next]_vars => NewObjectInv'
<1> DEFINE New(r, i) ==
      store[Dst(r, i)] = Absent \/ store[Dst(r, i)].item = <<r, i>>
<1> SUFFICES ASSUME TypeOK, PhaseInv, CountInv, LateInv, StoredInv, NewObjectInv,
                    [Next]_vars, NEW r \in Run, NEW i \in Indices(r),
                    ~ call[r].override, Exclusive(r, i)', (i \in Uploads(r))'
             PROVE  New(r, i)'
  BY KeyStable DEF NewObjectInv, Indices
<1>1. task[r][i] # "unseen" =>
        /\ Exclusive(r, i) /\ Dst(r, i) \in Object /\ Dst(r, i)' = Dst(r, i)
        /\ Stored(r, i)
        /\ i \in Uploads(r) => New(r, i)
  <2>1. task[r][i] # "unseen" => key[r] \in Key
    BY DEF PhaseInv, Phase
  <2>2. QED
    BY <2>1, ExclusiveBack DEF StoredInv, NewObjectInv
<1>2. CASE UNCHANGED vars
  BY <1>1, <1>2 DEF vars, Uploads, Dst, Indices
<1>3. ASSUME NEW q \in Run, CallStep(q) PROVE New(r, i)'
  <2>1. store' = store
    BY <1>3, CallStepLaunched
  <2>2. CASE task'[r][i] = task[r][i]
    BY <1>1, <2>1, <2>2 DEF Uploads, Indices
  <2>3. CASE task'[r][i] # task[r][i]
    <3>1. q = r /\ i = pos[r] /\ Schedule(r) /\ Scanning(r)
      <4>1. task'[r][i] = "scheduled"
        BY <1>3, <2>3, CallStepLaunched DEF Uploads, Verdict
      <4>2. QED
        BY <1>3, <2>3, <4>1, CallStepLaunched
    <3>2. store[Dst(r, i)] = Absent
      BY <3>1 DEF Schedule, ExistsAnswers
    <3>3. Dst(r, i)' = Dst(r, i)
      BY <3>1 DEF Schedule, Decide, Dst
    <3>4. QED
      BY <2>1, <3>2, <3>3
  <2>4. QED
    BY <2>2, <2>3
<1>4. ASSUME NEW q \in Run, NEW j \in Indices(q),
             UploadStep(q, j) \/ LateWrite(q, j)
      PROVE  New(r, i)'
  <2>1. CASE q = r /\ j = i
    <3>1. task[r][i] # "unseen" /\ i \in Uploads(r)
      BY <1>4, <2>1, UploadFrame DEF Uploads, LateWrite, LateInv
    <3>2. \/ store'[Dst(r, i)] = store[Dst(r, i)]
          \/ store'[Dst(r, i)] \in {Partial(r, i), Whole(r, i)}
      BY <1>1, <1>4, <2>1, <3>1, OwnUploadStored, OwnLateNew
    <3>3. QED
      BY <1>1, <3>1, <3>2 DEF Partial, Whole
  <2>2. CASE ~ (q = r /\ j = i)
    <3>1. task'[r][i] = task[r][i] /\ i \in Uploads(r)
      BY <1>4, <2>2, UploadFrame, LateWriteSame DEF Uploads, Indices
    <3>2. store'[Dst(r, i)] = store[Dst(r, i)]
      BY <1>1, <1>4, <2>2, <3>1, OtherUploadStored DEF Uploads
    <3>3. QED
      BY <1>1, <3>1, <3>2 DEF Uploads
  <2>3. QED
    BY <2>1, <2>2
<1>5. QED
  BY <1>2, <1>3, <1>4 DEF Next, AllReturned

(***************************************************************************)
(* Without override, an object that existed before the call is not touched *)
(* when no other source shares it and Exists answers truthfully.           *)
(***************************************************************************)
THEOREM SpecNoOverrideKeepsExclusive ==
  ASSUME ExistsHonest
  PROVE  Spec => NoOverrideKeepsExclusive
<1> DEFINE Keeps ==
      \A r \in Run : \A i \in Indices(r) :
        /\ ~ call[r].override
        /\ key[r] # NoKey
        /\ Exclusive(r, i)
        /\ store[Dst(r, i)] # Absent
        /\ store[Dst(r, i)].item # <<r, i>>
        => store'[Dst(r, i)] = store[Dst(r, i)]
<1>1. TypeOK /\ PhaseInv /\ LateInv /\ NewObjectInv /\ [Next]_vars => [Keeps]_vars
  <2> SUFFICES ASSUME TypeOK, PhaseInv, LateInv, NewObjectInv, Next,
                      NEW r \in Run, NEW i \in Indices(r),
                      ~ call[r].override, key[r] # NoKey, Exclusive(r, i),
                      store[Dst(r, i)] # Absent,
                      store[Dst(r, i)].item # <<r, i>>
               PROVE  store'[Dst(r, i)] = store[Dst(r, i)]
    OBVIOUS
  <2>1. i \notin Uploads(r)
    BY DEF NewObjectInv
  <2>2. ASSUME NEW q \in Run, NEW j \in Indices(q),
               UploadStep(q, j) \/ LateWrite(q, j)
        PROVE  store'[Dst(r, i)] = store[Dst(r, i)]
    <3>1. ~ (q = r /\ j = i)
      BY <2>1, <2>2, UploadFrame DEF Uploads, LateWrite, LateInv
    <3>2. Dst(r, i) \in Object
      BY DstType DEF TypeOK
    <3>3. QED
      BY <2>2, <3>1, <3>2, OtherUploadStored
  <2>3. QED
    BY <2>2, CallStepLaunched DEF Next, AllReturned, vars
<1>2. Spec => [][Keeps]_vars
  BY <1>1, InitTypeOK, NextTypeOK, InitPhase, NextPhase, InitCount, NextCount,
     InitLate, NextLate, InitStored, NextStored, InitNewObject, NextNewObject, PTL DEF Spec
<1>3. QED
  BY <1>2 DEF NoOverrideKeepsExclusive

(***************************************************************************)
(* The invariant the other theorems follow from: phases, traces of uploads *)
(* in the storage, counters, late writes and stored archives agree.        *)
(***************************************************************************)
THEOREM SpecIInv == Spec => []IInv
BY InitTypeOK, NextTypeOK, InitPhase, NextPhase, InitTrace, NextTrace,
   InitCount, NextCount, InitLate, NextLate, InitStored, NextStored,
   InitPresent, NextPresent, NextDecided, PTL
   DEF Spec, IInv

(***************************************************************************)
(* What the scan found absent is still absent when its upload begins, for  *)
(* an object of one source only, if Exists answers truthfully.             *)
(***************************************************************************)
THEOREM SpecNewObjectInv ==
  ASSUME ExistsHonest
  PROVE  Spec => []NewObjectInv
<1>1. Spec => []NewObjectInv
  BY InitTypeOK, NextTypeOK, InitPhase, NextPhase, InitCount, NextCount,
     InitLate, NextLate, InitStored, NextStored, InitNewObject, NextNewObject,
     PTL DEF Spec
<1>2. QED
  BY <1>1
=============================================================================
