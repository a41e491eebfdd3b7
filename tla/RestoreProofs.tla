--------------------------- MODULE RestoreProofs ---------------------------
(***************************************************************************)
(* Proofs about Restore, for every number of destinations, every listing   *)
(* and every configuration.                                                *)
(***************************************************************************)
EXTENDS RestoreInv, FiniteSetTheorems, SequenceTheorems, WellFoundedInduction, TLAPS

(* A non-empty set of naturals up to n has a greatest element. *)
LEMMA GreatestNatural ==
  ASSUME NEW n \in Nat, NEW S \in SUBSET (0..n), S # {}
  PROVE  \E m \in S : \A k \in S : k <= m
<1> DEFINE T == {n - k : k \in S}
<1>1. T \subseteq Nat /\ T # {}
  <2>1. \A k \in S : k \in Nat /\ n - k \in Nat
    OBVIOUS
  <2>2. QED
    BY <2>1
<1>2. PICK x \in T : \A y \in T : <<y, x>> \notin OpToRel(<, Nat)
  BY <1>1, WFMin, NatLessThanWellFounded
<1>3. PICK m \in S : x = n - m
  OBVIOUS
<1>4. ASSUME NEW k \in S PROVE k <= m
  <2>1. n - k \in T /\ n - k \in Nat /\ x \in Nat
    BY <1>1
  <2>2. ~ (n - k < x)
    BY <1>2, <2>1 DEF OpToRel
  <2>3. QED
    BY <1>3, <2>1, <2>2
<1>5. QED
  BY <1>4

(* sourcePaths has an object for the destination of every selected entry. *)
LEMMA LastType ==
  ASSUME NEW n \in Selected
  PROVE  Last(n) \in Selected
<1> DEFINE S == {m \in Selected : Target[Listing[m]] = Target[Listing[n]]}
<1>1. Len(Listing) \in Nat
  BY RestoreAssumption
<1>2. S \in SUBSET (0..Len(Listing)) /\ S # {}
  BY <1>1 DEF Selected, Entries
<1>3. \E m \in S : \A k \in S : k <= m
  BY <1>1, <1>2, GreatestNatural
<1>4. \E m \in Selected :
        /\ Target[Listing[m]] = Target[Listing[n]]
        /\ \A k \in Selected : Target[Listing[k]] = Target[Listing[n]] => k <= m
  BY <1>3
<1>5. QED
  BY <1>4 DEF Last

-----------------------------------------------------------------------------
(* Type correctness. *)

LEMMA EmptyFunction ==
  ASSUME NEW S
  PROVE  DOMAIN <<>> = {} /\ <<>> \in [{} -> S]
<1>1. <<>> \in [1..0 -> S]
  BY EmptySeq, LenProperties
<1>2. QED
  BY <1>1

Metrics == [hit: BOOLEAN, state: {"none", "partial", "complete"}]
Metadata == [valid: BOOLEAN, entries: SUBSET (Workers \cup {0})]

LEMMA NoMetricsType == NoMetrics \in Metrics
BY DEF NoMetrics, Metrics

LEMMA MetadataType ==
  ASSUME NEW E \in SUBSET (Workers \cup {0})
  PROVE  Parsable(E) \in Metadata /\ Garbage \in Metadata
BY DEF Parsable, Garbage, Metadata

LEMMA InitType == Init => TypeOK
<1> SUFFICES ASSUME Init PROVE TypeOK
  OBVIOUS
<1>1. Workers = {}
  BY EmptyFunction DEF Init, Workers
<1>2. IsFiniteSet(Workers)
  BY <1>1, FS_EmptySet
<1>3. metadata \in Metadata
  BY MetadataType DEF Init
<1>4. /\ work \in [Workers -> [dst: Dir, src: Object]]
      /\ task \in [Workers -> TaskState]
      /\ cacheData \in [Workers -> SUBSET (Workers \cup {0})]
      /\ seen \in [Workers -> Nat]
  BY <1>1, EmptyFunction DEF Init
<1>5. QED
  BY <1>1, <1>2, <1>3, <1>4, NoMetricsType DEF Init, TypeOK, Metadata, Metrics, Free

LEMMA LaunchType ==
  ASSUME TypeOK, NEW D \in SUBSET (Nat \ {0}), IsFiniteSet(D),
         NEW w \in [D -> [dst: Dir, src: Object]], Launch(w),
         Workers = {}
  PROVE  TypeOK'
<1>1. Workers' = D
  BY DEF Launch, Workers
<1>2. task' \in [D -> TaskState] /\ cacheData' \in [D -> SUBSET (D \cup {0})]
      /\ seen' \in [D -> Nat]
  BY DEF Launch, TaskState
<1>3. QED
  BY <1>1, <1>2 DEF Launch, TypeOK

(* There are no goroutines before the call starts them. *)
Fresh == pc = "start" => Workers = {}

LEMMA InitFresh == Init => Fresh
<1>1. DOMAIN <<>> = {}
  OBVIOUS
<1>2. QED
  BY <1>1 DEF Init, Fresh, Workers

LEMMA StepType ==
  ASSUME TypeOK, NEW i \in Workers, NEW from, NEW to \in TaskState, Step(i, from, to)
  PROVE  task' \in [Workers -> TaskState]
BY DEF TypeOK, Step

LEMMA WorkerType ==
  ASSUME TypeOK, NEW i \in Workers, WorkerStep(i)
  PROVE  TypeOK'
<1>1. {"error", "lock", "failed", "read", "write", "count", "add", "ok"} \subseteq TaskState
  BY DEF TaskState
<1>2. Free \in Workers \cup {Free} /\ i \in Workers \cup {Free}
  OBVIOUS
<1>3. CASE Extract(i) \/ ExtractFails(i) \/ AddError(i)
  BY <1>1, <1>3, StepType
     DEF Extract, ExtractFails, AddError, AfterFailure, TypeOK, Workers
<1>4. CASE LockMetadata(i)
  BY <1>1, <1>2, <1>4, StepType DEF LockMetadata, TypeOK, Workers
<1>5. CASE ReadMetadata(i)
  BY <1>1, <1>2, <1>5, StepType DEF ReadMetadata, TypeOK, Workers
<1>6. CASE ReadMetadataFails(i)
  BY <1>1, <1>2, <1>6, StepType DEF ReadMetadataFails, UnlockAfterError, TypeOK, Workers
<1>7. CASE WriteMetadata(i)
  <2>1. cacheData[i] \cup {i} \in SUBSET (Workers \cup {0})
    BY DEF TypeOK
  <2>2. metadata' \in [valid: BOOLEAN, entries: SUBSET (Workers \cup {0})]
    BY <1>7, <2>1 DEF WriteMetadata, Parsable
  <2>3. QED
    BY <1>1, <1>2, <1>7, <2>2, StepType DEF WriteMetadata, TypeOK, Workers
<1>8. CASE WriteMetadataFails(i)
  <2>1. metadata' \in [valid: BOOLEAN, entries: SUBSET (Workers \cup {0})]
    BY <1>8, MetadataType DEF WriteMetadataFails, Metadata, TypeOK
  <2>2. QED
    BY <1>1, <1>2, <1>8, <2>1, StepType DEF WriteMetadataFails, TypeOK, Workers
<1>9. CASE ReadCount(i)
  BY <1>1, <1>9, StepType DEF ReadCount, TypeOK, Workers
<1>10. CASE WriteCount(i)
  <2>1. seen[i] + 1 \in Nat
    BY DEF TypeOK
  <2>2. QED
    BY <1>1, <1>10, <2>1, StepType DEF WriteCount, Incremented, TypeOK, Workers
<1>11. QED
  BY <1>3, <1>4, <1>5, <1>6, <1>7, <1>8, <1>9, <1>10 DEF WorkerStep

LEMMA CallType ==
  ASSUME TypeOK, Fresh, CallStep
  PROVE  TypeOK'
<1>1. CASE GenerateKeyFails \/ ListFails \/ KeyNotPresent
  <2>1. \E v \in {"errKey", "errList", "errNotPresent"} : GiveUp(v)
    BY <1>1 DEF GenerateKeyFails, ListFails, KeyNotPresent
  <2>2. QED
    BY <2>1, NoMetricsType DEF GiveUp, Return, TypeOK, Metrics, Workers
<1>2. CASE LaunchConfigured
  <2> DEFINE w == [i \in 1..Len(call.dsts) |->
                     [dst |-> call.dsts[i], src |-> RemoteOf[call.dsts[i]]]]
  <2>1. call.dsts \in Seq(Dir)
    BY RestoreAssumption DEF TypeOK, Call
  <2>2. Len(call.dsts) \in Nat /\ \A i \in 1..Len(call.dsts) : call.dsts[i] \in Dir
    BY <2>1
  <2>3. w \in [1..Len(call.dsts) -> [dst: Dir, src: Object]]
    BY <2>2, RestoreAssumption
  <2>4. IsFiniteSet(1..Len(call.dsts))
    BY <2>2, FS_Interval
  <2>5. QED
    BY <1>2, <2>2, <2>3, <2>4, LaunchType DEF LaunchConfigured, Fresh
<1>3. CASE ListNotImplemented
  <2>1. <<>> \in [{} -> [dst: Dir, src: Object]] /\ IsFiniteSet({})
    BY FS_EmptySet, EmptyFunction
  <2>2. QED
    BY <1>3, <2>1, LaunchType DEF ListNotImplemented, Fresh
<1>4. CASE LaunchListed
  <2> DEFINE w == [n \in Selected |->
                     [dst |-> Target[Listing[n]], src |-> Listing[Last(n)]]]
  <2>1. Len(Listing) \in Nat /\ \A n \in 1..Len(Listing) : Listing[n] \in Object
    BY RestoreAssumption
  <2>2. Selected \subseteq 1..Len(Listing)
        /\ \A n \in Selected : Target[Listing[n]] \in Dir
    BY <2>1, RestoreAssumption DEF Selected, Entries
  <2>3. w \in [Selected -> [dst: Dir, src: Object]]
    BY <2>1, <2>2, LastType
  <2>4. IsFiniteSet(Selected)
    <3>1. IsFiniteSet(1..Len(Listing))
      BY <2>1, FS_Interval
    <3>2. QED
      BY <2>2, <3>1, FS_Subset
  <2>5. QED
    BY <1>4, <2>1, <2>2, <2>3, <2>4, LaunchType DEF LaunchListed, Fresh
<1>5. CASE ReportHit \/ ReportMiss
  <2>1. \A s \in {"partial", "complete"} : [hit |-> TRUE, state |-> s] \in Metrics
    BY DEF Metrics
  <2>2. \/ metrics' = NoMetrics
        \/ metrics' = [hit |-> TRUE, state |-> "partial"]
        \/ metrics' = [hit |-> TRUE, state |-> "complete"]
    BY <1>5 DEF ReportHit, ReportMiss, Return
  <2>3. metrics' \in Metrics
    BY <2>1, <2>2, NoMetricsType
  <2>4. QED
    BY <1>5, <2>3 DEF ReportHit, ReportMiss, Return, TypeOK, Metrics, Workers
<1>6. QED
  BY <1>1, <1>2, <1>3, <1>4, <1>5 DEF CallStep

LEMMA NextFresh == Fresh /\ [Next]_vars => Fresh'
<1> SUFFICES ASSUME Fresh, [Next]_vars PROVE Fresh'
  OBVIOUS
<1>1. CASE UNCHANGED vars
  BY <1>1 DEF vars, Fresh, Workers
<1>2. CASE CallStep
  BY <1>2 DEF Fresh, CallStep, GenerateKeyFails, LaunchConfigured, ListFails,
     ListNotImplemented, KeyNotPresent, LaunchListed, ReportHit, ReportMiss,
     GiveUp, Return, Launch
<1>3. ASSUME NEW i \in Workers, WorkerStep(i) PROVE Fresh'
  BY <1>3 DEF Fresh, WorkerStep, Extract, ExtractFails, AddError, LockMetadata,
     ReadMetadata, ReadMetadataFails, WriteMetadata, WriteMetadataFails, ReadCount,
     WriteCount, Workers
<1>4. QED
  BY <1>1, <1>2, <1>3 DEF Next

LEMMA NextType == TypeOK /\ Fresh /\ [Next]_vars => TypeOK'
<1> SUFFICES ASSUME TypeOK, Fresh, [Next]_vars PROVE TypeOK'
  OBVIOUS
<1>1. CASE UNCHANGED vars
  BY <1>1 DEF vars, TypeOK, Workers
<1>2. QED
  BY <1>1, CallType, WorkerType DEF Next

(* Type correctness, whatever the listing and the configuration. *)
THEOREM SpecTypeOK == Spec => []TypeOK
BY InitType, InitFresh, NextType, NextFresh, PTL DEF Spec

-----------------------------------------------------------------------------
(***************************************************************************)
(* Tally is inductive.  It is what makes the unprotected counter good      *)
(* enough: an increment may be lost, but the counter stays between 1 and   *)
(* the number of increments.                                               *)
(***************************************************************************)

LEMMA RestoredSize ==
  ASSUME TypeOK
  PROVE  /\ IsFiniteSet(Restored) /\ Cardinality(Restored) \in Nat
         /\ Cardinality(Workers) \in Nat
         /\ Cardinality(Restored) <= Cardinality(Workers)
         /\ Cardinality(Restored) = Cardinality(Workers) => Restored = Workers
<1>1. IsFiniteSet(Workers) /\ Restored \subseteq Workers
  BY DEF TypeOK, Restored
<1>2. QED
  BY <1>1, FS_Subset, FS_CardinalityType

LEMMA InitTally == Init => Tally
<1> SUFFICES ASSUME Init PROVE Tally
  OBVIOUS
<1>1. Workers = {}
  BY EmptyFunction DEF Init, Workers
<1>2. Restored = {} /\ Cardinality({}) = 0
  BY <1>1, FS_EmptySet DEF Restored
<1>3. QED
  BY <1>1, <1>2 DEF Init, Tally

(* No step of one goroutine but the last changes the tally. *)
LEMMA WorkerTally ==
  ASSUME TypeOK, Tally, NEW i \in Workers, WorkerStep(i)
  PROVE  Tally'
<1>1. Workers' = Workers
  BY DEF WorkerStep, Extract, ExtractFails, AddError, LockMetadata, ReadMetadata,
     ReadMetadataFails, WriteMetadata, WriteMetadataFails, ReadCount, WriteCount, Workers
<1>2. ASSUME NEW from, NEW to, Step(i, from, to)
      PROVE  /\ task[i] = from /\ task'[i] = to
             /\ \A k \in Workers : k # i => task'[k] = task[k]
  BY <1>2 DEF Step, TypeOK
<1>3. /\ Cardinality(Restored) \in Nat /\ count \in Nat
      /\ \A k \in Workers : seen[k] \in Nat
  BY RestoredSize DEF TypeOK
<1>4. CASE WriteCount(i)
  <2>1. task[i] = "add" /\ task'[i] = "ok" /\ i \notin Restored
    BY <1>2, <1>4 DEF WriteCount, Restored
  <2>2. Restored' = Restored \cup {i}
    BY <1>1, <1>2, <1>4, <2>1 DEF WriteCount, Restored
  <2>3. Cardinality(Restored') = Cardinality(Restored) + 1
    BY <2>1, <2>2, RestoredSize, FS_AddElement
  <2>4. count' = seen[i] + 1 /\ seen' = seen /\ seen[i] <= Cardinality(Restored)
    BY <1>4, <2>1 DEF WriteCount, Incremented, Tally
  <2>5. ASSUME NEW k \in Workers, task'[k] = "add"
        PROVE  seen'[k] <= Cardinality(Restored')
    <3>1. task[k] = "add"
      BY <1>2, <1>4, <2>1, <2>5 DEF WriteCount
    <3>2. seen[k] <= Cardinality(Restored)
      BY <3>1 DEF Tally
    <3>3. QED
      BY <1>3, <2>3, <2>4, <3>2
  <2>6. count' <= Cardinality(Restored') /\ count' > 0
    BY <1>3, <2>3, <2>4
  <2>7. QED
    BY <1>1, <2>5, <2>6 DEF Tally
<1>5. CASE ~ WriteCount(i)
  <2>1. \E to : /\ task'[i] = to /\ to # "ok" /\ task[i] # "ok"
                /\ to = "add" => seen'[i] = count
                /\ \A k \in Workers : k # i => task'[k] = task[k] /\ seen'[k] = seen[k]
                /\ count' = count
    BY <1>2, <1>5 DEF WorkerStep, Extract, ExtractFails, AddError, AfterFailure,
       LockMetadata, ReadMetadata, ReadMetadataFails, WriteMetadata,
       WriteMetadataFails, ReadCount, TypeOK
  <2>2. Restored' = Restored
    BY <1>1, <2>1 DEF Restored
  <2>3. QED
    BY <1>1, <2>1, <2>2 DEF Tally
<1>6. QED
  BY <1>4, <1>5

LEMMA CallTally ==
  ASSUME TypeOK, Fresh, Tally, CallStep
  PROVE  Tally'
<1>1. CASE GenerateKeyFails \/ ListFails \/ KeyNotPresent \/ ReportHit \/ ReportMiss
  BY <1>1 DEF GenerateKeyFails, ListFails, KeyNotPresent, ReportHit, ReportMiss, GiveUp,
     Tally, Restored, Workers
<1>2. CASE LaunchConfigured \/ ListNotImplemented \/ LaunchListed
  <2>1. /\ count' = count
        /\ \A k \in Workers' : task'[k] = "extract"
        /\ pc = "start"
    BY <1>2 DEF LaunchConfigured, ListNotImplemented, LaunchListed, Launch, Workers
  <2>2. Restored = {} /\ Restored' = {}
    BY <2>1 DEF Restored, Fresh
  <2>3. QED
    BY <2>1, <2>2 DEF Tally
<1>3. QED
  BY <1>1, <1>2 DEF CallStep

LEMMA NextTally == TypeOK /\ Fresh /\ Tally /\ [Next]_vars => Tally'
<1> SUFFICES ASSUME TypeOK, Fresh, Tally, [Next]_vars PROVE Tally'
  OBVIOUS
<1>1. CASE UNCHANGED vars
  BY <1>1 DEF vars, Tally, Restored, Workers
<1>2. QED
  BY <1>1, CallTally, WorkerTally DEF Next

-----------------------------------------------------------------------------
(* Outcome is inductive. *)

LEMMA InitOutcome == Init => Outcome
<1> SUFFICES ASSUME Init PROVE Outcome
  OBVIOUS
<1>1. Workers = {}
  BY EmptyFunction DEF Init, Workers
<1>2. QED
  BY <1>1 DEF Init, Outcome, NoMetrics

LEMMA WorkerOutcome ==
  ASSUME TypeOK, Outcome, NEW i \in Workers, WorkerStep(i)
  PROVE  Outcome'
<1>1. Workers' = Workers /\ UNCHANGED <<pc, ret, metrics>> /\ Total' = Total
  BY DEF WorkerStep, Extract, ExtractFails, AddError, LockMetadata, ReadMetadata,
     ReadMetadataFails, WriteMetadata, WriteMetadataFails, ReadCount, WriteCount, Workers,
     Total
<1>2. ASSUME NEW from, NEW to, Step(i, from, to)
      PROVE  /\ task[i] = from /\ task'[i] = to
             /\ \A k \in Workers : k # i => task'[k] = task[k]
  BY <1>2 DEF Step, TypeOK
<1>3. ret = "none"
  BY <1>2 DEF Outcome, WorkerStep, Extract, ExtractFails, AddError, LockMetadata,
     ReadMetadata, ReadMetadataFails, WriteMetadata, WriteMetadataFails, ReadCount, WriteCount
<1>4. pc # "start"
  BY DEF Outcome
<1>5. errs' = {k \in Workers : task'[k] = "error"}
  <2>1. CASE AddError(i)
    BY <1>2, <2>1 DEF AddError, AfterFailure, Outcome
  <2>2. CASE ~ AddError(i)
    BY <1>2, <2>2 DEF WorkerStep, Extract, ExtractFails, LockMetadata, ReadMetadata,
       ReadMetadataFails, WriteMetadata, WriteMetadataFails, ReadCount, WriteCount, Outcome
  <2>3. QED
    BY <2>1, <2>2
<1>6. QED
  BY <1>1, <1>3, <1>4, <1>5 DEF Outcome

LEMMA CallOutcome ==
  ASSUME TypeOK, Outcome, CallStep
  PROVE  Outcome'
<1>1. CASE GenerateKeyFails \/ ListFails \/ KeyNotPresent
  <2>1. pc = "start" /\ \E v \in {"errKey", "errList", "errNotPresent"} : GiveUp(v)
    BY <1>1 DEF GenerateKeyFails, ListFails, KeyNotPresent
  <2>2. ~ metrics'.hit /\ metrics'.state = "none" /\ UNCHANGED <<count, errs, task, work>>
        /\ pc' = "returned" /\ ret' \in {"errKey", "errList", "errNotPresent"}
    BY <2>1 DEF GiveUp, Return, NoMetrics
  <2>3. Workers = {} /\ Workers' = {}
    BY <2>1, <2>2 DEF Outcome, Workers
  <2>4. count = 0 /\ errs = {}
    BY <2>1, <2>3 DEF Outcome
  <2>5. QED
    BY <2>2, <2>3, <2>4 DEF Outcome
<1>2. CASE LaunchConfigured \/ ListNotImplemented \/ LaunchListed
  <2>1. /\ UNCHANGED <<count, errs, ret, metrics>>
        /\ \A k \in Workers' : task'[k] = "extract"
        /\ pc = "start" /\ pc' = "wait"
    BY <1>2 DEF LaunchConfigured, ListNotImplemented, LaunchListed, Launch, Workers
  <2>2. errs = {} /\ ret = "none"
    BY <2>1 DEF Outcome
  <2>3. QED
    BY <2>1, <2>2 DEF Outcome
<1>3. CASE ReportHit \/ ReportMiss
  <2>1. /\ UNCHANGED <<work, task, count, errs>> /\ pc = "wait" /\ pc' = "returned"
        /\ \A k \in Workers : task[k] \in {"ok", "error"}
    BY <1>3 DEF ReportHit, ReportMiss, Return, AllDone
  <2>2. Workers' = Workers /\ Total' = Total
    BY <2>1 DEF Workers, Total
  <2>3. CASE ReportHit
    <3>1. ret' = "nil" /\ count > 0 /\ metrics'.hit
          /\ (metrics'.state = "complete" => count = Total)
      BY <2>3 DEF ReportHit, Return
    <3>2. QED
      BY <2>1, <2>2, <3>1 DEF Outcome
  <2>4. CASE ReportMiss
    <3>1. /\ count = 0 /\ ~ metrics'.hit /\ metrics'.state = "none"
          /\ ret' = IF errs # {} THEN "errRestore" ELSE "nil"
      BY <2>4 DEF ReportMiss, Return, NoMetrics
    <3>2. QED
      BY <2>1, <2>2, <3>1 DEF Outcome
  <2>5. QED
    BY <1>3, <2>3, <2>4
<1>4. QED
  BY <1>1, <1>2, <1>3 DEF CallStep

LEMMA NextOutcome == TypeOK /\ Outcome /\ [Next]_vars => Outcome'
<1> SUFFICES ASSUME TypeOK, Outcome, [Next]_vars PROVE Outcome'
  OBVIOUS
<1>1. CASE UNCHANGED vars
  BY <1>1 DEF vars, Outcome, Workers, Total
<1>2. QED
  BY <1>1, CallOutcome, WorkerOutcome DEF Next

(***************************************************************************)
(* The answer of Restore and its cache_hit are right for any number of     *)
(* goroutines, although they race on successCount.                         *)
(***************************************************************************)
THEOREM SpecOutcomeIsRight == Spec => []OutcomeIsRight
<1>1. TypeOK /\ Tally /\ Outcome => OutcomeIsRight
  <2> SUFFICES ASSUME TypeOK, Tally, Outcome, ret \in {"nil", "errRestore"}
               PROVE  /\ metrics.hit <=> Restored # {}
                      /\ ret = "errRestore" <=> Workers # {} /\ Restored = {}
    BY DEF OutcomeIsRight
  <2>1. count > 0 <=> Restored # {}
    <3>1. Restored = {} => Cardinality(Restored) = 0
      BY FS_EmptySet
    <3>2. QED
      BY <3>1 DEF Tally, TypeOK
  <2>2. errs = Workers \ Restored
    BY DEF Outcome, Restored
  <2>3. QED
    BY <2>1, <2>2 DEF Outcome, TypeOK, Restored
<1>2. QED
  BY <1>1, InitType, InitFresh, NextType, NextFresh, InitTally, NextTally,
     InitOutcome, NextOutcome, PTL DEF Spec

(***************************************************************************)
(* cache_state is "complete" only if every destination was restored, also  *)
(* for any number of goroutines.                                           *)
(***************************************************************************)
THEOREM SpecCompleteIsTrue == Spec => []CompleteIsTrue
<1>1. TypeOK /\ Tally /\ Outcome => CompleteIsTrue
  <2> SUFFICES ASSUME TypeOK, Tally, Outcome, metrics.state = "complete"
               PROVE  Restored = Workers /\ errs = {}
    BY DEF CompleteIsTrue
  <2>1. count = Cardinality(Workers) /\ count <= Cardinality(Restored)
    BY DEF Outcome, Tally, Total
  <2>2. Restored = Workers
    BY <2>1, RestoredSize
  <2>3. QED
    BY <2>2 DEF Outcome, Restored
<1>2. QED
  BY <1>1, InitType, InitFresh, NextType, NextFresh, InitTally, NextTally,
     InitOutcome, NextOutcome, PTL DEF Spec

-----------------------------------------------------------------------------
(* Locked is inductive: cacheFileMutex serialises the metadata file. *)

LEMMA InitLocked == Init => Locked
<1> SUFFICES ASSUME Init PROVE Locked
  OBVIOUS
<1>1. Workers = {}
  BY EmptyFunction DEF Init, Workers
<1>2. QED
  BY <1>1 DEF Locked

LEMMA WorkerLocked ==
  ASSUME TypeOK, Locked, NEW i \in Workers, WorkerStep(i)
  PROVE  Locked'
<1>1. Workers' = Workers
  BY DEF WorkerStep, Extract, ExtractFails, AddError, LockMetadata, ReadMetadata,
     ReadMetadataFails, WriteMetadata, WriteMetadataFails, ReadCount, WriteCount, Workers
<1>2. ASSUME NEW from, NEW to, Step(i, from, to)
      PROVE  /\ task[i] = from /\ task'[i] = to
             /\ \A k \in Workers : k # i => task'[k] = task[k]
  BY <1>2 DEF Step, TypeOK
<1>3. \A k \in Workers : k # Free
  BY DEF TypeOK, Free
<1>4. CASE Extract(i) \/ ExtractFails(i) \/ AddError(i) \/ ReadCount(i) \/ WriteCount(i)
  BY <1>1, <1>2, <1>4 DEF Extract, ExtractFails, AddError, AfterFailure, ReadCount,
     WriteCount, Locked
<1>5. CASE LockMetadata(i)
  BY <1>1, <1>2, <1>3, <1>5 DEF LockMetadata, MayLock, Locked
<1>6. CASE ReadMetadata(i)
  BY <1>1, <1>2, <1>6 DEF ReadMetadata, Locked, TypeOK
<1>7. CASE ReadMetadataFails(i)
  BY <1>1, <1>2, <1>3, <1>7 DEF ReadMetadataFails, UnlockAfterError, Locked
<1>8. CASE WriteMetadata(i) \/ WriteMetadataFails(i)
  BY <1>1, <1>2, <1>3, <1>8 DEF WriteMetadata, WriteMetadataFails, Locked
<1>9. QED
  BY <1>4, <1>5, <1>6, <1>7, <1>8 DEF WorkerStep

LEMMA CallLocked ==
  ASSUME TypeOK, Fresh, Locked, CallStep
  PROVE  Locked'
<1>1. CASE GenerateKeyFails \/ ListFails \/ KeyNotPresent \/ ReportHit \/ ReportMiss
  BY <1>1 DEF GenerateKeyFails, ListFails, KeyNotPresent, ReportHit, ReportMiss, GiveUp,
     Locked, Workers
<1>2. CASE LaunchConfigured \/ ListNotImplemented \/ LaunchListed
  <2>1. /\ lock' = lock /\ pc = "start"
        /\ \A k \in Workers' : task'[k] = "extract"
        /\ Workers' \subseteq Nat \ {0}
    BY <1>2, CallType DEF LaunchConfigured, ListNotImplemented, LaunchListed, Launch,
       Workers, TypeOK
  <2>2. lock = Free
    BY <2>1 DEF Fresh, TypeOK
  <2>3. QED
    BY <2>1, <2>2 DEF Locked, Free
<1>3. QED
  BY <1>1, <1>2 DEF CallStep

LEMMA NextLocked == TypeOK /\ Fresh /\ Locked /\ [Next]_vars => Locked'
<1> SUFFICES ASSUME TypeOK, Fresh, Locked, [Next]_vars PROVE Locked'
  OBVIOUS
<1>1. CASE UNCHANGED vars
  BY <1>1 DEF vars, Locked, Workers
<1>2. QED
  BY <1>1, CallLocked, WorkerLocked DEF Next

(***************************************************************************)
(* No goroutine writes an older copy of the metadata file over an entry    *)
(* that another one has added since.                                       *)
(***************************************************************************)
THEOREM SpecMetadataKeepsEntries == Spec => MetadataKeepsEntries
<1> DEFINE Keeps == metadata.entries \subseteq metadata'.entries
                      \/ \E i \in Workers : WriteMetadataFails(i)
<1>1. TypeOK /\ Locked /\ [Next]_vars => [Keeps]_vars
  <2> SUFFICES ASSUME TypeOK, Locked, Next PROVE Keeps
    OBVIOUS
  <2>1. ASSUME NEW i \in Workers, WriteMetadata(i)
        PROVE  metadata.entries \subseteq metadata'.entries
    <3>1. cacheData[i] = metadata.entries
      BY <2>1 DEF WriteMetadata, Step, Locked
    <3>2. QED
      BY <2>1, <3>1 DEF WriteMetadata, Parsable
  <2>2. ASSUME NEW i \in Workers, WorkerStep(i), ~ WriteMetadata(i), ~ WriteMetadataFails(i)
        PROVE  metadata' = metadata
    BY <2>2 DEF WorkerStep, Extract, ExtractFails, AddError, LockMetadata, ReadMetadata,
       ReadMetadataFails, ReadCount, WriteCount
  <2>3. CallStep => metadata' = metadata
    BY DEF CallStep, GenerateKeyFails, LaunchConfigured, ListFails, ListNotImplemented,
       KeyNotPresent, LaunchListed, ReportHit, ReportMiss, GiveUp, Launch
  <2>4. QED
    BY <2>1, <2>2, <2>3 DEF Next
<1>2. Spec => [][Keeps]_vars
  BY <1>1, InitType, InitFresh, NextType, NextFresh, InitLocked, NextLocked, PTL DEF Spec
<1>3. QED
  BY <1>2 DEF MetadataKeepsEntries

(***************************************************************************)
(* The invariant the other theorems follow from: counter of successes,     *)
(* outcome and the lock on the metadata agree with the goroutines.         *)
(***************************************************************************)
THEOREM SpecIInv == Spec => []IInv
BY InitType, InitFresh, NextType, NextFresh, InitTally, NextTally,
   InitOutcome, NextOutcome, InitLocked, NextLocked, PTL DEF Spec, IInv
=============================================================================
