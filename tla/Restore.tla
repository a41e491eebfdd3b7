------------------------------ MODULE Restore ------------------------------
(***************************************************************************)
(* cache/restorer.go: the "restore cache" half of the plugin.              *)
(*                                                                         *)
(* One call of restorer.Restore.  It generates the key, lists the remote   *)
(* storage when no destination is given, starts one goroutine per          *)
(* destination, waits for all of them and reports.  The goroutines share   *)
(* three things: the metadata file, read, extended and written back under  *)
(* cacheFileMutex; the collected errors, under a mutex of their own; and   *)
(* successCount, which nothing protects.                                   *)
(*                                                                         *)
(* What the key of an entry matches and which destination it stands for    *)
(* is a constant here; downloading and extracting is one step.             *)
(***************************************************************************)
EXTENDS Naturals, Sequences, FiniteSets

CONSTANTS
  Dir,         \* local destinations
  NoDir,       \* not a destination: the entry stands for none
  Object,      \* remote objects under the prefix of the key
  Listing,     \* the objects in the order in which List returns them
  Exact,       \* the objects that belong to the key itself
  Target,      \* the destination of an entry
  RemoteOf,    \* the object of a destination given by the configuration
  Calls        \* the configurations a call can be made with

(* The destinations, the options, and whether the backend implements List. *)
Call == [dsts: Seq(Dir), failIfKeyNotPresent: BOOLEAN, strict: BOOLEAN,
         listable: BOOLEAN]

ASSUME RestoreAssumption ==
  /\ NoDir \notin Dir
  /\ Listing \in Seq(Object)
  /\ Exact \subseteq Object
  /\ Target \in [Object -> Dir \cup {NoDir}]
  /\ RemoteOf \in [Dir -> Object]
  /\ Calls \subseteq Call

VARIABLES
  call,      \* the receiver and argument of the call
  remote,    \* the objects that exist
  pc,        \* where the call is
  work,      \* the destination and the source of each goroutine
  task,      \* where each goroutine is
  lock,      \* the goroutine that holds cacheFileMutex, or Free
  metadata,  \* the metadata file
  cacheData, \* each goroutine's copy of its entries
  seen,      \* the value of successCount each goroutine has read
  count,     \* successCount
  errs,      \* the goroutines that added an error
  ret,       \* what the call returned
  metrics    \* cache_hit and cache_state, exported in the unified flow only

vars == <<call, remote, pc, work, task, lock, metadata, cacheData, seen, count,
          errs, ret, metrics>>

(* The goroutines, by the index of their destination or of their entry. *)
Workers == DOMAIN work

Free == 0

(***************************************************************************)
(* The metadata file: whether it parses, and whose entries it has.  Entry  *)
(* 0 stands for those of earlier plugin runs; a missing or an empty file   *)
(* parses.                                                                 *)
(***************************************************************************)
Parsable(entries) == [valid |-> TRUE, entries |-> entries]
Garbage           == [valid |-> FALSE, entries |-> {}]

TaskState == {"extract", "failed", "lock", "read", "write", "count", "add", "ok", "error"}

(* cache_hit=false alone; a call that gives up exports nothing at all. *)
NoMetrics == [hit |-> FALSE, state |-> "none"]

Init ==
  /\ call \in Calls
  /\ remote \in SUBSET Object
  /\ pc = "start"
  /\ work = <<>>
  /\ task = <<>>
  /\ lock = Free
  /\ metadata \in {Parsable({}), Parsable({0}), Garbage}
  /\ cacheData = <<>>
  /\ seen = <<>>
  /\ count = 0
  /\ errs = {}
  /\ ret = "none"
  /\ metrics = NoMetrics

-----------------------------------------------------------------------------
(* The call itself. *)

Return(value, report) ==
  /\ pc' = "returned"
  /\ ret' = value
  /\ metrics' = report

GiveUp(value) ==
  /\ Return(value, NoMetrics)
  /\ UNCHANGED <<call, remote, work, task, lock, metadata, cacheData, seen, count, errs>>

GenerateKeyFails ==
  /\ pc = "start"
  /\ GiveUp("errKey")

(* One goroutine per destination, with copies of its own. *)
Launch(goroutines) ==
  /\ work' = goroutines
  /\ task' = [i \in DOMAIN goroutines |-> "extract"]
  /\ cacheData' = [i \in DOMAIN goroutines |-> {}]
  /\ seen' = [i \in DOMAIN goroutines |-> 0]
  /\ pc' = "wait"
  /\ UNCHANGED <<call, remote, lock, metadata, count, errs, ret, metrics>>

LaunchConfigured ==
  /\ pc = "start"
  /\ call.dsts # <<>>
  /\ Launch([i \in 1..Len(call.dsts) |->
               [dst |-> call.dsts[i], src |-> RemoteOf[call.dsts[i]]]])

ListFails ==
  /\ pc = "start"
  /\ call.dsts = <<>>
  /\ call.listable
  /\ GiveUp("errList")

(* common.ErrNotImplemented is not an error: there is nothing to restore. *)
ListNotImplemented ==
  /\ pc = "start"
  /\ call.dsts = <<>>
  /\ ~ call.listable
  /\ Launch(<<>>)

(* The entries that List returns, by their position. *)
Entries == {n \in 1..Len(Listing) : Listing[n] \in remote}

KeyNotPresent ==
  /\ pc = "start"
  /\ call.dsts = <<>>
  /\ call.listable
  /\ call.failIfKeyNotPresent
  /\ Entries = {}
  /\ GiveUp("errNotPresent")

(* Strict matching skips the entries of longer keys. *)
Selected ==
  {n \in Entries : /\ call.strict => Listing[n] \in Exact
                   /\ Target[Listing[n]] # NoDir}

(* sourcePaths: of the entries of one destination the last one is kept. *)
Last(n) ==
  CHOOSE m \in Selected :
    /\ Target[Listing[m]] = Target[Listing[n]]
    /\ \A k \in Selected : Target[Listing[k]] = Target[Listing[n]] => k <= m

LaunchListed ==
  /\ pc = "start"
  /\ call.dsts = <<>>
  /\ call.listable
  /\ call.failIfKeyNotPresent => Entries # {}
  /\ Launch([n \in Selected |->
               [dst |-> Target[Listing[n]], src |-> Listing[Last(n)]]])

(* wg.Wait() *)
AllDone == pc = "wait" /\ \A i \in Workers : task[i] \in {"ok", "error"}

(* totalDirectories *)
Total == Cardinality(Workers)

ReportHit ==
  /\ AllDone
  /\ count > 0
  /\ Return("nil", [hit |-> TRUE,
                    state |-> IF count = Total THEN "complete" ELSE "partial"])
  /\ UNCHANGED <<call, remote, work, task, lock, metadata, cacheData, seen, count, errs>>

ReportMiss ==
  /\ AllDone
  /\ count = 0
  /\ Return(IF errs # {} THEN "errRestore" ELSE "nil", NoMetrics)
  /\ UNCHANGED <<call, remote, work, task, lock, metadata, cacheData, seen, count, errs>>

-----------------------------------------------------------------------------
(* The goroutine of destination i. *)

Step(i, from, to) ==
  /\ task[i] = from
  /\ task' = [task EXCEPT ![i] = to]

Extract(i) ==
  /\ Step(i, "extract", "lock")
  /\ work[i].src \in remote
  /\ UNCHANGED <<call, remote, pc, work, lock, metadata, cacheData, seen, count, errs,
                 ret, metrics>>

ExtractFails(i) ==
  /\ Step(i, "extract", "failed")
  /\ UNCHANGED <<call, remote, pc, work, lock, metadata, cacheData, seen, count, errs,
                 ret, metrics>>

MutantAfterFailure == "count"

AfterFailure == "error"

AddError(i) ==
  /\ Step(i, "failed", AfterFailure)
  /\ errs' = errs \cup {i}
  /\ UNCHANGED <<call, remote, pc, work, lock, metadata, cacheData, seen, count, ret, metrics>>

MutantMayLock == TRUE

MayLock == lock = Free

LockMetadata(i) ==
  /\ MayLock
  /\ Step(i, "lock", "read")
  /\ lock' = i
  /\ UNCHANGED <<call, remote, pc, work, metadata, cacheData, seen, count, errs, ret, metrics>>

ReadMetadata(i) ==
  /\ metadata.valid
  /\ Step(i, "read", "write")
  /\ cacheData' = [cacheData EXCEPT ![i] = metadata.entries]
  /\ UNCHANGED <<call, remote, pc, work, lock, metadata, seen, count, errs, ret, metrics>>

MutantUnlockAfterError == lock

UnlockAfterError == Free

(* No directory, no read, or no JSON: logged, and the restore goes on. *)
ReadMetadataFails(i) ==
  /\ Step(i, "read", "count")
  /\ lock' = UnlockAfterError
  /\ UNCHANGED <<call, remote, pc, work, metadata, cacheData, seen, count, errs, ret, metrics>>

WriteMetadata(i) ==
  /\ Step(i, "write", "count")
  /\ metadata' = Parsable(cacheData[i] \cup {i})
  /\ lock' = Free
  /\ UNCHANGED <<call, remote, pc, work, cacheData, seen, count, errs, ret, metrics>>

(* os.WriteFile cannot open the file, or fails after it has truncated it. *)
WriteMetadataFails(i) ==
  /\ Step(i, "write", "count")
  /\ metadata' \in {metadata, Parsable({}), Garbage}
  /\ lock' = Free
  /\ UNCHANGED <<call, remote, pc, work, cacheData, seen, count, errs, ret, metrics>>

(* successCount++ is a read and a write. *)
ReadCount(i) ==
  /\ Step(i, "count", "add")
  /\ seen' = [seen EXCEPT ![i] = count]
  /\ UNCHANGED <<call, remote, pc, work, lock, metadata, cacheData, count, errs, ret, metrics>>

MutantIncremented(n) == n

Incremented(n) == n + 1

WriteCount(i) ==
  /\ Step(i, "add", "ok")
  /\ count' = Incremented(seen[i])
  /\ UNCHANGED <<call, remote, pc, work, lock, metadata, cacheData, seen, errs, ret, metrics>>

-----------------------------------------------------------------------------
CallStep ==
  \/ GenerateKeyFails \/ LaunchConfigured \/ ListFails \/ ListNotImplemented
  \/ KeyNotPresent \/ LaunchListed \/ ReportHit \/ ReportMiss

WorkerStep(i) ==
  \/ Extract(i) \/ ExtractFails(i) \/ AddError(i)
  \/ LockMetadata(i) \/ ReadMetadata(i) \/ ReadMetadataFails(i)
  \/ WriteMetadata(i) \/ WriteMetadataFails(i)
  \/ ReadCount(i) \/ WriteCount(i)

Next == CallStep \/ \E i \in Workers : WorkerStep(i)

Spec == Init /\ [][Next]_vars

(***************************************************************************)
(* The Go scheduler runs every goroutine that can run, downloads end       *)
(* because storage.go gives them a context with a timeout.                 *)
(***************************************************************************)
Fairness == WF_vars(CallStep) /\ WF_vars(\E i \in Workers : WorkerStep(i))

FairSpec == Spec /\ Fairness

-----------------------------------------------------------------------------
(* Properties. *)

(* The variables keep their types. *)
TypeOK ==
  /\ call \in Calls
  /\ remote \subseteq Object
  /\ pc \in {"start", "wait", "returned"}
  /\ Workers \subseteq Nat \ {0}
  /\ IsFiniteSet(Workers)
  /\ work \in [Workers -> [dst: Dir, src: Object]]
  /\ task \in [Workers -> TaskState]
  /\ lock \in Workers \cup {Free}
  /\ metadata \in [valid: BOOLEAN, entries: SUBSET (Workers \cup {0})]
  /\ cacheData \in [Workers -> SUBSET (Workers \cup {0})]
  /\ seen \in [Workers -> Nat]
  /\ count \in Nat
  /\ errs \subseteq Workers
  /\ ret \in {"none", "nil", "errKey", "errList", "errNotPresent", "errRestore"}
  /\ metrics \in [hit: BOOLEAN, state: {"none", "partial", "complete"}]

Restored == {i \in Workers : task[i] = "ok"}

(***************************************************************************)
(* Restore fails exactly when there was something to restore and nothing   *)
(* of it was restored, and reports a cache hit exactly when something was. *)
(* The goroutines increment successCount without a lock and may lose each  *)
(* other's increments, but never all of them.                              *)
(***************************************************************************)
OutcomeIsRight ==
  ret \in {"nil", "errRestore"} =>
    /\ metrics.hit <=> Restored # {}
    /\ ret = "errRestore" <=> Workers # {} /\ Restored = {}

(***************************************************************************)
(* The exported cache_state never claims more than was restored: "complete"*)
(* means that no destination failed.                                       *)
(***************************************************************************)
CompleteIsTrue == metrics.state = "complete" => Restored = Workers /\ errs = {}

(***************************************************************************)
(* The goroutines do not lose each other's metadata: only a write that     *)
(* fails takes entries out of the file.                                    *)
(***************************************************************************)
MetadataKeepsEntries ==
  [][metadata.entries \subseteq metadata'.entries
       \/ \E i \in Workers : WriteMetadataFails(i)]_vars

(***************************************************************************)
(* Trouble with the metadata file (unreadable, truncated by a killed run)  *)
(* keeps nobody waiting: Restore always returns.                           *)
(***************************************************************************)
RestoreReturns == <>(pc = "returned")

(***************************************************************************)
(* What main.go:336 says of fail-restore-if-key-not-present: the restore   *)
(* fails if the key does not exist.                                        *)
(***************************************************************************)
FailsIfKeyNotPresent ==
  call.failIfKeyNotPresent /\ call.dsts = <<>> /\ ret = "nil" =>
    \E o \in remote : o \in Exact
=============================================================================
