# drone-meltwater-cache in TLA+

A TLA+ model of the cache plugin: what a step decides when it detects build
tools (`internal/plugin`), what it does when it saves a cache
(`cache/rebuilder.go`) and when it restores one (`cache/restorer.go`), what one
upload and one download do between the archive and the storage backend, and how
the Harness backend transfers an archive in parts. TLC checks the modules on
small instances, TLAPS proves the safety properties of the save, the upload, the
restore and its entries, the download, the Harness backend and the plan for every
value of the constants.

## The system

One pipeline step is one process: `main.go` turns flags into a configuration,
`internal/plugin.Exec` detects build tools if asked to, builds the storage
backend and the `cache.Cache`, and calls `Rebuild` (save) or `Restore`. Several
steps, of one build or of several, may use the same remote storage at once, and
the steps of one stage share a workspace.

| component | state it keeps | operations | interacts with | hard behaviour |
|---|---|---|---|---|
| rebuilder | summary, results channel, the goroutine of each source | `Rebuild`, `rebuild` | storage (Exists, Put), archive (Create) | goroutines, check-then-upload, partial failure |
| upload pipe | pipe ends, archived size, error of Create | `rebuild`, `storage.Put`, backend `Put` | archiver and backend goroutines | unbuffered pipe, timeout, late writes, half archives |
| restorer | success counter, error list, metadata file | `Restore`, `restore`, `writeCacheMetadata` | storage (List, Get), archive (Extract), local files | unlocked counter, shared file, partial restore |
| listed entries | destinations and the entry of each | the loop over the entries | storage (List) | keys that begin with each other, names with the key in them |
| download pipe | pipe ends, what has been extracted | `restore`, `storage.Get`, backend `Get`, `Extract` | downloading goroutine, workspace | truncated objects, timeout, files that are already there |
| archives | the tar stream | `Create`, `Extract` of tar, gzip, zstd | local files, pipe | files that change, errors after a valid prefix |
| storage wrapper | a timeout | Get, Put, Exists, List, Delete (a stub) | backends | timeouts |
| filesystem, sftp, gcs, s3, azure | remote objects | Get, Put, Exists, List | storage service | when an upload becomes visible |
| harness backend and client | part list, worker pools | Get of parts, multipart Put, Exists, List | pre-signed URLs | worker pools, shared error variables, retries, shared part keys |
| flusher | none | `Flush` | List, Delete | none: Delete does nothing |
| plugin, auto-detection plan | plan file of the stage | `Exec`, write, read, remove the plan | restore step and save step | crashes, other steps of the stage, lock files a build generates |
| tool detection, preparers | configuration files | detect, prepare | workspace | repeated runs, settings of the project |
| key generators, command line, helpers | none | pure functions | | |

What makes each of them correct:

- *rebuilder*: nil means every scheduled source is stored; an error in the scan
  means nothing was uploaded; without override nothing that exists is replaced;
  the summary accounts for every source; the call returns.
- *upload pipe*: Put succeeds only with the whole archive; after a failure the
  object is at worst partial, and a backend that publishes in one step never
  publishes a part; no goroutine that archives stays blocked.
- *restorer*: failure exactly when there was something to restore and nothing
  was restored; "complete" only when everything was; no metadata is lost to
  another goroutine; the call returns.
- *listed entries*: every source of the key comes back to its own place, and
  nothing of another key.
- *download pipe*: a failed download is never taken for the end of the archive;
  success means that all the object has was restored, with its metadata; the
  restore returns whatever fails.
- *harness backend*: the parts complete the object in order and exactly once; a
  restore is the archive of one save; every call returns.
- *plan*: the save stores what its restore asked for, under the key it asked
  for, also if the save has to be repeated.
- *preparers*: what is stored for a tool is where the tool keeps its cache,
  however many steps have prepared the workspace.

## Modules

| module | models | source |
|---|---|---|
| `Rebuild` | concurrent calls of `Rebuild` on one storage | `cache/rebuilder.go`, `cache/missing_path_policy.go` |
| `RebuildInv` | the inductive invariants of `Rebuild` | |
| `RebuildProofs` | theorems about `Rebuild` | |
| `Upload` | the contract of one upload, which `Rebuild` relies on | `rebuilder.go` 246-305, `storage.go` 55-61 |
| `PutPipe` | archiver, pipe, `storage.Put`, backend; implements `Upload` | the same, `archive/tar/tar.go`, the backends' `Put` |
| `PutPipeProofs` | theorems about `PutPipe` | |
| `Restore` | one call of `Restore` with its goroutines | `cache/restorer.go` |
| `RestoreInv`, `RestoreProofs` | its inductive invariant, theorems | |
| `RestoreEntries` | which listed entries are restored, and where to | `cache/restorer.go` 96-237, the backends' `List` |
| `RestoreEntriesProofs` | theorems about `RestoreEntries` | |
| `Download` | the contract of one download, which `Restore` relies on | `restorer.go` 305-351, `tar.go` 226-330 |
| `GetPipe` | downloading goroutine, pipe, `storage.Get`, backend, extraction; implements `Download` | `restorer.go` 305-336, `storage.go` 47-53, `tar.go`, the backends' `Get` |
| `GetPipeProofs` | theorems about `GetPipe` | |
| `HarnessStore` | the storage of one key behind the cache service | `harness/http.go`, `harness.go` |
| `HarnessPut`, `HarnessGet` | one call of `Put`, of `Get`, with its goroutines | `storage/backend/harness/harness.go` |
| `Harness` | several calls of both on one store | |
| `HarnessProofs` | theorems about `Harness` | |
| `AutoDetect` | table of tools, detection, preparers, as functions of a workspace | `internal/plugin/autodetect` |
| `AutoPlan` | `Plugin.Exec` in the steps of a stage, and the plan file | `internal/plugin/plugin.go`, `autodetect/auto_key.go` |
| `AutoPlanProofs` | theorems about `AutoPlan` | |
| `SequenceLemmas` | parts of sequences, and of the flattening of a sequence of sequences | |
| `MC...` | instances for TLC | |

`RebuildInv`, `RestoreInv`, the proof modules and `MCRebuild`, `MCRestore` build
on one component each. `Harness` composes `HarnessPut` and `HarnessGet`, which
share `HarnessStore`; `AutoPlan` composes the steps with the functions of
`AutoDetect`; `PutPipe` refines `Upload`, whose outcomes are the ones an upload
has in `Rebuild`, and `GetPipe` refines `Download`. `Restore` takes a download as
one step that succeeds or fails (`GetPipe` is what happens inside) and the selection of entries as the constants
`Exact` and `Target` (`RestoreEntries` computes them).

### Rebuild

A member of `Run` is one call. `pc[r]` follows the function: `start` (sources
and key), `scan` (the loop of lines 119-149), `wait` (goroutines and
`wg.Wait`), `collect` (draining `results`), `returned`. `task[r][i]` is what
became of source i: skipped as missing or existing, scheduled, running in its
goroutine, answered (`ok`, `failed`), sent to the channel. `summary` has the
fields of `rebuildSummary`; `ChannelCapacity` is the argument of `make(chan
uploadResult, ...)`.

The storage maps a key and a normalised path to a content: absent, whole or
partial by a named source of a named call, or mixed. `Backend` says how an
upload becomes visible. `uploader` (S3, Azure, and the single PUT of harness)
publishes in one step; `writer` (GCS) publishes on closing the writer, which it
also does after a failed copy; `file` (filesystem, SFTP) truncates on open and
writes in place. A Put that failed may still have something under way (`late`):
`storage.Put` cancels a context and returns, the backend's goroutine or the
server is not necessarily done. `ExistsHonest = FALSE` is the harness backend,
whose `Exists` answers no when the request fails.

### Upload and PutPipe

`Upload` has two variables: what the caller of Put knows, and whether the
object is the previous one, a part, or the whole archive. `PutPipe` has the
goroutines: `archiver` (walk, trailer, close with an error or count and close),
the two pipe ends, `backend` (open, take a block, write it, end of file, close,
cleanup after an error) and `put`. A write to the pipe is one step that needs a
reader; a block is one archive member, or the trailer. `Create` writes the
trailer after an error too (the deferred Close), so an incomplete archive is
well formed, and `CloseWithError` is all that stops it. `ArchiveShrunkFile` is
a file that is shorter than its header says.

`Contract == INSTANCE Upload WITH object <- kind` is the refinement: `status`
and `kind` are the mapping.

### Restore

`pc` is `start`, `wait`, `returned`; `task[i]` follows goroutine i through
download and extraction, the metadata mutex, reading and writing the file, and
the two halves of `successCount++`. `Listing`, `Exact` and `Target` are what
List returns, which entries belong to the key itself, and which destination an
entry stands for; `Last` is what `sourcePaths` keeps of two entries with one
destination. `metadata` is the file: whether it parses and whose entries it
holds; `Init` includes a file that a killed step left unparsable.

### RestoreEntries

Paths are sequences of components. The code works on strings: it asks whether
the key is the beginning or the end of a component or is somewhere inside it,
and these relations between names are constants (`Begins`, `Ends`, `Within`).
`List` yields the entries with the prefix in any order, `TakeEntry` is one
iteration: the three tests of strict matching in their order, then the
destination, which is what follows the prefix or, when that contains the key or
begins with a dot, what follows the first component with the key in it.
`receiver` is the configuration: a backend may end the prefix with a separator
itself, the legacy service puts an account before the key. The properties are
about strict matching and leave out what the code cannot tell apart
(`Unambiguous`): a separator with a key of several components, objects of other
keys below the key, the source `.` beside a source that is named after the key,
and an account or a component of another key's object that is the key.

### Download and GetPipe

`Download` has what `restore()` returned, whether everything the object has was
read, the paths the object leads to (`reach`), and what is at each path. Until
the return `Extract` may change the paths in `reach`, after it nothing changes,
and it is a success only when everything was read.


`backend` and `get` are the goroutine of the backend and what `storage.Get`
makes of it, `writer` and `reader` the ends of the pipe. An archive is a
sequence of blocks that `Create` makes of its members, each path once
(`filepath.Walk`); the object has the first `stored` of them. `extractor`
follows `Extract` from header to header and through the body of a file, `ws` is
the workspace: for every path its kind, how many blocks of the archive it has
and how many older ones follow them, and whether its times are the archived
ones. The reading end of the pipe is closed with the error of `Extract`, the
writing end with the error of `Get`. `format` is what the archive is compressed
with, if at all: it decides where a stream may end without a trailer (`EndsWell`).
A plain one may wherever a header could start. A compressed one that is cut off is
an error of the decompressor, and so is an empty object for gzip, which looks for
its header first; zstd reads an empty object as an archive with nothing in it, and
`Extract` returns nil. A member that fails may be left half made (`HalfMade`): the
directory around it, a file that was opened, no entry where a link was to be made,
or a block that was written.

`Contract == INSTANCE Download WITH result <- ret` is the refinement. `reach` is
what the object lists, the directories that were missing around that, and what a
link points to that stood in the place of a file; `content` is the workspace
without its times, which also change around what is extracted.

### HarnessStore, HarnessPut, HarnessGet

The store has the object at the key, which is plain bytes or a manifest, and the
objects `key.part1`, ..., which every multipart upload of the key writes.
`HarnessPut` follows `Put` from the buffer to the checks of the size, the
distributor that cuts parts (`CutPart`), the workers that ask for a link, test
the error variable they all share (`partErr`), PUT the part and report, and
`Put` that collects, sorts (by rank: a part's place is the number of parts with
a lower number) and stores the manifest. `HarnessGet` has the first
request, the manifest, the workers with their shared error (`getErr`), the
checksum, and the second request for an object that is no manifest. A request
fails before it has an effect or after it; `faults` counts the failures.

### AutoDetect and AutoPlan

A workspace maps directory and file name to contents, a sequence of words in
which `own` is the setting a preparer writes, `custom` the same setting made by the
project, and `open` a last line without a newline. The preparers of gradle, yarn,
pip and bundle begin a new line (`AppendLine`), and those that rewrite the file line
by line do so too; the ones of maven and bazel append to whatever is there
(`AppendRaw`), and an open line and the setting become one line, `glued`, that is
neither. The names of files and the words are constants (`File`, `Word`),
of which `AutoDetectAssumption` asks no more than that the preparers' files and
words are among them. `detectDirectoriesToCache` goes through the table of 21
entries in order, as each sees the files the preparers before it have written.

`AutoPlan` runs the steps of a stage in batches; a batch is a set of steps at
the same time, or the build, which generates files. `pc` follows `Exec`: the
parameters, the plan in three steps (`Lstat`, open, compare and read), the
detection, writing the plan in two (temporary file, rename), the operation, the
removal of the plan. A step may be killed between any two of them, and each
operation on the plan may fail; `faults` bounds both. `Detect` is coarser than the
code: the detection with everything that the preparers read and write is one step.
So two steps of a batch prepare the workspace one after the other, whatever the
order, and never in the middle of each other's files; a step is not killed inside
the detection, where it could leave a configuration file cut off (`os.WriteFile`
truncates first); and of the errors of files only the one of dotnet is there.

What the properties of `AutoPlan` suppose of a stage is named, so that it can be
weighed:

- `onlyNpmLocks` (for `SavedUnderTheRestoredKey` and `PlannedSaveStoresAll`): the
  build generates nothing, or locks of npm and yarn in a checkout with
  `package.json` alone, which is what the plan is for. Any other file of the table
  that a build generates changes the key where there is no plan, and may take
  directories away from a save with one (a lock of bun or pnpm). With a generated `yarn.lock` no restore
  may come after the build: it would detect yarn, and record that.
- `s \in AfterBuild => r \in BeforeBuild`: a save after the build needs the plan
  of a restore before it.
- `apart`: saves and restores are in different batches. Without it a save that
  runs beside a second restore opens one plan, the restore replaces it under its
  hands ("plan changed while opening"), and the save removes the new plan as
  unreadable; a save after the build then has none and a key of its own. TLC finds
  this with the batches `{r}`, `{save, restore}`, build, `{s}`. Only a save after the
  build needs the hypothesis.
- `oneYarnLock` (for `PlannedSaveStoresAll`): `yarn` is prepared in one directory,
  and with two `yarn.lock` it need not be the one that the restore took.
- `configurationIsTheProjects` (for `StoresWhereToolsCache`): a build does not
  write the preparers' files, and `poetry.toml` and `.bundle/config` set a value
  once, since only the first setting is replaced or read there.
- `appendedFilesEnd` (for `StoresWhereToolsCache`): the project's `maven.config`
  and `.bazelrc`, if there are any, end with a newline. The checkout `Glued` of
  `MCAutoPlan` is one where they do not; without the hypothesis TLC finds that the
  first restore leaves the files with a glued line and records a directory that
  maven is not configured to use.

`StoresWhereToolsCache` is about the tools of `Configured`, whose configuration
file is known and decides. pipenv is none of them: it takes `PIPENV_CACHE_DIR` from
the environment, and `.env`, which the preparer writes, counts only if the user
exports it. Nor is pip, which keeps a `cache-dir` of the project's, nor uv, which
has a choice of two files, nor go, which nothing configures.

A save removes the plan by its name (`ConsumePlan`), whichever plan that is by then.
`PlanOutlivesFailure` says that it does so only after it has succeeded with a plan,
or when the plan is unreadable, and under `apart` that the plan it removes is the
one it used. Without `apart` TLC finds, with the batches `{r}`, `{s, t}`, that the
save `s` uses the plan of `r`, the restore `t` beside it puts its own in the place,
and `s` removes that one, which no save has used.

## Runs

| run | what it shows |
|---|---|
| `RebuildSolo` | one call, every policy and override, both key generators, no, one, two and twice the same source, a backend that writes in place: summary, scan errors, requirePresent, termination |
| `RebuildPair` | two calls, destinations shared or not, a backend that publishes in one step: the inductive invariant, success means stored whole, no override means not replaced |
| `RebuildExistsLies` | violation: an existence check that hides an error lets an existing object be replaced |
| `PutPipe` | three members, files that shrink, a backend that writes in place: the inductive invariant, success means whole, the size is final, the upload implements `Upload`, the archiver ends |
| `RestoreSafe` | configured and listed destinations, a backend without List too: outcome, completeness, metadata, and termination whatever the metadata file is |
| `RestoreKeyNotPresent` | violation: only an entry of a longer key exists and the restore still succeeds |
| `RestoreEntries` | every storage of up to two sources, one of them of the receiver's key, seven keys, eight paths, with and without separator, account and strict matching: sources come back to their places, nothing of another key does |
| `GetPipe` | a directory with a file and a link, a file alone, a name outside; whole, truncated and empty objects, plain and compressed by gzip and zstd; empty and used workspaces: success means that all the object has was restored, up to the trailer where the stream cannot end well without it, directories keep their times, the download implements `Download`, the restore ends |
| `GetPipeTail` | violation: a longer file of the workspace keeps its tail |
| `Harness` | one save in three parts, saves and restores at once, sizes and settings at their limits: a lone save is restorable, manifests list their parts, a restore from parts is one save's, every call returns |
| `HarnessGet` | violation: what the second request of Get answers is written whatever it is |
| `AutoPlan` | a restore, two other steps and a build in eight arrangements, over checkouts of all tools: keys and paths of restore and save agree, with a plan exactly those of the restore, preparers configure what is stored, a plan goes only by a save that succeeded with it or could not read it, the stage ends |

The four violations are listed with the sentences they contradict under
`findings` in `PROJECT.json`. `mutants` has, for every property of the other
runs, a change of a mapped definition that a bug could make and that the
property finds: `Mutant...` operators stand before the definitions they change.

**Bounds.** Two calls are enough for every race in `Rebuild`: a race has two
writers of one object, or one writer and one check. Two sources per call give
one that succeeds and one that fails, one scheduled before a scan error, two on
one object, and a results channel with more than one sender. Three archive
members in `PutPipe` give a first, a middle and a last one to fail at. Three
goroutines in `Restore` are one more than two increments need to hide each
other, and let one fail while two race. These modules need no bound on counters:
the number of sources or destinations limits them. The `SYMMETRY` on `Run` is
sound, as the two calls have the same set of configurations and the run with
symmetry checks no liveness.

`RestoreEntries` bounds the storage to two sources: a wrong entry is one that is
taken for another, and two entries on one destination are two sources. The names
are the shortest that have the key as their beginning, their end, or one of
their components, and the keys the ones that are related in the same ways.
`GetPipe` bounds an archive to three members and a file to two blocks: a block to
fail at, one before it and one after it. `Harness` has two saves, one restore,
two workers and parts of two bytes; `MaxTries = 2` where the code has more
attempts, since a first and a last attempt are the two cases of the code;
`scenario.faults` bounds the failing requests of a behaviour by two, which let a
part fail for good or two workers fail at once. The scenarios with two
saves have fewer workers or parts, because the product of all is not needed for a
race between two writers of one part. In `AutoPlan` at most one fault or kill
happens per behaviour, so that each happens at every place, in any of the three
steps; three steps give a repeated save, a repeated restore and two restores at
once.

**Deadlock** is checked wherever the specification has a step for the finished
system (`Rebuild`, by `AllReturned`). `CHECK_DEADLOCK FALSE` is set for
`PutPipe`, `Restore`, `GetPipe`, `Harness` and `AutoPlan`, where a liveness
property says that the end is reached, which subsumes it (in `Harness` goroutines
a failed `Put` leaves behind may stay blocked, and do), and in `RestoreEntries`,
a loop over a finite list.

**Fairness** is weak fairness of each call and of its goroutines: the Go
scheduler runs what can run. That a storage operation ends needs no fairness of
the network, because `storage.go` gives each operation a context with a timeout
and every backend selects on it, or hands it to its SDK; in the models the step
that fails is enabled as long as the operation runs (`UploadProgress` in
`Rebuild`, `GetTimesOut` in `GetPipe`, where a goroutine of the backend may hang
for ever). The Harness backend has no goroutine that selects: its requests carry
the context, so they are answered or fail. Nothing is assumed of `LateWrite`, nor
of `Kill`. In `AutoPlan` the pipeline goes on to the next batch when one has
ended. Only `EveryCallReturns`, `ArchiverEnds`, `RestoreReturns`, `RestoreEnds`,
`CallsReturn` and `StageEnds` use fairness.

## Proofs

| theorem | says | assumes |
|---|---|---|
| `RebuildProofs!SpecTypeOK` | types | |
| `RebuildProofs!SpecSummaryAccounts` | requested = missing + existing + uploaded + failed | |
| `RebuildProofs!SpecScanErrorStoresNothing` | no trace of a call that failed in its scan | |
| `RebuildProofs!SpecSuccessStoresArchive` | nil means stored whole | |
| `RebuildProofs!SpecNoOverrideKeepsExclusive` | what exists stays | `ExistsHonest` |
| `RebuildProofs!SpecRequirePresentCachesSomething` | nil under skipRequirePresent means that something is cached | |
| `RebuildProofs!SpecSavedIsWhole` | after nil every source has a whole archive at its key | `Backend = "uploader"` |
| `RebuildProofs!SpecIInv` | the inductive invariant | |
| `RebuildProofs!SpecNewObjectInv` | what an upload without override finds is new | `ExistsHonest` |
| `PutPipeProofs!SpecSuccessIsWhole` | success means all that Create made, and a final size, files that shrink included | |
| `PutPipeProofs!SpecSizeIsFinal` | the second half of `SpecSuccessIsWhole` | |
| `PutPipeProofs!SpecIInv` | the inductive invariant | |
| `PutPipeProofs!SpecImplementsUpload` | `PutPipe` implements `Upload` | |
| `RestoreProofs!SpecTypeOK` | types | |
| `RestoreProofs!SpecOutcomeIsRight` | hit and failure are right | |
| `RestoreProofs!SpecCompleteIsTrue` | complete means complete | |
| `RestoreProofs!SpecMetadataKeepsEntries` | entries survive | |
| `RestoreProofs!SpecIInv` | the inductive invariant | |
| `RestoreEntriesProofs!SpecTypeOK` | types; no destination is empty | |
| `RestoreEntriesProofs!SpecEverySourceComesBack` | every source of the key gets its own entry, at its own place | |
| `RestoreEntriesProofs!SpecNoOtherKeyIsRestored` | nothing of another key | |
| `GetPipeProofs!SpecTypeOK` | types | |
| `GetPipeProofs!SpecSuccessSawTheEnd` | success means the trailer was seen, or all of a plain or of an empty zstd object without an error of the download | |
| `GetPipeProofs!SpecSuccessRestoresMembers` | success means every member of the object is restored, with its content | |
| `GetPipeProofs!SpecDirectoriesKeepTheirTimes` | directories end with the archived times | |
| `GetPipeProofs!SpecImplementsDownload` | `GetPipe` implements `Download`: nothing changes beyond what the object leads to, nor after the return | |
| `HarnessProofs!SpecTypeOK` | types; attempts stay below their limit | |
| `HarnessProofs!SpecCombinedIsOneUpload` | a restore from parts is one save's archive | |
| `HarnessProofs!SpecManifestListsParts` | a manifest lists all parts of a save in order | |
| `HarnessProofs!SpecSoleUploadIsRestorable` | a lone save can be restored byte for byte | |
| `AutoPlanProofs!SpecPlanOutlivesFailure` | a plan goes only by a save that has succeeded with one, or when unreadable; it is the one the save used | the last under `apart` |
| `AutoPlanProofs!SpecPlannedSaveIsARestores` | a save with a plan stores what a restore asked for, under its key | |
| `AutoPlanProofs!SpecTypeOK` | types; the workspace stays one; what temporary files stay | |
| `AutoPlanProofs!SpecStoresWhereToolsCache` | what is stored for a tool is where its configuration leads it | `configurationIsTheProjects`, `appendedFilesEnd` |
| `AutoPlanProofs!SpecPlannedSaveStoresAll` | a save with a plan stores all that the restore asked for | `onlyNpmLocks`, `oneYarnLock` |
| `AutoPlanProofs!SpecSavedUnderTheRestoredKey` | the save has the key that the restores ask for | `onlyNpmLocks`, and `apart` after a build |

Besides `ExistsHonest` and `Backend` the theorems use the assumptions the modules
declare. `RebuildAssumption`, `PutPipeAssumption` and `RestoreAssumption` type the
constants. `GetPipeAssumption` says as well what an archive and a workspace are:
`Create` visits each path once (`Walk`), the object has no more blocks than the
archive, and nothing of the archive is in the workspace before (`Workspace`). What
symbolic links point to is a regular file or nothing (`Elsewhere`).
`HarnessAssumption` has at least one worker (`maxWorkers` is 10) and one attempt.
`RestoreEntriesAssumption` has that no name is longer than itself (`Within`), that
what begins or ends with a name contains it, and that a storage is finite.
`AutoPlanAssumption` has that `"nobody"`, who writes no plan, and `"build"` are no
steps, and types a scenario: any checkout, settings, batches, generated files and
number of faults. `AutoDetectAssumption` has that the files preparers write have
names and that their settings are words. What the last column lists for `AutoPlan`
are hypotheses inside the properties, explained above with the module.

*Rebuild.* None of the properties is inductive. `IInv` in `RebuildInv` has seven
parts. `PhaseInv` ties `task` to `pc` and to the position of the scan, which
gives that no upload runs before the scan is over. `TraceInv` says that an
object names a source only if that source's goroutine has started, and with
`PhaseInv` gives `ScanErrorStoresNothing`. `CountInv` equates each counter with
the number of tasks in the matching states, and the results channel with the
sent tasks not yet counted; `SummaryAccounts` is then arithmetic on the
cardinalities of a partition. `LateInv` says that only failed uploads have
something under way, and `StoredInv` that an exclusive upload that answered
`ok` is stored whole: it survives the other uploads' writes because they have
other objects, and its own late writes because it has none. `PresentInv` says
that what was found or uploaded is there, since no step removes an object, unless
the answer that was sent is a failure that will be counted; with `DecidedInv`
(a call past its scan has decided every source, and one that returns nil under
skipRequirePresent has one that was not missing) it gives
`RequirePresentCachesSomething`. `WholeInv`, for a backend that publishes in one
step, makes what is present whole, for `SavedIsWhole`.
`NewObjectInv` (an object whose source was scheduled without override was not
there, or is the upload's own) is proved separately from `ExistsHonest`.

*PutPipe.* `ArchiverInv` follows the error of `Create` to the way the pipe is
closed: end of file only without an error, and only after the size is counted.
`BackendInv` then has that a backend that saw the end of file holds the whole
archive. `NextPipe` is the inductive step; the refinement has one step per
action, mapped to a step of `Upload` or to a stutter.

*Restore.* `Tally` is the argument that losing increments is harmless: as soon
as one goroutine is done the count is positive, because every write writes at
least one; and it never exceeds the number of goroutines that are done, because
what a goroutine has read does not either. `Outcome` ties what was returned to
it, `Locked` says that only the holder of the mutex is between reading and
writing the metadata and that its copy is still the file's content.

*RestoreEntries.* The loop's invariant is `LoopInv`: what it has still to reach
was listed, each destination has an entry that was listed and selected and whose
destination it is (`PlacesInv`), and no such entry is lost: it is still to come or
its destination is taken (`NoneLost`). The rest is about the operators:
`OnlyOwnEntries` shows that an entry that is listed and selected was saved under
the key, and `OwnDestination` that the entry of a source goes to the path of the
source, the first component with the key in it being the key itself, and the entry
of the source `.` to the prefix. Hence two entries of the key meet in one
destination only if one of them is of `.`, which `Unambiguous` excludes.

*GetPipe.* What Extract sees as the end of a stream without a trailer is the
pipe's end of file. `CopyInv` follows it back: end of file only after Get
returned nil, nil only after the backend's goroutine had written all that is
stored, and nothing is sent after that; so what ends well without a trailer
(`EndsWell`) is a plain object that was read to its end, or an empty one of zstd. An error of the download closes the pipe
with an error, which Extract returns. `PlaceInv` keeps the extractor in step with
the pipe: the last block that was sent is the header, or the k-th block of the
content, of the member it is at. That rests on where the blocks of a member are in
the archive (`FlattenSeqLayout` of `SequenceLemmas`). `MembersInv` then says of
every member whose header was sent, and whose path nothing else leads to, that it
has what was sent of it, followed by what a longer old file had beyond that; no
later member disturbs it, as each path is visited once. The times of directories
are set by the last step, after which nothing is created. For the refinement
`KindInv` says that no path disappears and that every link was there before or is a
member, so that what the extractor finds absent, and the links it writes through,
were so from the start and count in `reach` (`ListedReach`); a step of the extractor
is one of `Download`'s `Extract`, a failure its `Fail`, `Finish` its `Succeed`
(`FinishComplete`), and all else a stutter.

*Harness.* Part objects are shared by all saves of a key, so nothing can be said
of them. `HInv` says that the checksum of every manifest, stored or read, is the
content of one save; `Combine` compares the sum of what it has read with it,
which is all that makes `CombinedIsOneUpload` true. `UploadInv` is about one save:
what was cut off and what is left of the buffer are the content (`CutInv`), every
part that was given to a worker is in hand, reported or listed, in one place only
(`HeldInv`), and the goroutines have ended when Put returns nil (`PhaseInv`). So
the list has every part once when it is as long as the number of parts, and sorted
it is 1, 2, ..., n: a list of n different numbers of 1..n, ordered by rank.
`SavedInv` says, of a save that no other save has met, that a part which a worker
has done without a failure is stored under its name and that the object at the end
is the manifest of all of them.

*AutoPlan.* `PlanInv` says that only a save looks for a plan and that it comes to
remove it after its operation only if that succeeded and the plan was in use.
The only other removal is of a plan the step could not read. That the plan a save
removes is the one it used is `UsedInv`: a save that holds a plan holds the one that
is there, as long as there is one. A plan is replaced only by a restore, which under
`apart` does not run while a save holds one (`NoRestoreBeside`). `OriginInv` follows
a plan from the restore to the save: the file, what a save has opened and compared,
what it has found, and what it takes for its own key and directories all come from
a restore past its detection, whose key and directories change no more; a step with
a key or path of the user's never gets that far, and what is filtered only shrinks.
`StageInv` is the bookkeeping of temporary files.

*What the detection computes.* The other theorems of `AutoPlan` depend on it. The
function `upTo` in `detectDirectoriesToCache` is shown to be a loop over the table
(`DetectionIsLoop`), so that a fact about a detection is one about an entry
(`DetectTool`) and the least entry that breaks it. Three such facts are used.

- An entry leaves a workspace in which every file is as it was or is what a
  preparer makes of it (`Rewrote`). By what `AppendRaw`, `AppendLine`, `Keep`,
  `UpsertTOML` and `upsertEnv` do to the positions of the settings (`RawSets`,
  `AppendSets`, `KeepSets`, `UpsertSets`, `EnvSets`), such a file leads its tool to the tool's own directory
  and no tool that was led there is led away (`BecomesOwn`, `RewroteLeads`,
  `PreparedLeads`). A file of maven or bazel has to end with a newline
  for that, and does so again afterwards (`RawEnd`, `ExpectedFiles`). So `LeadsInv`,
  that the configuration leads the tools to what every step has found, is kept by a detection of any step. It gives
  `StoresWhereToolsCache`, and `WorkspaceInv` the type of the workspace.
- A detection does not see what preparers write: two workspaces that differ in
  nothing else, and in which dotnet is refused and bundle led elsewhere in the same
  directories, are `Alike`, and detections of alike workspaces find the same
  directories, tools and sums (`SameDetection`). `pyproject.toml` is the exception
  that needs an argument: uv rewrites it, but then `uv.lock` is there, which
  excludes it. `BaseInv` says that the workspace is alike to the checkout, or, once
  the build has run, to what the build makes of the checkout.
- With a plan, a detection of the built checkout finds all directories that the
  restore found in the checkout (`ForcedFindsAll`): npm's lock is passed over, and
  where a generated `yarn.lock` excludes `package.json`, yarn is found in the same
  directory and takes the same `node_modules` (`NodeOrYarn`).

*The key of a save.* `Turns` says whose turn it is, hence that restores before the
build have ended after it and steps after it have not begun before it
(`BuildDivides`). `StartInv` then has that every plan is what the checkout says: the
file, what a save has opened and found, what a restore is about to write; a save
with a plan has that key, and so has one without, unless it comes after a build that
generated something. `StateInv`, the conjunction of `PlanInv`, `WorkspaceInv`,
`BaseInv`, `OriginInv`, `Turns`, `LocalInv` and `StartInv`, is inductive with
`LeadsInv` and gives `PlannedSaveStoresAll`. That a save after the build does have
a plan is a matter of nothing getting lost: `HeldInv` says, where nothing fails and
saves and restores keep apart, that a plan which was recorded is there until a save
that used it has succeeded, at each step of reading it. With `StateInv` it gives
`SavedUnderTheRestoredKey`.

**Only model-checked**: the liveness properties `EveryCallReturns`, `ArchiverEnds`,
`RestoreReturns`, `RestoreEnds`, `CallsReturn` and `StageEnds`, since liveness under
fairness is out of the prover's reach. Every invariant and action property of the
passing runs is a theorem. Recursion is reasoned about by the least element of a set
of numbers (`LeastElement`, `UpToSize`), without the induction theorems, whose
operator arguments no backend can instantiate: `FlattenSeqLayout` and
`DetectionIsLoop` are proved so.

## What the code does and no property claims

- A file that is the last of an archive and shrinks while it is read leaves an
  archive without a trailer, which `Create` takes for a success, because only
  the error of the deferred Close tells. `SuccessIsWhole` counts it as whole
  (`AsWhole`).
- Two sources whose normalised paths are equal are uploaded to one object, also
  without override: both are found absent in the scan.
- The filesystem and SFTP backends write in place: concurrent uploads to one key
  mix, and a failed one leaves a part.
- `successCount` may lose increments, so a complete restore may be reported as
  partial. `OutcomeIsRight` and `CompleteIsTrue` say what holds nevertheless.
- A plain archive truncated where a header could start restores as a success, and
  an empty object does if the format is zstd; gzip refuses it.
- A `maven.config` or `.bazelrc` without a newline at its end takes the setting
  into its last line, and the step goes on as if the tool were configured.
- Entries without a destination, keys below other keys, several components with
  `enable-cache-key-separator`, and an account whose name contains the key: see
  `Unambiguous` in `RestoreEntries`.
- When a part fails, `Put` of the Harness backend returns and leaves goroutines
  blocked until the process ends.
- A second save of a key overwrites the parts of the first before its manifest
  replaces the first manifest: restores in between fail on the checksum.
- A stage with two pairs of automatic steps has one plan: the second restore
  replaces the first one's, and a save that reads at that moment removes it. A restore repeated after a build that generated
  `yarn.lock` replaces the plan as well.
- After a build that generates a lock of bun or pnpm the planned save has no
  directory left; a generated `Gemfile.lock`, `Podfile.lock` or
  `Package.resolved` changes the key of a save without a plan.
- pip keeps a `cache-dir` of the project's while `.cache/pip` is stored;
  nothing configures go to use `.go`; writing `nuget.config` loses what the
  plugin does not parse, and an error of the write is dropped.

## Abstractions

Keys, paths, archives and names are model values: key generation and path
normalisation enter as the values they return (`key`, `fallback`, `NormPath`),
with their failures as steps. Bytes are blocks, or positions in an archive;
checksums stand for what was summed. Compression, headers, logging and the text
of errors are left out, except for what each format takes for the end of a stream. How
the cache service's requests are put together is left out: a request for a link
succeeds or fails. A Get with its extraction is one step of `Restore`. The
workspace has two levels, as far as detection looks, and only the files that the
table and the preparers name; a file that cannot be read or written is left out,
except where a preparer refuses it, and preparing is one step (see `AutoDetect and
AutoPlan`). A symbolic link that leads to a directory is
left out of `GetPipe`: `MkdirAll` would go on through it, as it does not through a
link to a file.

## Not modelled

- *flusher*: `storage.Delete` does nothing, so no call of it changes state.
- *cache facade and options, command line*: they pass configuration on; its
  values are the constants of the models.
- *key generators*: functions from strings to strings; what they return is an
  input.
- *credentials, connections, token exchange, configuration of the backends*:
  input and output without a protocol of this code.
- *hard links and device nodes* in archives: `Create` does not write them.
- *test helpers*.

## Plan

Done, in the order of importance: `Rebuild`, `Upload` and `PutPipe`, `Restore`,
then `HarnessStore`, `HarnessPut`, `HarnessGet` and `Harness`, `GetPipe`,
`RestoreEntries`, `AutoDetect` and `AutoPlan`, each model checked, and the safety
properties of all of them proved; last `Download`, which `GetPipe` implements.
