------------------------------ MODULE AutoPlan ------------------------------
(***************************************************************************)
(* Plugin.Exec (internal/plugin/plugin.go) in the steps of one stage, and  *)
(* the plan by which a restore tells the save of its stage that it fell    *)
(* back to package.json (internal/plugin/autodetect/auto_key.go).          *)
(*                                                                         *)
(* The steps of a stage run in batches on one workspace: those of a batch  *)
(* at the same time, a batch when the one before it has ended.  A batch    *)
(* may be the build, which generates files.  Steps can be killed.          *)
(***************************************************************************)
EXTENDS AutoDetect

CONSTANTS
  Step,       \* the steps of the stage
  Scenarios   \* workspace, environment, batches, what the steps are asked for

(***************************************************************************)
(* What a step is asked for: restore and/or rebuild, auto_detect, whether  *)
(* it names paths (Mount), and its cache_key ("" is none, "bad" does not   *)
(* parse).                                                                 *)
(***************************************************************************)
Settled == [restore: BOOLEAN, rebuild: BOOLEAN, auto: BOOLEAN, path: BOOLEAN,
            key: {"", "user", "bad"}]

(* How the plan's path comes out: HARNESS_TMP_PATH unset, no execution id. *)
PlanPath == {"ok", "unset", "noScope"}

ASSUME AutoPlanAssumption ==
  /\ Step \cap {"nobody", "build"} = {}
  /\ \A s \in Scenarios :
       /\ IsWorkspace(s.ws) /\ s.generated \subseteq Dir \X File
       /\ s.settings \in [Step -> Settled]
       /\ s.planPath \in PlanPath
       /\ s.batches \in Seq(SUBSET Step \cup {{"build"}})
       /\ s.faults \in Nat

VARIABLES
  scenario,  \* what this behaviour is about
  faults,    \* operations on the plan that failed, and kills (bound: scenario.faults)
  batch,     \* the batch that runs
  ws,        \* the workspace
  plan,      \* the plan file of the stage
  left,      \* steps whose temporary file is still there
  pc,        \* where each step is
  local      \* the variables of Exec

vars == <<scenario, faults, batch, ws, plan, left, pc, local>>

NoPlan == [writer |-> "nobody", key |-> <<>>, dirs |-> {}]
UserPath == {<<"user", "path">>}

Idle == [fallbackPlan |-> NoPlan, found |-> FALSE, used |-> FALSE,
         cacheKey |-> <<>>, dirs |-> {}, operated |-> FALSE]

Init ==
  /\ scenario \in Scenarios
  /\ faults = 0
  /\ batch = 1
  /\ ws = scenario.ws
  /\ plan = NoPlan
  /\ left = {}
  /\ pc = [s \in Step |-> "waiting"]
  /\ local = [s \in Step |-> Idle]

Ended == {"ok", "skipped", "error", "killed"}

Running == IF batch \in DOMAIN scenario.batches THEN scenario.batches[batch] ELSE {}

Cfg(s) == scenario.settings[s]
Overridden(s) == Cfg(s).path \/ Cfg(s).key # ""

Go(s, from, to) == s \in Running /\ pc[s] = from /\ pc' = [pc EXCEPT ![s] = to]

Fault == faults < scenario.faults /\ faults' = faults + 1

-----------------------------------------------------------------------------
(* The stage *)

Built(files) ==
  [f \in DOMAIN files \cup scenario.generated |->
     IF f \in scenario.generated THEN <<"generated">> ELSE files[f]]

NextBatch ==
  /\ batch \in DOMAIN scenario.batches
  /\ \A s \in Running \cap Step : pc[s] \in Ended
  /\ batch' = batch + 1
  /\ ws' = IF Running = {"build"} THEN Built(ws) ELSE ws
  /\ UNCHANGED <<scenario, faults, plan, left, pc, local>>

(* A temporary file and what was renamed stay behind. *)
Kill(s) ==
  /\ s \in Running /\ pc[s] \notin Ended
  /\ Fault
  /\ pc' = [pc EXCEPT ![s] = "killed"]
  /\ UNCHANGED <<scenario, batch, ws, plan, left, local>>

-----------------------------------------------------------------------------
(* Exec, up to the detection *)

(* The parameters; without auto_detect the key is a template or the branch. *)
RefuseBoth(s) ==
  /\ Cfg(s).rebuild /\ Cfg(s).restore
  /\ Go(s, "waiting", "error")
  /\ UNCHANGED <<scenario, faults, batch, ws, plan, left, local>>

WithoutAutoDetect(s) ==
  /\ ~ (Cfg(s).rebuild /\ Cfg(s).restore) /\ ~ Cfg(s).auto
  /\ Go(s, "waiting", IF Cfg(s).key = "bad" THEN "error" ELSE "operate")
  /\ local' = [local EXCEPT ![s].cacheKey = IF Cfg(s).key = "" THEN <<"branch">> ELSE <<Cfg(s).key>>,
                            ![s].dirs = IF Cfg(s).path THEN UserPath ELSE {}]
  /\ UNCHANGED <<scenario, faults, batch, ws, plan, left>>

MutantReadsPlan(s) == Cfg(s).restore /\ ~ Overridden(s) /\ scenario.planPath # "unset"

readsPlan(s) == Cfg(s).rebuild /\ ~ Overridden(s) /\ scenario.planPath # "unset"

AutoDetectStart(s) ==
  /\ ~ (Cfg(s).rebuild /\ Cfg(s).restore) /\ Cfg(s).auto
  /\ Go(s, "waiting", IF ~ readsPlan(s) THEN "detect"
                      ELSE IF scenario.planPath = "noScope" THEN "unreadable" ELSE "validate")
  /\ UNCHANGED <<scenario, faults, batch, ws, plan, left, local>>

(* ReadAutoDetectPlan: Lstat, then open, then compare and read. *)
ValidatePlanFile(s) ==
  /\ \/ Go(s, "validate", IF plan = NoPlan THEN "detect" ELSE "open") /\ UNCHANGED faults
     \/ Go(s, "validate", "unreadable") /\ Fault
  /\ UNCHANGED <<scenario, batch, ws, plan, left, local>>

OpenPlan(s) ==
  /\ Go(s, "open", IF plan = NoPlan THEN "unreadable" ELSE "compare")
  /\ local' = [local EXCEPT ![s].fallbackPlan = plan]
  /\ UNCHANGED <<scenario, faults, batch, ws, plan, left>>

(* "plan changed while opening", and every error of reading and decoding. *)
ReadPlan(s) ==
  LET same == plan = local[s].fallbackPlan IN
  /\ \/ same /\ Go(s, "compare", "detect") /\ UNCHANGED faults
     \/ ~ same /\ Go(s, "compare", "unreadable") /\ UNCHANGED faults
     \/ Go(s, "compare", "unreadable") /\ Fault
  /\ local' = [local EXCEPT ![s].found = pc'[s] = "detect"]
  /\ UNCHANGED <<scenario, batch, ws, plan, left>>

(* RemoveAutoDetectPlan: its errors are ignored. *)
DropUnreadablePlan(s) ==
  /\ Go(s, "unreadable", "detect")
  /\ \/ plan' = NoPlan /\ scenario.planPath = "ok" /\ UNCHANGED faults
     \/ plan' = plan /\ scenario.planPath # "ok" /\ UNCHANGED faults
     \/ plan' = plan /\ Fault
  /\ local' = [local EXCEPT ![s].fallbackPlan = NoPlan]
  /\ UNCHANGED <<scenario, batch, ws, left>>

-----------------------------------------------------------------------------
(* The key and the directories *)

detected(s) == detectDirectoriesToCache(ws, scenario.env, Cfg(s).path, local[s].found)

(* A key of the user's, the sums, or "default"; the plan's if one was found. *)
resolvedKey(s, hashes) ==
  IF Cfg(s).key # "" THEN <<Cfg(s).key>>
  ELSE IF local[s].found THEN local[s].fallbackPlan.key
  ELSE IF hashes = <<>> THEN <<"default">> ELSE hashes

MutantFilterPathsForPlan(dirs, pathIDs) == dirs

(* PathIdentities are as good as the paths. *)
FilterPathsForPlan(dirs, pathIDs) == dirs \cap pathIDs

resolvedDirs(s, dirs) ==
  IF Cfg(s).path THEN UserPath
  ELSE IF local[s].found THEN FilterPathsForPlan(dirs, local[s].fallbackPlan.dirs) ELSE dirs

recordsPlan(s, result) ==
  /\ Cfg(s).restore /\ ~ Overridden(s) /\ result.tools # {}
  /\ NpmPackageJSONFallbackDetected(result.ws)

afterDetection(s, result) ==
  IF result.failed THEN "error"
  ELSE CASE recordsPlan(s, result) -> "write"
         [] result.tools = {} /\ ~ local[s].found /\ ~ Overridden(s) -> "skipped"
         [] Cfg(s).key = "bad"     -> "error"
         [] OTHER                  -> "operate"

(***************************************************************************)
(* One step stands for all that a detection reads and writes: steps of one *)
(* batch do not interleave within it, a preparer that cannot read or write *)
(* its file is not among those that fail, and a kill does not leave a file *)
(* cut off in the middle of os.WriteFile.                                  *)
(***************************************************************************)
Detect(s) ==
  /\ pc[s] = "detect" /\ s \in Running
  /\ \E result \in {detected(s)} :
       /\ Go(s, "detect", afterDetection(s, result))
       /\ ws' = result.ws
       /\ local' = IF result.failed THEN local
                   ELSE [local EXCEPT ![s].cacheKey = resolvedKey(s, result.hashes),
                                      ![s].dirs = resolvedDirs(s, result.dirs),
                                      ![s].used = local[s].found]
  /\ UNCHANGED <<scenario, faults, batch, plan, left>>

-----------------------------------------------------------------------------
(* WriteAutoDetectPlan: a failure is only logged *)

PlanOf(s) == [writer |-> s, key |-> local[s].cacheKey, dirs |-> local[s].dirs]

MutantNotWritten == "write"

NotWritten == "operate"

CreateTemp(s) ==
  /\ \/ scenario.planPath = "ok" /\ Go(s, "write", "rename") /\ UNCHANGED faults
     \/ scenario.planPath # "ok" /\ Go(s, "write", NotWritten) /\ UNCHANGED faults
     \/ Go(s, "write", NotWritten) /\ Fault
  /\ left' = IF pc'[s] = "rename" THEN left \cup {s} ELSE left
  /\ UNCHANGED <<scenario, batch, ws, plan, local>>

MutantTempRemoved(s) == left

(* defer os.Remove(tmpPath) *)
TempRemoved(s) == left \ {s}

Rename(s) ==
  /\ Go(s, "rename", "operate")
  /\ \/ plan' = PlanOf(s) /\ UNCHANGED faults
     \/ plan' = plan /\ Fault
  /\ left' = TempRemoved(s)
  /\ UNCHANGED <<scenario, batch, ws, local>>

-----------------------------------------------------------------------------
(* The cache: initialising the backend, Rebuild or Restore *)

MutantAfterOperation(s, succeeds) ==
  IF local[s].used THEN "consume" ELSE IF succeeds THEN "ok" ELSE "error"

AfterOperation(s, succeeds) ==
  IF ~ succeeds THEN "error" ELSE IF local[s].used THEN "consume" ELSE "ok"

Operate(s) ==
  \E succeeds \in BOOLEAN :
  /\ Go(s, "operate", AfterOperation(s, succeeds))
  /\ local' = [local EXCEPT ![s].operated = succeeds /\ (Cfg(s).restore \/ Cfg(s).rebuild)]
  /\ UNCHANGED <<scenario, faults, batch, ws, plan, left>>

ConsumePlan(s) ==
  /\ Go(s, "consume", "ok")
  /\ \/ plan' = NoPlan /\ UNCHANGED faults
     \/ plan' = plan /\ Fault
  /\ UNCHANGED <<scenario, batch, ws, left, local>>

StepAction(s) ==
  \/ RefuseBoth(s) \/ WithoutAutoDetect(s) \/ AutoDetectStart(s)
  \/ ValidatePlanFile(s) \/ OpenPlan(s) \/ ReadPlan(s) \/ DropUnreadablePlan(s)
  \/ Detect(s) \/ CreateTemp(s) \/ Rename(s) \/ Operate(s) \/ ConsumePlan(s)

Next == NextBatch \/ \E s \in Step : Kill(s) \/ StepAction(s)

Spec == Init /\ [][Next]_vars

(* Every process is scheduled, and the pipeline goes on to the next batch. *)
FairSpec == Spec /\ WF_vars(NextBatch) /\ \A s \in Step : WF_vars(StepAction(s))

-----------------------------------------------------------------------------
(* A step's temporary file is there while it writes the plan; killed, it stays. *)
TempFiles ==
  /\ {s \in Step : pc[s] = "rename"} \subseteq left
  /\ \A s \in left : pc[s] \in {"rename", "killed"}

StageTypes ==
  /\ scenario \in Scenarios
  /\ faults \in 0..scenario.faults
  /\ batch \in 1..Len(scenario.batches) + 1
  /\ plan.writer \in Step \cup {"nobody"}
  /\ left \subseteq Step
  /\ pc \in [Step -> Ended \cup {"waiting", "validate", "open", "compare", "unreadable",
                                 "detect", "write", "rename", "operate", "consume"}]

(* The variables keep their types, and temporary files do not pile up. *)
TypeOK ==
  /\ StageTypes
  /\ IsWorkspace(ws)
  /\ TempFiles

(* A step that leaves all to the detection. *)
Automatic(s) == Cfg(s).auto /\ ~ Overridden(s)

Restored(s) == Automatic(s) /\ Cfg(s).restore /\ local[s].cacheKey # <<>>
Saved(s)    == Automatic(s) /\ Cfg(s).rebuild /\ pc[s] = "ok"

(* Steps that run before anything is built, and the others. *)
BeforeBuild ==
  {s \in Step : \E i \in DOMAIN scenario.batches :
     s \in scenario.batches[i] /\ \A j \in 1..i-1 : scenario.batches[j] # {"build"}}

AfterBuild == Step \ BeforeBuild

(***************************************************************************)
(* The build generates nothing that the keys depend on, or only locks of   *)
(* npm and yarn in a checkout that has package.json alone.                 *)
(***************************************************************************)
onlyNpmLocks ==
  \/ scenario.generated = {}
  \/ /\ NpmPackageJSONFallbackDetected(scenario.ws)
     /\ \A f \in scenario.generated :
          \/ f[2] = "package-lock.json"
          \/ f[2] = "yarn.lock" /\ \A r \in AfterBuild : ~ Cfg(r).restore

(* Saves and restores do not run at the same time. *)
apart ==
  \A i \in DOMAIN scenario.batches : \A s, r \in scenario.batches[i] \cap Step :
    ~ (Cfg(s).rebuild /\ Cfg(r).restore)

(***************************************************************************)
(* What a save stores is under the key that the restores of the same       *)
(* commit ask for, although the build generated lock files in between and  *)
(* the preparers of both steps rewrote configuration: if nothing was       *)
(* killed or failed on the plan, and no other save had consumed it.  A     *)
(* failed save may come before it, and so may a repeated restore, except   *)
(* that after a build which generated yarn.lock it records another plan.   *)
(* After a build the save needs the plan: a restore came before the build, *)
(* and no save that ran beside another restore dropped what that restore   *)
(* had replaced under its hands ("plan changed while opening").            *)
(***************************************************************************)
SavedUnderTheRestoredKey ==
  \A s, r \in Step :
    /\ Saved(s) /\ Restored(r) /\ faults = 0 /\ onlyNpmLocks /\ scenario.planPath = "ok"
    /\ \A t \in Step \ {s} : ~ Saved(t)
    /\ s \in AfterBuild => r \in BeforeBuild /\ apart
    => local[s].cacheKey = detectDirectoriesToCache(scenario.ws, scenario.env, FALSE, FALSE).hashes

(***************************************************************************)
(* "FilterPathsForPlan only removes paths": a save with a plan stores      *)
(* nothing but paths a restore of the stage asked for, under the key it    *)
(* asked for, whatever the build has generated and whoever was killed.     *)
(***************************************************************************)
PlannedSaveIsARestores ==
  \A s \in Step : local[s].used =>
    \E r \in Step :
      /\ Restored(r)
      /\ local[s].cacheKey = local[r].cacheKey
      /\ local[s].dirs \subseteq local[r].dirs

(* There is one yarn.lock at most, also after the build. *)
oneYarnLock ==
  \A f, g \in DOMAIN scenario.ws \cup scenario.generated :
    f[2] = "yarn.lock" /\ g[2] = "yarn.lock" => f = g

(***************************************************************************)
(* It leaves none of them out if package.json still names the tool: lock   *)
(* files of npm that the build generated do not take away what the restore *)
(* asked for.                                                              *)
(***************************************************************************)
PlannedSaveStoresAll ==
  onlyNpmLocks /\ oneYarnLock =>
    \A s \in Step : local[s].used =>
      \E r \in Step :
        /\ Restored(r)
        /\ local[s].cacheKey = local[r].cacheKey
        /\ local[s].dirs = local[r].dirs

(***************************************************************************)
(* The plan goes away when a save that used it has succeeded, so that a    *)
(* failed save can be repeated, or when a save could not read it.  A save  *)
(* removes the file by its name: that it is the plan the save has used,    *)
(* and not a later one that no save has used yet, holds if saves do not    *)
(* run beside restores.                                                    *)
(***************************************************************************)
PlanOutlivesFailure ==
  [][plan # NoPlan /\ plan' = NoPlan =>
       \E s \in Step :
         \/ pc[s] = "unreadable" /\ pc'[s] = "detect"
         \/ /\ pc[s] = "consume" /\ pc'[s] = "ok"
            /\ local[s].operated /\ local[s].used
            /\ apart => local[s].fallbackPlan = plan]_vars

(***************************************************************************)
(* Where the configuration leads a tool (external): its last setting.      *)
(***************************************************************************)
Configured == [maven |-> ".mvn/maven.config", gradle |-> "gradle.properties", bazel |-> ".bazelrc",
               yarn |-> ".yarnrc", dotnet |-> "nuget.config", poetry |-> "poetry.toml",
               fastlane |-> ".bundle/config"]

uses(tool, dir) ==
  LET contents == Read(ws, dir, Configured[tool]) IN
  IF Settings(contents) # {} /\ contents[Max(Settings(contents))] = "own"
    THEN <<dir, Own[tool]>> ELSE Elsewhere(tool)

(* What a step stores or restores for a tool is where the tool is led. *)
LeadsTools ==
  \A s \in Step : \A tool \in DOMAIN Configured, d \in Dir :
    <<d, Own[tool]>> \in local[s].dirs => uses(tool, d) = <<d, Own[tool]>>

(***************************************************************************)
(* A build may write any file but these, and a file that a tool accepts    *)
(* sets a value once.                                                      *)
(***************************************************************************)
configurationIsTheProjects ==
  /\ \A f \in scenario.generated : f[2] \notin Range(Configured)
  /\ \A d \in Dir, file \in {"poetry.toml", ".bundle/config"} :
       \A i, j \in Settings(Read(scenario.ws, d, file)) : i = j

(***************************************************************************)
(* The files that are appended to whatever they end with end with a        *)
(* newline.  In one that does not, the setting becomes a part of the last  *)
(* line, and its tool is not led where the step stores.                    *)
(***************************************************************************)
appendedFilesEnd ==
  \A d \in Dir, file \in {".mvn/maven.config", ".bazelrc"} : LastLineEnds(Read(scenario.ws, d, file))

(***************************************************************************)
(* "configures the respective package manager to cache dependencies in     *)
(* repo-local directories": what a step stores or restores for a tool is   *)
(* where the configuration leads the tool, also after several steps have   *)
(* prepared the workspace, whatever the project had configured before, and *)
(* whether or not its files end with a newline, but for two of them.  (pip *)
(* keeps a setting of the project's, pipenv does not read .env for it, and *)
(* nobody configures go: these are not among Configured.)                  *)
(***************************************************************************)
StoresWhereToolsCache == configurationIsTheProjects /\ appendedFilesEnd => LeadsTools

(* Every step ends, and with it the stage. *)
StageEnds == <>(batch > Len(scenario.batches))
=============================================================================
