--------------------------- MODULE AutoPlanProofs ---------------------------
(***************************************************************************)
(* Proofs about AutoPlan, for any steps, batches, checkouts, environments  *)
(* and faults.  The first part is about the detection (AutoDetect): it is  *)
(* a loop over the table of the tools, each entry of which keeps the files *)
(* in shape, leads the tools to what it caches, and finds the same in      *)
(* workspaces that differ in what preparers write.  The second part is     *)
(* about the plan file, the third about stages, where a save after the     *)
(* build meets what a restore before it asked for.                         *)
(***************************************************************************)
EXTENDS AutoPlan, SequenceLemmas, SequenceTheorems, FiniteSetTheorems, TLAPS

(* The table of the tools. *)
Size == 21

Entry(info, glob, tool, preparer, hash, all, exclude) ==
  /\ info.glob = glob /\ info.tool = tool /\ info.preparer = preparer
  /\ info.hash = hash /\ info.all = all /\ info.exclude = exclude

Plainly(info, glob, tool) == Entry(info, glob, tool, tool, "", FALSE, {})

(* Its n-th entry. *)
Info(n) == buildToolInfoMapping[n]

(* What the entries of the table are. *)
LEMMA Table ==
  /\ Len(buildToolInfoMapping) = Size
  /\ Plainly(Info(1), "pom.xml", "maven")
  /\ Plainly(Info(2), "build.gradle.kts", "gradle")
  /\ Plainly(Info(3), "build.gradle", "gradle")
  /\ Entry(Info(4), "MODULE.bazel", "bazel", "bzlmod", "", FALSE, {})
  /\ Plainly(Info(5), "WORKSPACE", "bazel")
  /\ Plainly(Info(6), "package-lock.json", "node")
  /\ Entry(Info(7), "package.json", "node", "fallback", "", FALSE, NodeLocks)
  /\ Entry(Info(8), "yarn.lock", "yarn", "yarn", "package.json", FALSE, {})
  /\ Plainly(Info(9), "go.mod", "golang")
  /\ Entry(Info(10), "*.csproj", "dotnet", "dotnet", "", TRUE, {})
  /\ Entry(Info(11), "*.vbproj", "dotnet", "dotnet", "", TRUE, {})
  /\ Entry(Info(12), "*.fsproj", "dotnet", "dotnet", "", TRUE, {})
  /\ Plainly(Info(13), "poetry.lock", "poetry")
  /\ Plainly(Info(14), "uv.lock", "uv")
  /\ Plainly(Info(15), "Pipfile.lock", "pipenv")
  /\ Plainly(Info(16), "requirements.txt", "pip")
  /\ Plainly(Info(17), "constraints.txt", "pip")
  /\ Entry(Info(18), "pyproject.toml", "pip", "pip", "", FALSE, PythonLocks)
  /\ Entry(Info(19), "Gemfile", "fastlane", "fastlane", "Gemfile.lock", FALSE, {})
  /\ Entry(Info(20), "Podfile", "cocoapods", "cocoapods", "Podfile.lock", FALSE, {})
  /\ Entry(Info(21), "Package.swift", "spm", "spm", "Package.resolved", FALSE, {})
BY DEF Info, buildToolInfoMapping, Tool, NoBlockers, Entry, Plainly, Size

(***************************************************************************)
(* The loop: run[n] is what the first n entries have led to.               *)
(***************************************************************************)
Loop(run, w, env, force, size) ==
  /\ run \in [0..size -> {run[n] : n \in 0..size}]
  /\ run[0] = Nothing(w)
  /\ \A n \in 1..size : run[n] = DetectTool(run[n-1], env, Info(n), force)

(* There is such a loop for every number of entries. *)
LEMMA LoopExists ==
  ASSUME NEW w, NEW env, NEW force, NEW size \in Nat
  PROVE  \E run : Loop(run, w, env, force, size)
<1> DEFINE T == {k \in Nat : ~ \E run : Loop(run, w, env, force, k)}
<1> SUFFICES ASSUME T # {} PROVE FALSE
  OBVIOUS
<1>1. PICK k \in T : \A y \in T : k <= y
  BY LeastElement
<1>2. CASE k = 0
  <2> DEFINE g == [n \in 0..0 |-> Nothing(w)]
  <2>1. Loop(g, w, env, force, 0)
    BY DEF Loop
  <2>2. QED
    BY <1>1, <1>2, <2>1
<1>3. CASE k # 0
  <2>1. k - 1 \in Nat /\ k - 1 \notin T /\ k \in Nat
    BY <1>1, <1>3
  <2>2. PICK run : Loop(run, w, env, force, k - 1)
    BY <2>1
  <2> DEFINE g == [n \in 0..k |->
                     IF n = k THEN DetectTool(run[k-1], env, Info(k), force) ELSE run[n]]
  <2>3. \A n \in 1..k : g[n] = DetectTool(g[n-1], env, Info(n), force)
    <3> SUFFICES ASSUME NEW n \in 1..k PROVE g[n] = DetectTool(g[n-1], env, Info(n), force)
      OBVIOUS
    <3>1. CASE n = k
      BY <2>1, <3>1
    <3>2. CASE n # k
      <4>1. n \in 1..(k-1) /\ n - 1 \in 0..k /\ n - 1 # k /\ n \in 0..k
        BY <2>1, <3>2
      <4>2. run[n] = DetectTool(run[n-1], env, Info(n), force)
        BY <2>2, <4>1 DEF Loop
      <4>3. QED
        BY <3>2, <4>1, <4>2
    <3>3. QED
      BY <3>1, <3>2
  <2>4. g[0] = Nothing(w)
    BY <1>3, <2>1, <2>2 DEF Loop
  <2>5. g \in [0..k -> {g[n] : n \in 0..k}]
    OBVIOUS
  <2>6. Loop(g, w, env, force, k)
    BY <2>3, <2>4, <2>5 DEF Loop
  <2>7. QED
    BY <1>1, <2>6
<1>4. QED
  BY <1>2, <1>3

(* The sets of one element that the definition goes through. *)
Singletons(up, w, env, force) ==
  up = [n \in 0..Len(buildToolInfoMapping) |->
          IF n = 0 THEN {Nothing(w)}
          ELSE {DetectTool(acc, env, buildToolInfoMapping[n], force) : acc \in up[n - 1]}]

(* There is such a function of sets, too. *)
LEMMA SingletonsExist ==
  ASSUME NEW w, NEW env, NEW force
  PROVE  \E up : Singletons(up, w, env, force)
<1>1. Len(buildToolInfoMapping) = Size /\ Size \in Nat
  BY Table DEF Size
<1>2. PICK run : Loop(run, w, env, force, Size)
  BY <1>1, LoopExists
<1> DEFINE up == [n \in 0..Size |-> {run[n]}]
<1>3. ASSUME NEW n \in 0..Size
      PROVE  up[n] = IF n = 0 THEN {Nothing(w)}
                     ELSE {DetectTool(acc, env, buildToolInfoMapping[n], force) : acc \in up[n - 1]}
  <2>1. CASE n = 0
    BY <1>2, <2>1 DEF Loop
  <2>2. CASE n # 0
    <3>1. n \in 1..Size /\ n - 1 \in 0..Size
      BY <1>1, <2>2
    <3>2. up[n - 1] = {run[n - 1]} /\ up[n] = {run[n]}
      BY <3>1
    <3>3. run[n] = DetectTool(run[n - 1], env, buildToolInfoMapping[n], force)
      BY <1>2, <3>1 DEF Loop, Info
    <3>4. QED
      BY <2>2, <3>2, <3>3
  <2>3. QED
    BY <2>1, <2>2
<1>4. up = [n \in 0..Size |->
              IF n = 0 THEN {Nothing(w)}
              ELSE {DetectTool(acc, env, buildToolInfoMapping[n], force) : acc \in up[n - 1]}]
  BY <1>3
<1>5. Singletons(up, w, env, force)
  BY <1>1, <1>4 DEF Singletons
<1>6. QED
  BY <1>5

Single(S) == \E x : S = {x}

(* The detection is the loop. *)
LEMMA DetectionIsLoop ==
  ASSUME NEW w, NEW env, NEW force
  PROVE  \E run : /\ Loop(run, w, env, force, Size)
                  /\ detectDirectoriesToCache(w, env, FALSE, force) = run[Size]
<1>1. Len(buildToolInfoMapping) = Size /\ Size \in Nat
  BY Table DEF Size
<1> DEFINE up == CHOOSE u : Singletons(u, w, env, force)
<1>2. Singletons(up, w, env, force)
  BY SingletonsExist
<1>3. detectDirectoriesToCache(w, env, FALSE, force) = CHOOSE result \in up[Size] : TRUE
  BY <1>1 DEF detectDirectoriesToCache, Singletons
<1> HIDE DEF up
<1> DEFINE run == [n \in 0..Size |-> CHOOSE x \in up[n] : TRUE]
<1>4. up[0] = {Nothing(w)}
  BY <1>1, <1>2 DEF Singletons
<1>5. \A n \in 1..Size : up[n] = {DetectTool(acc, env, Info(n), force) : acc \in up[n - 1]}
  BY <1>1, <1>2 DEF Singletons, Info
<1>6. \A n \in 0..Size : Single(up[n])
  <2> DEFINE T == {n \in 0..Size : ~ Single(up[n])}
  <2> SUFFICES ASSUME T # {} PROVE FALSE
    OBVIOUS
  <2>1. T \in SUBSET Nat
    BY <1>1
  <2> HIDE DEF T
  <2>2. PICK k \in T : \A y \in T : k <= y
    BY <2>1, LeastElement
  <2> USE DEF T
  <2>3. k # 0
    BY <1>4, <2>2 DEF Single
  <2>4. k \in 1..Size /\ k - 1 \in 0..Size /\ ~ (k <= k - 1)
    BY <1>1, <2>2, <2>3
  <2>5. PICK x : up[k - 1] = {x}
    BY <2>2, <2>4 DEF Single
  <2>6. up[k] = {DetectTool(x, env, Info(k), force)}
    BY <1>5, <2>4, <2>5
  <2>7. QED
    BY <2>2, <2>6 DEF Single
<1>7. \A n \in 0..Size : up[n] = {run[n]}
  <2> SUFFICES ASSUME NEW n \in 0..Size PROVE up[n] = {run[n]}
    OBVIOUS
  <2>1. PICK x : up[n] = {x}
    BY <1>6 DEF Single
  <2>2. (CHOOSE y \in up[n] : TRUE) = x
    BY <2>1
  <2>3. QED
    BY <2>1, <2>2
<1>8. \A n \in 1..Size : run[n] = DetectTool(run[n-1], env, Info(n), force)
  <2> SUFFICES ASSUME NEW n \in 1..Size PROVE run[n] = DetectTool(run[n-1], env, Info(n), force)
    OBVIOUS
  <2>1. n \in 0..Size /\ n - 1 \in 0..Size
    BY <1>1
  <2>2. up[n] = {run[n]} /\ up[n - 1] = {run[n - 1]}
    BY <1>7, <2>1
  <2> HIDE DEF run
  <2>3. up[n] = {DetectTool(run[n - 1], env, Info(n), force)}
    BY <1>5, <2>2
  <2>4. QED
    BY <2>2, <2>3
<1>9. run[0] = Nothing(w)
  <2>1. up[0] = {run[0]}
    BY <1>1, <1>7
  <2>2. QED
    BY <1>4, <2>1
<1>10. detectDirectoriesToCache(w, env, FALSE, force) = run[Size]
  <2>1. Size \in 0..Size
    BY <1>1
  <2>2. QED
    BY <1>3, <2>1
<1>11. run \in [0..Size -> {run[n] : n \in 0..Size}]
  OBVIOUS
<1>12. QED
  BY <1>8, <1>9, <1>10, <1>11 DEF Loop

-----------------------------------------------------------------------------
(***************************************************************************)
(* What the preparers do to a file: which files they write, and what they  *)
(* make of the contents.                                                   *)
(***************************************************************************)
Raw      == {".mvn/maven.config", ".bazelrc"}
Appended == {"gradle.properties", ".yarnrc", ".yarnrc.yaml"}
Kept     == {"pip.conf", ".bundle/config"}

Becomes(file, old, new) ==
  /\ file \in Raw => new = AppendRaw(old)
  /\ file \in Appended => new = AppendLine(old)
  /\ file = ".bazelignore" => new = AppendMissing(old)
  /\ file \in Kept => new = Keep(old)
  /\ file = "nuget.config" => Settings(old) = {} /\ new = <<"own">>
  /\ file \in {"poetry.toml", "uv.toml", "pyproject.toml"} => new = UpsertTOML(old)
  /\ file = ".env" => new = upsertEnv(old)

(* A write of a preparer in a directory. *)
IsWrite(w, dir, preparer, x) ==
  \E file :
    /\ x[1] = <<dir, file>> /\ Becomes(file, Read(w, dir, file), x[2])
    /\ \/ file \in Configuration
       \/ file = "pyproject.toml" /\ preparer = "uv" /\ Exists(w, dir, file)

(* Preparers write nothing else. *)
LEMMA Rewrites ==
  ASSUME NEW w, NEW env, NEW dir, NEW preparer, NEW x \in Rewritten(w, env, dir, preparer)
  PROVE  IsWrite(w, dir, preparer, x)
<1> USE DEF IsWrite, Becomes, Configuration, Raw, Appended, Kept, Rewrite, Write
<1>1. ~ fromEnv(env, preparer)
  BY DEF Rewritten
<1>2. CASE preparer = "maven"
  BY <1>1, <1>2 DEF Rewritten, mavenWrites
<1>3. CASE preparer = "gradle"
  BY <1>1, <1>3 DEF Rewritten, gradleWrites
<1>4. CASE preparer = "bazel"
  BY <1>1, <1>4 DEF Rewritten, appendToBazelrc, appendToBazelignore
<1>5. CASE preparer = "bzlmod"
  BY <1>1, <1>5 DEF Rewritten, appendToBazelrcBzlmod, appendToBazelignore
<1>6. CASE preparer = "yarn"
  BY <1>1, <1>6 DEF Rewritten, yarnWrites
<1>7. CASE preparer = "dotnet"
  <2>1. x \in dotnetWrites(w, dir)
    BY <1>1, <1>7 DEF Rewritten
  <2>2. Settings(Read(w, dir, "nuget.config")) = {} /\ x = << <<dir, "nuget.config">>, <<"own">> >>
    BY <2>1 DEF dotnetWrites
  <2>3. QED
    BY <2>2
<1>8. CASE preparer = "poetry"
  BY <1>1, <1>8 DEF Rewritten, poetryWrites
<1>9. CASE preparer = "uv"
  <2>1. x \in uvWrites(w, dir)
    BY <1>1, <1>9 DEF Rewritten
  <2>2. PICK file \in {"uv.toml", "pyproject.toml"} :
          /\ x = << <<dir, file>>, UpsertTOML(Read(w, dir, file)) >>
          /\ file = "pyproject.toml" => Exists(w, dir, "pyproject.toml")
    BY <2>1 DEF uvWrites
  <2>3. QED
    BY <1>9, <2>2
<1>10. CASE preparer = "pipenv"
  BY <1>1, <1>10 DEF Rewritten, pipenvWrites
<1>11. CASE preparer = "pip"
  BY <1>1, <1>11 DEF Rewritten, pipWrites
<1>12. CASE preparer = "fastlane"
  BY <1>1, <1>12 DEF Rewritten, appendBundlePath
<1>13. CASE preparer \notin {"maven", "gradle", "bazel", "bzlmod", "yarn", "dotnet", "poetry", "uv",
                             "pipenv", "pip", "fastlane"}
  BY <1>1, <1>13 DEF Rewritten
<1>14. QED
  BY <1>2, <1>3, <1>4, <1>5, <1>6, <1>7, <1>8, <1>9, <1>10, <1>11, <1>12, <1>13

-----------------------------------------------------------------------------
(* Contents are sequences of words. *)

(* Settings are positions; of those there are, one is first and one is last. *)
LEMMA SettingsBound ==
  ASSUME NEW c \in Seq(Word)
  PROVE  /\ Settings(c) \subseteq 1..Len(c) /\ IsFiniteSet(Settings(c))
         /\ Settings(c) # {} =>
              /\ Min(Settings(c)) \in Settings(c) /\ Max(Settings(c)) \in Settings(c)
              /\ \A i \in Settings(c) : Min(Settings(c)) <= i /\ i <= Max(Settings(c))
<1>1. Settings(c) \subseteq 1..Len(c) /\ Len(c) \in Nat
  BY DEF Settings
<1>2. IsFiniteSet(1..Len(c))
  BY <1>1, FS_Interval
<1>3. IsFiniteSet(Settings(c))
  BY <1>1, <1>2, FS_Subset
<1>4. ASSUME Settings(c) # {}
      PROVE  \E x \in Settings(c) : \A i \in Settings(c) : x <= i
  <2>1. Settings(c) \in SUBSET Nat
    BY <1>1
  <2>2. QED
    BY <1>4, <2>1, LeastElement
<1>5. ASSUME Settings(c) # {}
      PROVE  \E x \in Settings(c) : \A i \in Settings(c) : i <= x
  <2> DEFINE T == {Len(c) - i : i \in Settings(c)}
  <2>1. T \in SUBSET Nat /\ T # {}
    BY <1>1, <1>5
  <2>2. PICK t \in T : \A y \in T : t <= y
    <3> HIDE DEF T
    <3>1. QED
      BY <2>1, LeastElement
  <2>3. PICK x \in Settings(c) : t = Len(c) - x
    BY <2>2
  <2>4. \A i \in Settings(c) : i <= x
    <3> SUFFICES ASSUME NEW i \in Settings(c) PROVE i <= x
      OBVIOUS
    <3>1. Len(c) - i \in T
      OBVIOUS
    <3>2. Len(c) - x <= Len(c) - i /\ i \in Nat /\ x \in Nat
      BY <1>1, <2>2, <2>3, <3>1
    <3>3. QED
      BY <1>1, <3>2
  <2>5. QED
    BY <2>4
<1>6. QED
  BY <1>1, <1>3, <1>4, <1>5 DEF Min, Max

(* The setting that counts, and the one that findBundlePath reads. *)
LastIsOwn(c) == Settings(c) # {} /\ c[Max(Settings(c))] = "own"
HeadIsCustom(c) == Settings(c) # {} /\ c[Min(Settings(c))] = "custom"

(* A setting that none follows is the last one. *)
LEMMA TheLast ==
  ASSUME NEW c \in Seq(Word), NEW i \in Settings(c), \A j \in Settings(c) : j <= i
  PROVE  Max(Settings(c)) = i
<1>1. Max(Settings(c)) \in Settings(c) /\ i <= Max(Settings(c)) /\ Max(Settings(c)) <= i
  BY SettingsBound
<1>2. Settings(c) \subseteq Nat
  BY DEF Settings
<1>3. QED
  BY <1>1, <1>2

(* A setting that none precedes is the first one. *)
LEMMA TheFirst ==
  ASSUME NEW c \in Seq(Word), NEW i \in Settings(c), \A j \in Settings(c) : i <= j
  PROVE  Min(Settings(c)) = i
<1>1. Min(Settings(c)) \in Settings(c) /\ i >= Min(Settings(c)) /\ Min(Settings(c)) >= i
  BY SettingsBound
<1>2. Settings(c) \subseteq Nat
  BY DEF Settings
<1>3. QED
  BY <1>1, <1>2

(* The only setting is both. *)
LEMMA TheOnly ==
  ASSUME NEW c \in Seq(Word), NEW m, Settings(c) = {m}
  PROVE  Max(Settings(c)) = m /\ Min(Settings(c)) = m /\ m \in Nat
<1>1. Max(Settings(c)) \in Settings(c) /\ Min(Settings(c)) \in Settings(c)
  BY SettingsBound
<1>2. m \in Settings(c)
  OBVIOUS
<1>3. Settings(c) \subseteq Nat
  BY DEF Settings
<1>4. QED
  BY <1>1, <1>2, <1>3

(* An appended setting is the last one. *)
LEMMA AppendSets ==
  ASSUME NEW c \in Seq(Word)
  PROVE  /\ AppendLine(c) \in Seq(Word) /\ LastIsOwn(AppendLine(c))
         /\ Settings(AppendLine(c)) = Settings(c) \cup {Len(c) + 1}
         /\ LastLineEnds(AppendLine(c))
<1> DEFINE e == AppendLine(c)
<1>1. e \in Seq(Word) /\ Len(e) = Len(c) + 1 /\ e[Len(c) + 1] = "own"
      /\ \A i \in 1..Len(c) : e[i] = c[i]
  <2>1. "own" \in Word
    BY AutoDetectAssumption
  <2>2. QED
    BY <2>1, AppendProperties DEF AppendLine
<1>2. Settings(e) = Settings(c) \cup {Len(c) + 1}
  BY <1>1 DEF Settings, IsSetting
<1>3. \A j \in Settings(e) : j <= Len(c) + 1
  BY <1>1 DEF Settings
<1>4. Max(Settings(e)) = Len(c) + 1
  BY <1>1, <1>2, <1>3, TheLast
<1>5. LastLineEnds(e)
  BY <1>1 DEF LastLineEnds
<1>6. QED
  BY <1>1, <1>2, <1>4, <1>5 DEF LastIsOwn

(* Behind a last line that ends, a setting is a line of its own, too. *)
LEMMA RawSets ==
  ASSUME NEW c \in Seq(Word)
  PROVE  /\ AppendRaw(c) \in Seq(Word) /\ LastLineEnds(AppendRaw(c))
         /\ LastLineEnds(c) => AppendRaw(c) = AppendLine(c)
<1>1. CASE LastLineEnds(c)
  <2>1. AppendRaw(c) = AppendLine(c)
    BY <1>1 DEF AppendRaw, AppendLine
  <2>2. QED
    BY <2>1, AppendSets
<1>2. CASE ~ LastLineEnds(c)
  <2> DEFINE e == [c EXCEPT ![Len(c)] = "glued"]
  <2>1. AppendRaw(c) = e
    BY <1>2 DEF AppendRaw
  <2>2. Len(c) \in 1..Len(c) /\ "glued" \in Word
    BY <1>2, AutoDetectAssumption, LenProperties DEF LastLineEnds
  <2>3. e \in Seq(Word) /\ Len(e) = Len(c) /\ e[Len(c)] = "glued"
    BY <2>2, ExceptSeq
  <2>4. LastLineEnds(e)
    BY <2>3 DEF LastLineEnds
  <2>5. QED
    BY <1>2, <2>1, <2>3, <2>4
<1>3. QED
  BY <1>1, <1>2

(* Keeping what is set, or else setting it. *)
LEMMA KeepSets ==
  ASSUME NEW c \in Seq(Word)
  PROVE  /\ Keep(c) \in Seq(Word) /\ Settings(Keep(c)) # {}
         /\ Settings(c) # {} => Keep(c) = c
         /\ Settings(c) = {} => Settings(Keep(c)) = {Len(c) + 1} /\ Keep(c)[Len(c) + 1] = "own"
<1>1. CASE Settings(c) = {}
  <2>1. AppendLine(c)[Len(c) + 1] = "own"
    BY DEF AppendLine
  <2>2. QED
    BY <1>1, <2>1, AppendSets DEF Keep
<1>2. CASE Settings(c) # {}
  BY <1>2 DEF Keep
<1>3. QED
  BY <1>1, <1>2

(* Replacing the first setting adds none, unless there was none. *)
LEMMA UpsertSets ==
  ASSUME NEW c \in Seq(Word)
  PROVE  /\ UpsertTOML(c) \in Seq(Word)
         /\ Settings(c) = {} => UpsertTOML(c) = AppendLine(c)
         /\ Settings(c) # {} => /\ Settings(UpsertTOML(c)) = Settings(c)
                                /\ UpsertTOML(c)[Min(Settings(c))] = "own"
<1>1. CASE Settings(c) = {}
  BY <1>1, AppendSets DEF UpsertTOML
<1>2. CASE Settings(c) # {}
  <2>1. PICK m \in Settings(c) : m = Min(Settings(c))
    BY <1>2, SettingsBound
  <2>2. UpsertTOML(c) = [c EXCEPT ![m] = "own"] /\ m \in 1..Len(c)
    BY <1>2, <2>1 DEF UpsertTOML, Settings
  <2> DEFINE e == [c EXCEPT ![m] = "own"]
  <2>3. e \in Seq(Word) /\ Len(e) = Len(c) /\ e[m] = "own" /\ \A i \in 1..Len(c) : i # m
        => e[i] = c[i]
    <3>1. "own" \in Word
      BY AutoDetectAssumption
    <3>2. QED
      BY <2>2, <3>1, ExceptSeq
  <2>4. Settings(e) = Settings(c)
    BY <2>1, <2>3 DEF Settings, IsSetting
  <2>5. QED
    BY <1>2, <2>1, <2>2, <2>3, <2>4
<1>3. QED
  BY <1>1, <1>2

(* Replacing all settings leaves none of the project's. *)
LEMMA EnvSets ==
  ASSUME NEW c \in Seq(Word)
  PROVE  upsertEnv(c) \in Seq(Word) /\ LastIsOwn(upsertEnv(c))
<1>1. CASE Settings(c) = {}
  BY <1>1, AppendSets DEF upsertEnv
<1>2. CASE Settings(c) # {}
  <2> DEFINE e == [i \in DOMAIN c |-> IF IsSetting(c[i]) THEN "own" ELSE c[i]]
  <2>1. e = upsertEnv(c)
    BY <1>2 DEF upsertEnv
  <2>2. e \in Seq(Word) /\ Len(e) = Len(c) /\ DOMAIN e = 1..Len(c) /\ DOMAIN c = 1..Len(c)
    <3>1. "own" \in Word /\ Len(c) \in Nat /\ c \in [1..Len(c) -> Word]
      BY AutoDetectAssumption, LenProperties
    <3>2. e \in [1..Len(c) -> Word]
      BY <3>1
    <3> HIDE DEF e
    <3>3. e \in Seq(Word)
      BY <3>1, <3>2, SeqDef
    <3>4. DOMAIN e = 1..Len(e) /\ Len(e) \in Nat
      BY <3>3, LenProperties
    <3>5. QED
      BY <3>1, <3>2, <3>3, <3>4
  <2>3. Settings(e) = Settings(c) /\ \A i \in Settings(e) : e[i] = "own"
    BY <2>2 DEF Settings, IsSetting
  <2>4. Max(Settings(e)) \in Settings(e)
    BY <1>2, <2>2, <2>3, SettingsBound
  <2>5. QED
    BY <1>2, <2>1, <2>2, <2>3, <2>4 DEF LastIsOwn
<1>3. QED
  BY <1>1, <1>2

-----------------------------------------------------------------------------
(* Induction on the entries of the table. *)
LEMMA UpToSize ==
  ASSUME NEW T, 0 \in T, \A n \in 1..Size : n - 1 \in T => n \in T
  PROVE  \A n \in 0..Size : n \in T
<1> DEFINE U == {n \in 0..Size : n \notin T}
<1> SUFFICES ASSUME U # {} PROVE FALSE
  OBVIOUS
<1>1. U \in SUBSET Nat
  BY DEF Size
<1>2. PICK k \in U : \A y \in U : k <= y
  <2> HIDE DEF U
  <2>1. QED
    BY <1>1, LeastElement
<1>3. k \in 1..Size /\ k - 1 \in 0..Size /\ ~ (k <= k - 1)
  BY <1>2 DEF Size
<1>4. k - 1 \in T
  BY <1>2, <1>3
<1>5. QED
  BY <1>2, <1>3, <1>4

(* What is read of a workspace is contents, also of a file that does not exist. *)
LEMMA Contents ==
  ASSUME NEW w, IsWorkspace(w), NEW d, NEW file
  PROVE  Read(w, d, file) \in Seq(Word)
<1>1. CASE Exists(w, d, file)
  BY <1>1 DEF Exists, Read, IsWorkspace
<1>2. CASE ~ Exists(w, d, file)
  BY <1>2 DEF Read
<1>3. QED
  BY <1>1, <1>2

(* What preparers make of contents is contents. *)
LEMMA BecomesContents ==
  ASSUME NEW old \in Seq(Word), NEW new, NEW file \in Configuration \cup {"pyproject.toml"},
         Becomes(file, old, new)
  PROVE  new \in Seq(Word)
<1>1. CASE file \in Appended
  BY <1>1, AppendSets DEF Becomes
<1>2. CASE file \in Kept
  BY <1>2, KeepSets DEF Becomes
<1>3. CASE file = "nuget.config"
  <2>1. "own" \in Word
    BY AutoDetectAssumption
  <2>2. <<"own">> \in Seq(Word)
    BY <2>1
  <2>3. QED
    BY <1>3, <2>2 DEF Becomes
<1>4. CASE file \in {"poetry.toml", "uv.toml", "pyproject.toml"}
  BY <1>4, UpsertSets DEF Becomes
<1>5. CASE file = ".env"
  BY <1>5, EnvSets DEF Becomes
<1>6. CASE file \in Raw
  BY <1>6, RawSets DEF Becomes
<1>7. CASE file = ".bazelignore"
  BY <1>7, RawSets DEF Becomes, AppendMissing
<1>8. QED
  BY <1>1, <1>2, <1>3, <1>4, <1>5, <1>6, <1>7 DEF Configuration, Raw, Appended, Kept

(***************************************************************************)
(* What preparing does to a workspace.                                     *)
(***************************************************************************)
SameThere(w, v, d, file) ==
  (Exists(v, d, file) <=> Exists(w, d, file)) /\ Read(v, d, file) = Read(w, d, file)

ChangedThere(w, v, d, file) ==
  /\ Exists(v, d, file) /\ Becomes(file, Read(w, d, file), Read(v, d, file))
  /\ \/ file \in Configuration
     \/ file = "pyproject.toml" /\ Exists(w, d, file) /\ Exists(w, d, "uv.lock")

(* A workspace in which every file is one or the other. *)
Rewrote(w, v) ==
  /\ IsWorkspace(v)
  /\ \A d \in Dir : \A file : SameThere(w, v, d, file) \/ ChangedThere(w, v, d, file)

(* A write that leaves the lock files of python be. *)
GoodWrite(w, x) ==
  \E d \in Dir : \E preparer :
    IsWrite(w, d, preparer, x) /\ (preparer = "uv" => Exists(w, d, "uv.lock"))

(* Writes of preparers make such a workspace. *)
LEMMA WithRewrites ==
  ASSUME NEW w, IsWorkspace(w), NEW writes, \A x \in writes : GoodWrite(w, x)
  PROVE  Rewrote(w, With(w, writes))
<1> DEFINE v == With(w, writes)
           pick(f) == CHOOSE x \in writes : x[1] = f
<1>1. DOMAIN v = DOMAIN w \cup {x[1] : x \in writes}
  BY DEF With
<1>2. ASSUME NEW x \in writes
      PROVE  \E d \in Dir : \E file :
               /\ x[1] = <<d, file>> /\ <<d, file>> \in Dir \X File
               /\ Becomes(file, Read(w, d, file), x[2])
               /\ x[2] \in Seq(Word)
               /\ \/ file \in Configuration
                  \/ file = "pyproject.toml" /\ Exists(w, d, file) /\ Exists(w, d, "uv.lock")
  <2>1. PICK d \in Dir : \E preparer :
          IsWrite(w, d, preparer, x) /\ (preparer = "uv" => Exists(w, d, "uv.lock"))
    BY DEF GoodWrite
  <2>2. PICK file :
          /\ x[1] = <<d, file>> /\ Becomes(file, Read(w, d, file), x[2])
          /\ \/ file \in Configuration
             \/ file = "pyproject.toml" /\ Exists(w, d, file) /\ Exists(w, d, "uv.lock")
    BY <2>1 DEF IsWrite
  <2>3. x[2] \in Seq(Word)
    BY <2>2, Contents, BecomesContents
  <2>4. <<d, file>> \in Dir \X File
    <3>1. CASE file \in Configuration
      BY <3>1, AutoDetectAssumption
    <3>2. CASE Exists(w, d, file)
      BY <3>2 DEF IsWorkspace, Exists
    <3>3. QED
      BY <2>2, <3>1, <3>2
  <2>5. QED
    BY <2>1, <2>2, <2>3, <2>4
<1>3. ASSUME NEW f \in DOMAIN v
      PROVE  \/ pick(f) \in writes /\ pick(f)[1] = f /\ v[f] = pick(f)[2]
             \/ f \in DOMAIN w /\ v[f] = w[f] /\ \A x \in writes : x[1] # f
  <2>1. CASE \E x \in writes : x[1] = f
    <3>1. pick(f) \in writes /\ pick(f)[1] = f
      BY <2>1
    <3>2. v[f] = pick(f)[2]
      BY <1>1, <2>1 DEF With
    <3>3. QED
      BY <3>1, <3>2
  <2>2. CASE ~ \E x \in writes : x[1] = f
    BY <1>1, <2>2 DEF With
  <2>3. QED
    BY <2>1, <2>2
<1> HIDE DEF v, pick
<1>4. IsWorkspace(v)
  <2>1. DOMAIN v \subseteq Dir \X File
    BY <1>1, <1>2 DEF IsWorkspace
  <2>2. \A f \in DOMAIN v : v[f] \in Seq(Word)
    BY <1>2, <1>3 DEF IsWorkspace
  <2>3. v = [f \in DOMAIN v |-> v[f]]
    BY DEF v, With
  <2>4. QED
    BY <2>1, <2>2, <2>3 DEF IsWorkspace
<1>5. ASSUME NEW d \in Dir, NEW file PROVE SameThere(w, v, d, file) \/ ChangedThere(w, v, d, file)
  <2> DEFINE f == <<d, file>>
  <2>1. CASE f \notin DOMAIN v
    BY <1>1, <2>1 DEF SameThere, Exists, Read
  <2>2. CASE f \in DOMAIN w /\ v[f] = w[f]
    BY <1>1, <2>2 DEF SameThere, Exists, Read
  <2>3. CASE f \in DOMAIN v /\ pick(f) \in writes /\ pick(f)[1] = f /\ v[f] = pick(f)[2]
    <3>1. \E e \in Dir : \E g :
               /\ pick(f)[1] = <<e, g>>
               /\ Becomes(g, Read(w, e, g), pick(f)[2])
               /\ \/ g \in Configuration
                  \/ g = "pyproject.toml" /\ Exists(w, e, g) /\ Exists(w, e, "uv.lock")
      BY <1>2, <2>3
    <3>2. /\ Becomes(file, Read(w, d, file), pick(f)[2])
          /\ \/ file \in Configuration
             \/ file = "pyproject.toml" /\ Exists(w, d, file) /\ Exists(w, d, "uv.lock")
      BY <2>3, <3>1
    <3>3. Exists(v, d, file) /\ Read(v, d, file) = pick(f)[2]
      BY <2>3 DEF Exists, Read
    <3>4. QED
      BY <3>2, <3>3 DEF ChangedThere
  <2>4. QED
    BY <1>3, <2>1, <2>2, <2>3
<1>6. QED
  BY <1>4, <1>5 DEF Rewrote, v

-----------------------------------------------------------------------------
(* One entry of the table: its parts, named. *)
IsAcc(acc) ==
  acc = [ws |-> acc.ws, dirs |-> acc.dirs, tools |-> acc.tools, hashes |-> acc.hashes,
         failed |-> acc.failed]

(* The directories that are prepared before one fails, and what they come to. *)
Ready(w, env, info, dirs) ==
  {d \in dirs : \A e \in dirs : prepareFails(w, env, e, info.preparer) => IsBefore(d, e)}

Writes(w, env, info, dirs) == UNION {Rewritten(w, env, d, info.preparer) : d \in dirs}

ToCache(w, env, info, dirs) ==
  UNION {{Prepared(w, env, d, info.preparer)}
            \cup additionalCacheDirs(w, env, d, info.preparer) : d \in dirs}

(* The sums of an entry, and whether it is passed over. *)
Hashes(w, info) ==
  (IF info.hash = "" THEN <<>> ELSE Sums(w, Found(w, Tool(info.hash, "")), info.hash))
    \o Sums(w, Found(w, info), info.glob)

Passed(acc, info, force) == Skipped(acc, info, force) \/ Found(acc.ws, info) = {}

(* The loop begins with such a record. *)
LEMMA NothingIsAcc ==
  ASSUME NEW w
  PROVE  IsAcc(Nothing(w))
BY DEF IsAcc, Nothing

(* What one entry makes of what was found before. *)
Parts(acc, env, info, force, b) ==
  LET dirs == Found(acc.ws, info)
      ready == Ready(acc.ws, env, info, dirs)
  IN /\ IsAcc(b)
     /\ Passed(acc, info, force) => b = acc
     /\ ~ Passed(acc, info, force) =>
          /\ b.ws = With(acc.ws, Writes(acc.ws, env, info, ready))
          /\ b.dirs = acc.dirs \cup ToCache(acc.ws, env, info, ready)
          /\ b.tools = acc.tools \cup {info.tool}
          /\ b.hashes = acc.hashes \o Hashes(acc.ws, info)
          /\ b.failed = (ready # dirs)

(* DetectTool makes just that of it. *)
LEMMA DetectToolParts ==
  ASSUME NEW acc, IsAcc(acc), NEW env, NEW info, NEW force
  PROVE  Parts(acc, env, info, force, DetectTool(acc, env, info, force))
<1> DEFINE dirs == Found(acc.ws, info)
           ready == Ready(acc.ws, env, info, dirs)
           b == DetectTool(acc, env, info, force)
<1>1. CASE Passed(acc, info, force)
  <2>1. b = acc
    BY <1>1 DEF Passed, DetectTool
  <2>2. QED
    BY <1>1, <2>1 DEF Parts
<1>2. CASE ~ Passed(acc, info, force)
  <2>1. PrepareRepo(acc, env, info, dirs) =
          [acc EXCEPT !.failed = ready # dirs, !.ws = With(@, Writes(acc.ws, env, info, ready)),
                      !.dirs = @ \cup ToCache(acc.ws, env, info, ready)]
    BY DEF PrepareRepo, Ready, Writes, ToCache
  <2>2. b = [PrepareRepo(acc, env, info, dirs)
               EXCEPT !.tools = @ \cup {info.tool}, !.hashes = @ \o Hashes(acc.ws, info)]
    BY <1>2 DEF Passed, DetectTool, Hashes
  <2> DEFINE ww == With(acc.ws, Writes(acc.ws, env, info, ready))
             dd == acc.dirs \cup ToCache(acc.ws, env, info, ready)
             hh == acc.hashes \o Hashes(acc.ws, info)
             ff == ready # dirs
  <2> HIDE DEF dirs, ready, b, ww, dd, hh, ff
  <2>3. PrepareRepo(acc, env, info, dirs) =
          [ws |-> ww, dirs |-> dd, tools |-> acc.tools, hashes |-> acc.hashes, failed |-> ff]
    BY <2>1 DEF IsAcc, ww, dd, ff
  <2> DEFINE q == PrepareRepo(acc, env, info, dirs)
             tt == acc.tools \cup {info.tool}
  <2>6. q.tools = acc.tools /\ q.hashes = acc.hashes
    BY <2>3
  <2>7. b = [[q EXCEPT !.tools = tt] EXCEPT !.hashes = hh]
    BY <2>2, <2>6 DEF hh
  <2> HIDE DEF q, tt
  <2>8. q = [ws |-> ww, dirs |-> dd, tools |-> acc.tools, hashes |-> acc.hashes, failed |-> ff]
    BY <2>3 DEF q
  <2>4. b = [ws |-> ww, dirs |-> dd, tools |-> tt, hashes |-> hh, failed |-> ff]
    BY <2>7, <2>8
  <2>5. QED
    BY <1>2, <2>4 DEF IsAcc, Parts, ww, dd, hh, ff, tt, b, dirs, ready
<1>3. QED
  BY <1>1, <1>2

-----------------------------------------------------------------------------
(* Where an entry is found. *)

(* The shortest of some directories is one of them. *)
LEMMA ShortestIsOne ==
  ASSUME NEW dirs \in SUBSET Dir, dirs # {}
  PROVE  shortestPath(dirs) \in dirs
<1>1. CASE "root" \in dirs
  BY <1>1 DEF shortestPath
<1>2. CASE "root" \notin dirs
  <2> DEFINE S == {i \in DOMAIN Order : Order[i] \in dirs}
  <2>1. DOMAIN Order = {1, 2, 3} /\ Order[1] = "root" /\ Order[2] = "a" /\ Order[3] = "b"
    BY DEF Order
  <2>2. \/ S = {2} \/ S = {3} \/ S = {2, 3}
    BY <1>2, <2>1 DEF Dir
  <2>3. \E x \in S : \A y \in S : x >= y
    BY <2>2
  <2>4. Max(S) \in S
    BY <2>3 DEF Max
  <2>5. QED
    BY <1>2, <2>4 DEF shortestPath
<1>3. QED
  BY <1>1, <1>2

(* Where an entry is found its file exists and no blocker does. *)
LEMMA FoundIsThere ==
  ASSUME NEW w, NEW info, NEW d \in Found(w, info)
  PROVE  /\ d \in Dir /\ Exists(w, d, info.glob)
         /\ \A b \in info.exclude : ~ Exists(w, d, b)
<1> DEFINE dirs == eligible(w, info.glob, info.exclude)
<1>1. \A e \in dirs : /\ e \in Dir /\ Exists(w, e, info.glob)
                      /\ \A b \in info.exclude : ~ Exists(w, e, b)
  BY DEF eligible, matches, Dir
<1>2. d \in dirs
  <2>1. CASE info.all \/ dirs = {}
    BY <2>1 DEF Found
  <2>2. CASE ~ (info.all \/ dirs = {})
    <3>1. shortestPath(dirs) \in dirs
      <4>1. dirs \in SUBSET Dir /\ dirs # {}
        BY <1>1, <2>2
      <4> HIDE DEF dirs
      <4>2. QED
        BY <4>1, ShortestIsOne
    <3>2. Found(w, info) = {shortestPath(dirs)}
      BY <2>2 DEF Found
    <3>3. QED
      BY <3>1, <3>2
  <2>3. QED
    BY <2>1, <2>2
<1>3. QED
  BY <1>1, <1>2

(* Each entry is one of these. *)
EntryIs(n) ==
  \/ n = 1 /\ Plainly(Info(n), "pom.xml", "maven")
  \/ n = 2 /\ Plainly(Info(n), "build.gradle.kts", "gradle")
  \/ n = 3 /\ Plainly(Info(n), "build.gradle", "gradle")
  \/ n = 4 /\ Entry(Info(n), "MODULE.bazel", "bazel", "bzlmod", "", FALSE, {})
  \/ n = 5 /\ Plainly(Info(n), "WORKSPACE", "bazel")
  \/ n = 6 /\ Plainly(Info(n), "package-lock.json", "node")
  \/ n = 7 /\ Entry(Info(n), "package.json", "node", "fallback", "", FALSE, NodeLocks)
  \/ n = 8 /\ Entry(Info(n), "yarn.lock", "yarn", "yarn", "package.json", FALSE, {})
  \/ n = 9 /\ Plainly(Info(n), "go.mod", "golang")
  \/ n = 10 /\ Entry(Info(n), "*.csproj", "dotnet", "dotnet", "", TRUE, {})
  \/ n = 11 /\ Entry(Info(n), "*.vbproj", "dotnet", "dotnet", "", TRUE, {})
  \/ n = 12 /\ Entry(Info(n), "*.fsproj", "dotnet", "dotnet", "", TRUE, {})
  \/ n = 13 /\ Plainly(Info(n), "poetry.lock", "poetry")
  \/ n = 14 /\ Plainly(Info(n), "uv.lock", "uv")
  \/ n = 15 /\ Plainly(Info(n), "Pipfile.lock", "pipenv")
  \/ n = 16 /\ Plainly(Info(n), "requirements.txt", "pip")
  \/ n = 17 /\ Plainly(Info(n), "constraints.txt", "pip")
  \/ n = 18 /\ Entry(Info(n), "pyproject.toml", "pip", "pip", "", FALSE, PythonLocks)
  \/ n = 19 /\ Entry(Info(n), "Gemfile", "fastlane", "fastlane", "Gemfile.lock", FALSE, {})
  \/ n = 20 /\ Entry(Info(n), "Podfile", "cocoapods", "cocoapods", "Podfile.lock", FALSE, {})
  \/ n = 21 /\ Entry(Info(n), "Package.swift", "spm", "spm", "Package.resolved", FALSE, {})

(* All of them are. *)
LEMMA Entries == \A n \in 1..Size : EntryIs(n)
<1> SUFFICES ASSUME NEW n \in 1..Size PROVE EntryIs(n)
  OBVIOUS
<1>1. n \in {1, 2, 3, 4, 5, 6, 7, 8, 9, 10, 11, 12, 13, 14, 15, 16, 17, 18, 19, 20, 21}
  BY DEF Size
<1>2. CASE n \in {1, 2, 3, 4, 5}
  BY <1>2, Table DEF EntryIs
<1>3. CASE n \in {6, 7, 8}
  BY <1>3, Table DEF EntryIs
<1>4. CASE n \in {9, 10, 11, 12}
  BY <1>4, Table DEF EntryIs
<1>5. CASE n \in {13, 14, 15, 16, 17, 18}
  BY <1>5, Table DEF EntryIs
<1>6. CASE n \in {19, 20, 21}
  BY <1>6, Table DEF EntryIs
<1>7. QED
  BY <1>1, <1>2, <1>3, <1>4, <1>5, <1>6

(* Only the entry of uv.lock is prepared as uv. *)
LEMMA UvEntry ==
  ASSUME NEW n \in 1..Size, Info(n).preparer = "uv"
  PROVE  Info(n).glob = "uv.lock"
<1>1. EntryIs(n)
  BY Entries
<1>2. QED
  BY <1>1 DEF EntryIs, Entry, Plainly

(* What an entry writes is the writes of its preparer. *)
LEMMA WritesAreGood ==
  ASSUME NEW w, NEW env, NEW n \in 1..Size,
         NEW x \in Writes(w, env, Info(n), Ready(w, env, Info(n), Found(w, Info(n))))
  PROVE  GoodWrite(w, x)
<1> DEFINE ready == Ready(w, env, Info(n), Found(w, Info(n)))
<1>1. PICK d \in ready : x \in Rewritten(w, env, d, Info(n).preparer)
  BY DEF Writes
<1>2. d \in Found(w, Info(n))
  BY DEF Ready
<1>3. d \in Dir /\ Exists(w, d, Info(n).glob)
  BY <1>2, FoundIsThere
<1>4. IsWrite(w, d, Info(n).preparer, x)
  BY <1>1, Rewrites
<1>5. Info(n).preparer = "uv" => Exists(w, d, "uv.lock")
  BY <1>3, UvEntry
<1>6. QED
  BY <1>3, <1>4, <1>5 DEF GoodWrite

(* An entry leaves a workspace that differs in what preparers write. *)
LEMMA DetectToolRewrites ==
  ASSUME NEW acc, IsAcc(acc), IsWorkspace(acc.ws), NEW env, NEW n \in 1..Size, NEW force
  PROVE  Rewrote(acc.ws, DetectTool(acc, env, Info(n), force).ws)
<1> DEFINE b == DetectTool(acc, env, Info(n), force)
           ready == Ready(acc.ws, env, Info(n), Found(acc.ws, Info(n)))
<1>3. Parts(acc, env, Info(n), force, b)
  BY DetectToolParts
<1>1. CASE Passed(acc, Info(n), force)
  <2>1. b = acc
    BY <1>1, <1>3 DEF Parts
  <2>2. QED
    BY <2>1 DEF Rewrote, SameThere
<1>2. CASE ~ Passed(acc, Info(n), force)
  <2>1. b.ws = With(acc.ws, Writes(acc.ws, env, Info(n), ready))
    BY <1>2, <1>3 DEF Parts
  <2>3. QED
    BY <2>1, WithRewrites, WritesAreGood
<1>4. QED
  BY <1>1, <1>2

(* So does every number of entries, by induction. *)
LEMMA LoopIsWorkspace ==
  ASSUME NEW run, NEW w, IsWorkspace(w), NEW env, NEW force, Loop(run, w, env, force, Size)
  PROVE  \A n \in 0..Size : IsAcc(run[n]) /\ IsWorkspace(run[n].ws)
<1> DEFINE T == {n \in 0..Size : IsAcc(run[n]) /\ IsWorkspace(run[n].ws)}
<1>1. 0 \in T
  <2>1. run[0] = Nothing(w)
    BY DEF Loop
  <2>2. Nothing(w).ws = w
    BY DEF Nothing
  <2>3. QED
    BY <2>1, <2>2, NothingIsAcc DEF Size
<1>2. ASSUME NEW n \in 1..Size, n - 1 \in T PROVE n \in T
  <2>1. run[n] = DetectTool(run[n-1], env, Info(n), force)
    BY DEF Loop
  <2>5. Parts(run[n-1], env, Info(n), force, run[n])
    BY <1>2, <2>1, DetectToolParts
  <2>2. IsAcc(run[n])
    BY <2>5 DEF Parts
  <2>3. IsWorkspace(run[n].ws)
    BY <1>2, <2>1, DetectToolRewrites DEF Rewrote
  <2>4. QED
    BY <2>2, <2>3 DEF Size
<1> HIDE DEF T
<1>3. \A n \in 0..Size : n \in T
  BY <1>1, <1>2, UpToSize
<1>4. QED
  BY <1>3 DEF T

(* A detection makes a workspace of a workspace. *)
LEMMA DetectionIsWorkspace ==
  ASSUME NEW w, IsWorkspace(w), NEW env, NEW skipPrepare \in BOOLEAN, NEW force
  PROVE  IsWorkspace(detectDirectoriesToCache(w, env, skipPrepare, force).ws)
<1>1. CASE skipPrepare
  BY <1>1 DEF detectDirectoriesToCache, Nothing
<1>2. CASE ~ skipPrepare
  <2>1. skipPrepare = FALSE
    BY <1>2
  <2>2. PICK run : /\ Loop(run, w, env, force, Size)
                   /\ detectDirectoriesToCache(w, env, FALSE, force) = run[Size]
    BY DetectionIsLoop
  <2>3. IsWorkspace(run[Size].ws)
    BY <2>2, LoopIsWorkspace DEF Size
  <2>4. QED
    BY <2>1, <2>2, <2>3
<1>3. QED
  BY <1>1, <1>2

-----------------------------------------------------------------------------
(***************************************************************************)
(* Where the configuration leads the tools.                                *)
(***************************************************************************)
LeadsThere(w, tool, d) == LastIsOwn(Read(w, d, Configured[tool]))

(* What is cached in a tool's own directory is where its file leads it. *)
Leads(w, dirs) ==
  \A tool \in DOMAIN Configured, d \in Dir : <<d, Own[tool]>> \in dirs => LeadsThere(w, tool, d)

(* A value is set once in the files that are accepted only so. *)
SetOnce(w) ==
  \A d \in Dir, file \in {"poetry.toml", ".bundle/config"} :
    \A i, j \in Settings(Read(w, d, file)) : i = j

(* What is appended to these files is a line of its own. *)
RawEnd(w) == \A d \in Dir, file \in Raw : LastLineEnds(Read(w, d, file))

(* Files as the preparers expect them. *)
Expected(w) == SetOnce(w) /\ RawEnd(w)

(* No tool that was led to its own directory is led elsewhere. *)
StillLeads(w, v) ==
  \A tool \in DOMAIN Configured, d \in Dir : LeadsThere(w, tool, d) => LeadsThere(v, tool, d)

(* The tools that have such a file, one by one. *)
LEMMA ConfiguredTools ==
  /\ DOMAIN Configured
       = {"maven", "gradle", "bazel", "yarn", "dotnet", "poetry", "fastlane"}
  /\ Configured["maven"] = ".mvn/maven.config" /\ Configured["gradle"] = "gradle.properties"
  /\ Configured["bazel"] = ".bazelrc" /\ Configured["yarn"] = ".yarnrc"
  /\ Configured["dotnet"] = "nuget.config" /\ Configured["poetry"] = "poetry.toml"
  /\ Configured["fastlane"] = ".bundle/config"
BY DEF Configured

(* The directories of the tools, one by one. *)
LEMMA OwnDirs ==
  /\ Own["maven"] = ".m2/repository" /\ Own["gradle"] = ".gradle" /\ Own["bazel"] = ".bazel-cache"
  /\ Own["bzlmod"] = ".bazel-cache" /\ Own["node"] = "node_modules"
  /\ Own["fallback"] = "node_modules" /\ Own["yarn"] = ".yarn" /\ Own["dotnet"] = ".nuget/packages"
  /\ Own["poetry"] = ".cache/poetry" /\ Own["uv"] = ".cache/uv" /\ Own["pipenv"] = ".cache/pipenv"
  /\ Own["pip"] = ".cache/pip" /\ Own["fastlane"] = "vendor/bundle" /\ Own["cocoapods"] = "Pods"
  /\ Own["spm"] = ".build/checkouts"
BY DEF Own

(* A file that a preparer has written leads to its directory. *)
LEMMA BecomesOwn ==
  ASSUME NEW tool \in DOMAIN Configured, NEW old \in Seq(Word), NEW new,
         Becomes(Configured[tool], old, new),
         tool = "fastlane" => LastIsOwn(old) \/ Settings(old) = {},
         tool = "poetry" => \A i, j \in Settings(old) : i = j,
         tool \in {"maven", "bazel"} => LastLineEnds(old)
  PROVE  LastIsOwn(new)
<1>1. CASE tool \in {"gradle", "yarn"}
  <2>1. Configured[tool] \in Appended
    BY <1>1, ConfiguredTools DEF Appended
  <2>2. QED
    BY <2>1, AppendSets DEF Becomes
<1>2. CASE tool = "dotnet"
  <2>1. new = <<"own">>
    BY <1>2, ConfiguredTools DEF Becomes
  <2>2. new \in Seq(Word) /\ Settings(new) = {1} /\ new[1] = "own"
    <3>1. "own" \in Word
      BY AutoDetectAssumption
    <3>2. <<"own">> \in Seq(Word)
      BY <3>1
    <3>3. Settings(<<"own">>) = {1}
      BY DEF Settings, IsSetting
    <3>4. QED
      BY <2>1, <3>2, <3>3
  <2>3. Max(Settings(new)) = 1
    BY <2>2, TheOnly
  <2>4. QED
    BY <2>2, <2>3 DEF LastIsOwn
<1>3. CASE tool = "poetry"
  <2>1. new = UpsertTOML(old)
    BY <1>3, ConfiguredTools DEF Becomes
  <2>2. CASE Settings(old) = {}
    BY <2>1, <2>2, UpsertSets, AppendSets
  <2>3. CASE Settings(old) # {}
    <3>1. PICK m \in Settings(old) : m = Min(Settings(old))
      BY <2>3, SettingsBound
    <3>2. Settings(old) = {m}
      BY <1>3, <3>1
    <3>3. Settings(new) = {m} /\ new[m] = "own" /\ new \in Seq(Word)
      BY <2>1, <2>3, <3>1, <3>2, UpsertSets
    <3>4. Max(Settings(new)) = m
      BY <3>3, TheOnly
    <3>5. QED
      BY <3>3, <3>4 DEF LastIsOwn
  <2>4. QED
    BY <2>2, <2>3
<1>4. CASE tool \in {"maven", "bazel"}
  <2>1. Configured[tool] \in Raw
    BY <1>4, ConfiguredTools DEF Raw
  <2>2. QED
    BY <1>4, <2>1, AppendSets, RawSets DEF Becomes
<1>5. CASE tool = "fastlane"
  <2>1. new = Keep(old)
    BY <1>5, ConfiguredTools DEF Becomes, Kept
  <2>2. CASE Settings(old) = {}
    <3>1. new = AppendLine(old)
      BY <2>1, <2>2 DEF Keep
    <3>2. QED
      BY <3>1, AppendSets
  <2>3. CASE Settings(old) # {}
    BY <1>5, <2>1, <2>3 DEF Keep
  <2>4. QED
    BY <2>2, <2>3
<1>6. QED
  BY <1>1, <1>2, <1>3, <1>4, <1>5, ConfiguredTools

(* Preparers set no value twice. *)
LEMMA RewroteSetOnce ==
  ASSUME NEW w, IsWorkspace(w), NEW v, Rewrote(w, v), SetOnce(w)
  PROVE  SetOnce(v)
<1> SUFFICES ASSUME NEW d \in Dir, NEW file \in {"poetry.toml", ".bundle/config"}
             PROVE  \A i, j \in Settings(Read(v, d, file)) : i = j
  BY DEF SetOnce
<1> DEFINE old == Read(w, d, file)
           new == Read(v, d, file)
<1>1. old \in Seq(Word) /\ \A i, j \in Settings(old) : i = j
  BY Contents DEF SetOnce
<1>2. SameThere(w, v, d, file) \/ ChangedThere(w, v, d, file)
  BY DEF Rewrote
<1>3. CASE new = old
  BY <1>1, <1>3
<1>4. CASE Becomes(file, old, new) /\ file = "poetry.toml"
  <2>1. new = UpsertTOML(old)
    BY <1>4 DEF Becomes
  <2> HIDE DEF old, new
  <2>2. \/ Settings(new) = Settings(old)
        \/ Settings(old) = {} /\ Settings(new) = Settings(old) \cup {Len(old) + 1}
    BY <1>1, <2>1, UpsertSets, AppendSets
  <2>3. \A i, j \in Settings(new) : i = j
    BY <1>1, <2>2
  <2>4. QED
    BY <2>3 DEF new
<1>5. CASE Becomes(file, old, new) /\ file = ".bundle/config"
  <2>1. new = Keep(old)
    BY <1>5 DEF Becomes, Kept
  <2> HIDE DEF old, new
  <2>2. Settings(new) = Settings(old) \/ Settings(new) = {Len(old) + 1}
    BY <1>1, <2>1, KeepSets
  <2>3. \A i, j \in Settings(new) : i = j
    BY <1>1, <2>2
  <2>4. QED
    BY <2>3 DEF new
<1>6. QED
  BY <1>2, <1>3, <1>4, <1>5 DEF SameThere, ChangedThere

(* What preparers leave of a file ends with a newline if they append to it raw. *)
LEMMA RewroteExpected ==
  ASSUME NEW w, IsWorkspace(w), NEW v, Rewrote(w, v), Expected(w)
  PROVE  Expected(v)
<1>1. SetOnce(v)
  BY RewroteSetOnce DEF Expected
<1>2. ASSUME NEW d \in Dir, NEW file \in Raw PROVE LastLineEnds(Read(v, d, file))
  <2>1. Read(w, d, file) \in Seq(Word) /\ LastLineEnds(Read(w, d, file))
    BY Contents DEF Expected, RawEnd
  <2>2. SameThere(w, v, d, file) \/ ChangedThere(w, v, d, file)
    BY DEF Rewrote
  <2>3. Read(v, d, file) \in {Read(w, d, file), AppendRaw(Read(w, d, file))}
    BY <2>2 DEF SameThere, ChangedThere, Becomes
  <2>4. QED
    BY <2>1, <2>3, RawSets
<1>3. QED
  BY <1>1, <1>2 DEF Expected, RawEnd

(* A file that preparers expect is one that they make lead to their directory. *)
LEMMA ExpectedFile ==
  ASSUME NEW w, Expected(w), NEW d \in Dir, NEW tool \in DOMAIN Configured
  PROVE  /\ tool = "poetry" => \A i, j \in Settings(Read(w, d, Configured[tool])) : i = j
         /\ tool \in {"maven", "bazel"} => LastLineEnds(Read(w, d, Configured[tool]))
<1>1. /\ tool = "poetry" => Configured[tool] \in {"poetry.toml", ".bundle/config"}
      /\ tool \in {"maven", "bazel"} => Configured[tool] \in Raw
  BY ConfiguredTools DEF Raw
<1>2. QED
  BY <1>1 DEF Expected, SetOnce, RawEnd

(* Preparers lead no tool astray. *)
LEMMA RewroteLeads ==
  ASSUME NEW w, IsWorkspace(w), NEW v, Rewrote(w, v), Expected(w)
  PROVE  StillLeads(w, v)
<1> SUFFICES ASSUME NEW tool \in DOMAIN Configured, NEW d \in Dir, LeadsThere(w, tool, d)
             PROVE  LeadsThere(v, tool, d)
  BY DEF StillLeads
<1>1. Read(w, d, Configured[tool]) \in Seq(Word) /\ LastIsOwn(Read(w, d, Configured[tool]))
  BY Contents DEF LeadsThere
<1>2. CASE SameThere(w, v, d, Configured[tool])
  BY <1>1, <1>2 DEF SameThere, LeadsThere
<1>3. CASE ChangedThere(w, v, d, Configured[tool])
  <2>1. Becomes(Configured[tool], Read(w, d, Configured[tool]), Read(v, d, Configured[tool]))
    BY <1>3 DEF ChangedThere
  <2>3. LastIsOwn(Read(v, d, Configured[tool]))
    BY <1>1, <2>1, BecomesOwn, ExpectedFile
  <2>4. QED
    BY <2>3 DEF LeadsThere
<1>4. QED
  BY <1>2, <1>3 DEF Rewrote

(* The write of a file is the one there is for it. *)
LEMMA WrittenThere ==
  ASSUME NEW w, NEW writes, \A x \in writes : GoodWrite(w, x),
         NEW x \in writes, NEW d, NEW file, x[1] = <<d, file>>
  PROVE  Becomes(file, Read(w, d, file), Read(With(w, writes), d, file))
<1> DEFINE pick == CHOOSE y \in writes : y[1] = <<d, file>>
<1>1. pick \in writes /\ pick[1] = <<d, file>>
  OBVIOUS
<1>2. Read(With(w, writes), d, file) = pick[2]
  BY DEF With, Read, Exists
<1>3. PICK e, preparer : IsWrite(w, e, preparer, pick)
  BY <1>1 DEF GoodWrite
<1>4. PICK g : pick[1] = <<e, g>> /\ Becomes(g, Read(w, e, g), pick[2])
  BY <1>3 DEF IsWrite
<1>5. e = d /\ g = file
  BY <1>1, <1>4
<1>6. QED
  BY <1>2, <1>4, <1>5

-----------------------------------------------------------------------------
(* Every entry is prepared by a preparer that there is. *)
Preparers == DOMAIN Own \cup {"golang"}

(* No entry has another one. *)
LEMMA EntryPreparers == \A n \in 1..Size : Info(n).preparer \in Preparers
<1> SUFFICES ASSUME NEW n \in 1..Size PROVE Info(n).preparer \in Preparers
  OBVIOUS
<1>1. EntryIs(n)
  BY Entries
<1>2. Preparers = {"maven", "gradle", "bazel", "bzlmod", "node", "fallback", "yarn", "dotnet",
                   "poetry", "uv", "pipenv", "pip", "fastlane", "cocoapods", "spm", "golang"}
  BY DEF Preparers, Own
<1>3. QED
  BY <1>1, <1>2 DEF EntryIs, Entry, Plainly

(* A preparer keeps the cache of a tool in the tool's own directory. *)
KeepsOwn(w, env, d, preparer, tool) ==
  /\ preparer = tool \/ (preparer = "bzlmod" /\ tool = "bazel")
  /\ ~ fromEnv(env, preparer) /\ ~ (preparer = "fastlane" /\ findBundlePath(w, d))

(* What is cached in a directory of a tool's own, the preparer of the tool returned. *)
LEMMA OwnIsPrepared ==
  ASSUME NEW w, NEW env, NEW e, NEW preparer \in Preparers, NEW tool \in DOMAIN Configured,
         NEW d \in Dir,
         <<d, Own[tool]>> \in {Prepared(w, env, e, preparer)}
           \cup additionalCacheDirs(w, env, e, preparer)
  PROVE  d = e /\ KeepsOwn(w, env, d, preparer, tool)
<1>1. d # "elsewhere"
  BY DEF Dir
<1>2. <<d, Own[tool]>> \notin additionalCacheDirs(w, env, e, preparer)
  BY <1>1, ConfiguredTools, OwnDirs DEF additionalCacheDirs, npmCacheDirs, nodeModulesDirs,
     cocoapodsCacheDirs, spmCacheDirs, Elsewhere
<1>3. <<d, Own[tool]>> = Prepared(w, env, e, preparer)
  BY <1>2
<1>4. ~ fromEnv(env, preparer) /\ ~ (preparer = "fastlane" /\ findBundlePath(w, e))
  <2>1. ASSUME fromEnv(env, preparer) \/ (preparer = "fastlane" /\ findBundlePath(w, e)) PROVE FALSE
    <3>1. Prepared(w, env, e, preparer) = <<"elsewhere", preparer>>
      BY <2>1 DEF Prepared, Elsewhere, fromEnv
    <3>2. QED
      BY <1>1, <1>3, <3>1
  <2>2. QED
    BY <2>1
<1>5. preparer # "golang"
  BY <1>3, <1>4, ConfiguredTools, OwnDirs DEF Prepared
<1>6. d = e /\ Own[tool] = Own[preparer]
  BY <1>3, <1>4, <1>5 DEF Prepared
<1>7. preparer \in DOMAIN Own
  BY <1>5 DEF Preparers
<1>8. DOMAIN Own = {"maven", "gradle", "bazel", "bzlmod", "node", "fallback", "yarn", "dotnet",
                    "poetry", "uv", "pipenv", "pip", "fastlane", "cocoapods", "spm"}
  BY DEF Own
<1>9. preparer = tool \/ (preparer = "bzlmod" /\ tool = "bazel")
  BY <1>6, <1>7, <1>8, ConfiguredTools, OwnDirs
<1>10. QED
  BY <1>4, <1>6, <1>9 DEF KeepsOwn

(* It writes the tool's file; bundle's only if nothing is set there. *)
Configures(w, env, d, preparer, tool) ==
  /\ \E x \in Rewritten(w, env, d, preparer) : x[1] = <<d, Configured[tool]>>
  /\ tool = "fastlane" => Settings(Read(w, d, Configured[tool])) = {}

(* A preparer that returns it has configured it, or it was so before. *)
LEMMA PreparedLeads ==
  ASSUME NEW w, IsWorkspace(w), SetOnce(w), NEW env, NEW d \in Dir, NEW preparer,
         NEW tool \in DOMAIN Configured,
         KeepsOwn(w, env, d, preparer, tool), ~ prepareFails(w, env, d, preparer)
  PROVE  LeadsThere(w, tool, d) \/ Configures(w, env, d, preparer, tool)
<1> DEFINE old == Read(w, d, Configured[tool])
<1>0. old \in Seq(Word)
  BY Contents
<1> USE DEF KeepsOwn, Configures
<1>1. CASE tool = "dotnet"
  <2>1. preparer = "dotnet" /\ Configured[tool] = "nuget.config"
    BY <1>1, ConfiguredTools
  <2>2. CASE Settings(old) = {}
    BY <1>1, <2>1, <2>2 DEF Rewritten, dotnetWrites, Write
  <2>3. CASE Settings(old) # {}
    <3>1. "custom" \notin Range(old)
      BY <2>1 DEF prepareFails
    <3>2. Max(Settings(old)) \in Settings(old)
      BY <1>0, <2>3, SettingsBound
    <3>3. old[Max(Settings(old))] \in {"own", "custom"} /\ Max(Settings(old)) \in DOMAIN old
      BY <3>2 DEF Settings, IsSetting
    <3>4. old[Max(Settings(old))] = "own"
      BY <3>1, <3>3 DEF Range
    <3>5. QED
      BY <2>3, <3>4 DEF LeadsThere, LastIsOwn
  <2>4. QED
    BY <2>2, <2>3
<1>2. CASE tool = "fastlane"
  <2>1. preparer = "fastlane" /\ Configured[tool] = ".bundle/config"
    BY <1>2, ConfiguredTools
  <2>2. CASE Settings(old) = {}
    BY <1>2, <2>1, <2>2 DEF Rewritten, appendBundlePath, Rewrite, Write
  <2>3. CASE Settings(old) # {}
    <3>1. PICK m \in Settings(old) : m = Min(Settings(old))
      BY <1>0, <2>3, SettingsBound
    <3>2. old[m] # "custom"
      BY <2>1, <2>3, <3>1 DEF findBundlePath
    <3>3. old[m] = "own"
      BY <3>1, <3>2 DEF Settings, IsSetting
    <3>4. \A i, j \in Settings(old) : i = j
      BY <2>1 DEF SetOnce
    <3>5. Settings(old) = {m}
      BY <3>1, <3>4
    <3>6. Max(Settings(old)) = m
      BY <1>0, <3>5, TheOnly
    <3>7. QED
      BY <2>3, <3>3, <3>6 DEF LeadsThere, LastIsOwn
  <2>4. QED
    BY <2>2, <2>3
<1>3. CASE tool = "bazel"
  <2>1. preparer \in {"bazel", "bzlmod"} /\ Configured[tool] = ".bazelrc"
    BY <1>3, ConfiguredTools
  <2> DEFINE x == << <<d, ".bazelrc">>, AppendRaw(Read(w, d, ".bazelrc")) >>
  <2>2. x \in appendToBazelrc(w, d) /\ x \in appendToBazelrcBzlmod(w, d)
    BY DEF appendToBazelrc, appendToBazelrcBzlmod, Rewrite, Write
  <2>3. x \in Rewritten(w, env, d, preparer)
    BY <2>1, <2>2 DEF Rewritten
  <2>4. QED
    BY <1>3, <2>1, <2>3
<1>4. CASE tool \in {"maven", "gradle", "yarn", "poetry"}
  <2>1. preparer = tool
    BY <1>4
  <2>2. CASE tool = "maven"
    BY <2>1, <2>2, ConfiguredTools DEF Rewritten, mavenWrites, Rewrite, Write
  <2>3. CASE tool = "gradle"
    BY <2>1, <2>3, ConfiguredTools DEF Rewritten, gradleWrites, Rewrite, Write
  <2>4. CASE tool = "yarn"
    <3> DEFINE x == << <<d, ".yarnrc">>, AppendLine(Read(w, d, ".yarnrc")) >>
    <3>1. x \in yarnWrites(w, d)
      BY DEF yarnWrites, Rewrite, Write
    <3>2. x \in Rewritten(w, env, d, preparer)
      BY <2>1, <2>4, <3>1 DEF Rewritten
    <3>3. QED
      BY <2>4, <3>2, ConfiguredTools
  <2>5. CASE tool = "poetry"
    BY <2>1, <2>5, ConfiguredTools DEF Rewritten, poetryWrites, Rewrite, Write
  <2>6. QED
    BY <1>4, <2>2, <2>3, <2>4, <2>5
<1>5. QED
  BY <1>1, <1>2, <1>3, <1>4, ConfiguredTools

(* A directory that is prepared is one that does not fail. *)
LEMMA ReadyDoesNotFail ==
  ASSUME NEW w, NEW env, NEW info, NEW dirs, NEW d \in Ready(w, env, info, dirs)
  PROVE  d \in dirs /\ ~ prepareFails(w, env, d, info.preparer)
<1>1. ~ IsBefore(d, d)
  <2>1. DOMAIN Order = {1, 2, 3} /\ Order[1] = "root" /\ Order[2] = "a" /\ Order[3] = "b"
    BY DEF Order
  <2>2. QED
    BY <2>1 DEF IsBefore
<1>2. QED
  BY <1>1 DEF Ready

(* An entry adds directories that its tool is led to, and keeps the others so. *)
LEMMA DetectToolLeads ==
  ASSUME NEW acc, IsAcc(acc), IsWorkspace(acc.ws), Expected(acc.ws), Leads(acc.ws, acc.dirs),
         NEW env, NEW n \in 1..Size, NEW force
  PROVE  LET b == DetectTool(acc, env, Info(n), force) IN
         Leads(b.ws, b.dirs) /\ Expected(b.ws) /\ StillLeads(acc.ws, b.ws)
<1> DEFINE info == Info(n)
           b == DetectTool(acc, env, info, force)
           ready == Ready(acc.ws, env, info, Found(acc.ws, info))
           writes == Writes(acc.ws, env, info, ready)
<1>1. Rewrote(acc.ws, b.ws)
  BY DetectToolRewrites
<1>2. Expected(b.ws) /\ StillLeads(acc.ws, b.ws)
  BY <1>1, RewroteExpected, RewroteLeads
<1>3. Parts(acc, env, info, force, b)
  BY DetectToolParts
<1>4. Leads(b.ws, b.dirs)
  <2> SUFFICES ASSUME NEW tool \in DOMAIN Configured, NEW d \in Dir, <<d, Own[tool]>> \in b.dirs
               PROVE  LeadsThere(b.ws, tool, d)
    BY DEF Leads
  <2>1. CASE <<d, Own[tool]>> \in acc.dirs
    BY <1>2, <2>1 DEF Leads, StillLeads
  <2>2. CASE <<d, Own[tool]>> \notin acc.dirs
    <3>1. /\ b.ws = With(acc.ws, writes)
          /\ <<d, Own[tool]>> \in ToCache(acc.ws, env, info, ready)
      BY <1>3, <2>2 DEF Parts
    <3>2. PICK e \in ready :
            <<d, Own[tool]>> \in {Prepared(acc.ws, env, e, info.preparer)}
                                   \cup additionalCacheDirs(acc.ws, env, e, info.preparer)
      BY <3>1 DEF ToCache
    <3>3. d = e /\ KeepsOwn(acc.ws, env, d, info.preparer, tool)
      BY <3>2, OwnIsPrepared, EntryPreparers
    <3>4. ~ prepareFails(acc.ws, env, d, info.preparer)
      BY <3>2, <3>3, ReadyDoesNotFail
    <3>5. CASE LeadsThere(acc.ws, tool, d)
      BY <1>2, <3>5 DEF StillLeads
    <3>6. CASE Configures(acc.ws, env, d, info.preparer, tool)
      <4>1. PICK x \in writes : x[1] = <<d, Configured[tool]>>
        BY <3>2, <3>3, <3>6 DEF Writes, Configures
      <4>2. \A y \in writes : GoodWrite(acc.ws, y)
        BY WritesAreGood
      <4>3. Becomes(Configured[tool], Read(acc.ws, d, Configured[tool]),
            Read(b.ws, d, Configured[tool]))
        BY <3>1, <4>1, <4>2, WrittenThere
      <4>4. Read(acc.ws, d, Configured[tool]) \in Seq(Word)
        BY Contents
      <4>5. LastIsOwn(Read(b.ws, d, Configured[tool]))
        BY <3>6, <4>3, <4>4, BecomesOwn, ExpectedFile DEF Configures
      <4>6. QED
        BY <4>5 DEF LeadsThere
    <3>7. LeadsThere(acc.ws, tool, d) \/ Configures(acc.ws, env, d, info.preparer, tool)
      BY <3>3, <3>4, PreparedLeads DEF Expected
    <3>8. QED
      BY <3>5, <3>6, <3>7
  <2>3. QED
    BY <2>1, <2>2
<1>5. QED
  BY <1>2, <1>4

(* What a detection finds is where the configuration leads the tools, and nothing is led astray. *)
LEMMA DetectionLeads ==
  ASSUME NEW w, IsWorkspace(w), Expected(w), NEW env, NEW skipPrepare \in BOOLEAN, NEW force
  PROVE  LET result == detectDirectoriesToCache(w, env, skipPrepare, force) IN
         Leads(result.ws, result.dirs) /\ Expected(result.ws) /\ StillLeads(w, result.ws)
<1> DEFINE result == detectDirectoriesToCache(w, env, skipPrepare, force)
<1>1. CASE skipPrepare
  <2>1. result.ws = w /\ result.dirs = {}
    BY <1>1 DEF detectDirectoriesToCache, Nothing
  <2>2. QED
    BY <2>1 DEF Leads, StillLeads
<1>2. CASE ~ skipPrepare
  <2>1. PICK run : /\ Loop(run, w, env, force, Size)
                   /\ detectDirectoriesToCache(w, env, FALSE, force) = run[Size]
    BY DetectionIsLoop
  <2>2. \A n \in 0..Size : IsAcc(run[n]) /\ IsWorkspace(run[n].ws)
    BY <2>1, LoopIsWorkspace
  <2> DEFINE Good(n) == Leads(run[n].ws, run[n].dirs) /\ Expected(run[n].ws)
        /\ StillLeads(w, run[n].ws)
             T == {n \in 0..Size : Good(n)}
  <2>3. 0 \in T
    <3>1. run[0].ws = w /\ run[0].dirs = {} /\ 0 \in 0..Size
      BY <2>1 DEF Loop, Nothing, Size
    <3>2. QED
      BY <3>1 DEF Leads, StillLeads
  <2>4. ASSUME NEW n \in 1..Size, n - 1 \in T PROVE n \in T
    <3>1. n \in 0..Size /\ n - 1 \in 0..Size
      BY DEF Size
    <3>2. run[n] = DetectTool(run[n-1], env, Info(n), force)
      BY <2>1 DEF Loop
    <3>3. IsAcc(run[n-1]) /\ IsWorkspace(run[n-1].ws) /\ Good(n-1)
      BY <2>2, <2>4, <3>1
    <3>4. Leads(run[n].ws, run[n].dirs) /\ Expected(run[n].ws) /\ StillLeads(run[n-1].ws, run[n].ws)
      BY <3>2, <3>3, DetectToolLeads
    <3>5. StillLeads(w, run[n].ws)
      BY <3>3, <3>4 DEF StillLeads
    <3>6. QED
      BY <3>1, <3>4, <3>5
  <2> HIDE DEF T
  <2>5. \A n \in 0..Size : n \in T
    BY <2>3, <2>4, UpToSize
  <2>6. Good(Size)
    BY <2>5 DEF T, Size
  <2>7. result = run[Size]
    <3>1. skipPrepare = FALSE
      BY <1>2
    <3>2. QED
      BY <2>1, <3>1
  <2>8. QED
    BY <2>6, <2>7
<1>3. QED
  BY <1>1, <1>2

-----------------------------------------------------------------------------
(***************************************************************************)
(* Workspaces that a detection does not tell apart, but for the files      *)
(* ignored: what preparers write is not what it looks at.                  *)
(***************************************************************************)
NpmLocks == {"package-lock.json", "yarn.lock"}

HasCustom(w, d) == "custom" \in Range(Read(w, d, "nuget.config"))

(* A file other than those of preparers; they write to pyproject.toml for uv only. *)
AlikeAt(w, v, d, file) ==
  /\ Exists(v, d, file) <=> Exists(w, d, file)
  /\ Read(v, d, file) = Read(w, d, file) \/ (file = "pyproject.toml" /\ Exists(w, d, "uv.lock"))

(* What a detection reads of the preparers' files. *)
AlikeIn(w, v, d) ==
  (findBundlePath(v, d) <=> findBundlePath(w, d)) /\ (HasCustom(v, d) <=> HasCustom(w, d))

Alike(w, v, ignored) ==
  /\ \A d \in Dir : AlikeIn(w, v, d)
  /\ \A d \in Dir : \A file : file \notin Configuration \cup ignored => AlikeAt(w, v, d, file)

(* Files that are looked for and that preparers do not write. *)
LEMMA NotConfiguration ==
  /\ "uv.lock" \notin Configuration \cup NpmLocks
  /\ "pyproject.toml" \notin Configuration \cup NpmLocks
  /\ ".npmrc" \notin Configuration \cup NpmLocks
  /\ "package.json" \notin Configuration \cup NpmLocks
  /\ NpmLocks \cap Configuration = {}
BY DEF Configuration, NpmLocks

(* Being alike is reflexive, and it is kept when more is ignored. *)
LEMMA AlikeSelf == \A w, ignored : Alike(w, w, ignored)
BY DEF Alike, AlikeAt, AlikeIn

LEMMA AlikeMore ==
  ASSUME NEW w, NEW v, NEW less, NEW more, less \subseteq more, Alike(w, v, less)
  PROVE  Alike(w, v, more)
BY DEF Alike

(* It is symmetric. *)
LEMMA AlikeBack ==
  ASSUME NEW w, NEW v, NEW ignored \in SUBSET NpmLocks, Alike(w, v, ignored)
  PROVE  Alike(v, w, ignored)
<1>1. \A d \in Dir : AlikeIn(v, w, d)
  BY DEF Alike, AlikeIn
<1>2. \A d \in Dir : Exists(v, d, "uv.lock") <=> Exists(w, d, "uv.lock")
  BY NotConfiguration DEF Alike, AlikeAt
<1>3. \A d \in Dir : \A file : file \notin Configuration \cup ignored => AlikeAt(v, w, d, file)
  BY <1>2 DEF Alike, AlikeAt
<1>4. QED
  BY <1>1, <1>3 DEF Alike

(* It is transitive. *)
LEMMA AlikeThrough ==
  ASSUME NEW u, NEW w, NEW v, NEW ignored \in SUBSET NpmLocks, Alike(u, w, ignored),
         Alike(w, v, ignored)
  PROVE  Alike(u, v, ignored)
<1>1. \A d \in Dir : AlikeIn(u, v, d)
  BY DEF Alike, AlikeIn
<1>2. \A d \in Dir : Exists(w, d, "uv.lock") <=> Exists(u, d, "uv.lock")
  BY NotConfiguration DEF Alike, AlikeAt
<1>3. \A d \in Dir : \A file : file \notin Configuration \cup ignored => AlikeAt(u, v, d, file)
  BY <1>2 DEF Alike, AlikeAt
<1>4. QED
  BY <1>1, <1>3 DEF Alike

(* What preparers write is not told apart. *)
LEMMA RewroteAlike ==
  ASSUME NEW w, IsWorkspace(w), NEW v, Rewrote(w, v)
  PROVE  Alike(w, v, {})
<1>1. ASSUME NEW d \in Dir, NEW file, file \notin Configuration PROVE AlikeAt(w, v, d, file)
  <2>1. SameThere(w, v, d, file) \/ ChangedThere(w, v, d, file)
    BY DEF Rewrote
  <2>2. QED
    BY <1>1, <2>1 DEF SameThere, ChangedThere, AlikeAt
<1>2. ASSUME NEW d \in Dir PROVE findBundlePath(v, d) <=> findBundlePath(w, d)
  <2> DEFINE old == Read(w, d, ".bundle/config")
             new == Read(v, d, ".bundle/config")
  <2>1. new = old \/ new = Keep(old)
    BY DEF Rewrote, SameThere, ChangedThere, Becomes, Kept
  <2>2. old \in Seq(Word)
    BY Contents
  <2>3. CASE new = old
    BY <2>3 DEF findBundlePath
  <2>4. CASE new = Keep(old) /\ Settings(old) # {}
    BY <2>4 DEF findBundlePath, Keep
  <2>5. CASE new = Keep(old) /\ Settings(old) = {}
    <3>1. Settings(Keep(old)) = {Len(old) + 1} /\ Keep(old)[Len(old) + 1] = "own"
          /\ Keep(old) \in Seq(Word)
      BY <2>2, <2>5, KeepSets
    <3>2. Min(Settings(Keep(old))) = Len(old) + 1
      BY <3>1, TheOnly
    <3>3. ~ findBundlePath(v, d)
      BY <2>5, <3>1, <3>2 DEF findBundlePath
    <3>4. ~ findBundlePath(w, d)
      BY <2>5 DEF findBundlePath
    <3>5. QED
      BY <3>3, <3>4
  <2>6. QED
    BY <2>1, <2>3, <2>4, <2>5
<1>3. ASSUME NEW d \in Dir PROVE HasCustom(v, d) <=> HasCustom(w, d)
  <2> DEFINE old == Read(w, d, "nuget.config")
             new == Read(v, d, "nuget.config")
  <2>1. new = old \/ (new = <<"own">> /\ Settings(old) = {})
    BY DEF Rewrote, SameThere, ChangedThere, Becomes
  <2>2. CASE new = old
    BY <2>2 DEF HasCustom
  <2>3. CASE new = <<"own">> /\ Settings(old) = {}
    <3>1. "custom" \notin Range(new)
      BY <2>3 DEF Range
    <3>2. "custom" \notin Range(old)
      BY <2>3 DEF Settings, IsSetting, Range
    <3>3. QED
      BY <3>1, <3>2 DEF HasCustom
  <2>4. QED
    BY <2>1, <2>2, <2>3
<1>4. QED
  BY <1>1, <1>2, <1>3 DEF Alike, AlikeIn

-----------------------------------------------------------------------------
(* In alike workspaces an entry whose files are not ignored does the same. *)

(* It is found in the same directories. *)
LEMMA FoundAlike ==
  ASSUME NEW w, NEW v, NEW ignored, Alike(w, v, ignored), NEW info,
         info.glob \notin Configuration \cup ignored,
         info.exclude \cap (Configuration \cup ignored) = {}
  PROVE  Found(v, info) = Found(w, info)
<1>1. \A d \in Dir : Exists(v, d, info.glob) <=> Exists(w, d, info.glob)
  BY DEF Alike, AlikeAt
<1>2. \A d \in Dir, b \in info.exclude : Exists(v, d, b) <=> Exists(w, d, b)
  BY DEF Alike, AlikeAt
<1>3. "root" \in Dir
  BY DEF Dir
<1>4. matches(v, info.glob) = matches(w, info.glob) /\ matches(w, info.glob) \subseteq Dir
  BY <1>1, <1>3 DEF matches
<1>5. eligible(v, info.glob, info.exclude) = eligible(w, info.glob, info.exclude)
  BY <1>2, <1>4 DEF eligible
<1>6. QED
  BY <1>5 DEF Found

(* It is prepared in the same ones, for the same paths. *)
LEMMA PreparesAlike ==
  ASSUME NEW w, NEW v, NEW ignored \in SUBSET NpmLocks, Alike(w, v, ignored), NEW env, NEW info,
         NEW dirs \in SUBSET Dir
  PROVE  /\ Ready(v, env, info, dirs) = Ready(w, env, info, dirs)
         /\ ToCache(v, env, info, dirs) = ToCache(w, env, info, dirs)
<1>1. \A d \in Dir : prepareFails(v, env, d, info.preparer)
      <=> prepareFails(w, env, d, info.preparer)
  BY DEF Alike, AlikeIn, HasCustom, prepareFails
<1>2. \A d \in Dir : Read(v, d, ".npmrc") = Read(w, d, ".npmrc")
  BY NotConfiguration DEF Alike, AlikeAt
<1>3. \A d \in Dir : additionalCacheDirs(v, env, d, info.preparer)
      = additionalCacheDirs(w, env, d, info.preparer)
  BY <1>2 DEF additionalCacheDirs, npmCacheDirs
<1>4. \A d \in Dir : Prepared(v, env, d, info.preparer) = Prepared(w, env, d, info.preparer)
  BY DEF Alike, AlikeIn, Prepared
<1>5. Ready(v, env, info, dirs) = Ready(w, env, info, dirs)
  BY <1>1 DEF Ready
<1>6. ToCache(v, env, info, dirs) = ToCache(w, env, info, dirs)
  BY <1>3, <1>4 DEF ToCache
<1>7. QED
  BY <1>5, <1>6

(* Those are directories of the checkout. *)
LEMMA ReadyAreFound ==
  ASSUME NEW w, NEW env, NEW info, NEW u
  PROVE  /\ Found(w, info) \in SUBSET Dir
         /\ Ready(u, env, info, Found(w, info)) \in SUBSET Dir
BY FoundIsThere DEF Ready

-----------------------------------------------------------------------------
(* An entry that looks at no ignored file. *)
LooksAside(info, ignored) ==
  /\ info.glob \notin Configuration \cup ignored
  /\ info.exclude \cap (Configuration \cup ignored) = {}
  /\ info.hash \notin Configuration \cup ignored \cup {"pyproject.toml"}
  /\ info.glob = "pyproject.toml" => "uv.lock" \in info.exclude

(* No entry looks at the preparers' files; three look at the locks of npm and yarn. *)
LEMMA EntriesLookAside ==
  ASSUME NEW n \in 1..Size
  PROVE  LooksAside(Info(n), {}) /\ (n \notin {6, 7, 8} => LooksAside(Info(n), NpmLocks))
<1>1. EntryIs(n)
  BY Entries
<1>2. Info(n).hash \in {"", "package.json", "Gemfile.lock", "Podfile.lock", "Package.resolved"}
  BY <1>1 DEF EntryIs, Entry, Plainly
<1>3. /\ Info(n).glob \notin Configuration /\ Info(n).exclude \cap Configuration = {}
      /\ Info(n).glob = "pyproject.toml" => "uv.lock" \in Info(n).exclude
  BY <1>1 DEF EntryIs, Entry, Plainly, Configuration, NodeLocks, PythonLocks
<1>4. n \notin {6, 7, 8} => Info(n).glob \notin NpmLocks /\ Info(n).exclude \cap NpmLocks = {}
  BY <1>1 DEF EntryIs, Entry, Plainly, NpmLocks, PythonLocks
<1>5. Info(n).hash \notin Configuration \cup NpmLocks \cup {"pyproject.toml"}
  BY <1>2 DEF Configuration, NpmLocks
<1>6. QED
  BY <1>3, <1>4, <1>5 DEF LooksAside

(* A sum, told by the contents. *)
SumOf(contents, dirs) ==
  LET order == InOrder(dirs)
  IN IF dirs = {} THEN <<>> ELSE <<FlattenSeq([i \in DOMAIN order |-> contents[order[i]]])>>

(* Equal contents have equal sums. *)
LEMMA SumsAlike ==
  ASSUME NEW w, NEW v, NEW dirs, NEW glob, \A d \in dirs : Read(v, d, glob) = Read(w, d, glob)
  PROVE  Sums(v, dirs, glob) = Sums(w, dirs, glob)
<1>1. [d \in dirs |-> Read(v, d, glob)] = [d \in dirs |-> Read(w, d, glob)]
  OBVIOUS
<1>2. \A u : Sums(u, dirs, glob) = SumOf([d \in dirs |-> Read(u, d, glob)], dirs)
  BY DEF Sums, SumOf
<1>3. QED
  BY <1>1, <1>2

(* An entry that looks aside has the same sums in alike workspaces. *)
LEMMA HashesAlike ==
  ASSUME NEW w, NEW v, NEW ignored, Alike(w, v, ignored), NEW info, LooksAside(info, ignored)
  PROVE  Hashes(v, info) = Hashes(w, info)
<1>1. Found(v, info) = Found(w, info)
  BY FoundAlike DEF LooksAside
<1>2. \A d \in Found(w, info) : Read(v, d, info.glob) = Read(w, d, info.glob)
  <2> SUFFICES ASSUME NEW d \in Found(w, info) PROVE Read(v, d, info.glob) = Read(w, d, info.glob)
    OBVIOUS
  <2>1. d \in Dir /\ \A b \in info.exclude : ~ Exists(w, d, b)
    BY FoundIsThere
  <2>2. AlikeAt(w, v, d, info.glob)
    BY <2>1 DEF Alike, LooksAside
  <2>3. QED
    BY <2>1, <2>2 DEF AlikeAt, LooksAside
<1>3. Sums(v, Found(v, info), info.glob) = Sums(w, Found(w, info), info.glob)
  BY <1>1, <1>2, SumsAlike
<1> DEFINE hash == Tool(info.hash, "")
<1>4. hash.glob = info.hash /\ hash.exclude = {}
  BY DEF Tool, NoBlockers
<1>5. Found(v, hash) = Found(w, hash)
  <2>1. hash.glob \notin Configuration \cup ignored
        /\ hash.exclude \cap (Configuration \cup ignored) = {}
    BY <1>4 DEF LooksAside
  <2> HIDE DEF hash
  <2>2. QED
    BY <2>1, FoundAlike
<1>6. \A d \in Found(w, hash) : Read(v, d, info.hash) = Read(w, d, info.hash)
  <2> SUFFICES ASSUME NEW d \in Found(w, hash) PROVE Read(v, d, info.hash) = Read(w, d, info.hash)
    OBVIOUS
  <2>1. d \in Dir
    BY FoundIsThere
  <2>2. AlikeAt(w, v, d, info.hash)
    BY <2>1 DEF Alike, LooksAside
  <2>3. QED
    BY <2>2 DEF AlikeAt, LooksAside
<1> HIDE DEF hash
<1>7. Sums(v, Found(v, hash), info.hash) = Sums(w, Found(w, hash), info.hash)
  BY <1>5, <1>6, SumsAlike
<1>8. QED
  BY <1>3, <1>7 DEF Hashes, hash

(***************************************************************************)
(* The same entry at two accumulated results: both pass it, or both find   *)
(* it in the same directories, add the same paths and sums, and fail alike.*)
(***************************************************************************)
Adds(acc, next, tool, paths, sums, fails) ==
  /\ next.tools = acc.tools \cup {tool} /\ next.dirs = acc.dirs \cup paths
  /\ next.hashes = acc.hashes \o sums /\ next.failed = fails

(* An entry that looks aside is passed in both or adds the same to both. *)
LEMMA EntryAlike ==
  ASSUME NEW a, NEW b, IsAcc(a), IsAcc(b), IsWorkspace(a.ws), IsWorkspace(b.ws),
         NEW ignored \in SUBSET NpmLocks, Alike(a.ws, b.ws, ignored),
         NEW env, NEW n \in 1..Size, LooksAside(Info(n), ignored), NEW f, NEW g,
         Skipped(a, Info(n), f) <=> Skipped(b, Info(n), g),
         NEW anext, anext = DetectTool(a, env, Info(n), f),
         NEW bnext, bnext = DetectTool(b, env, Info(n), g)
  PROVE  /\ Alike(anext.ws, bnext.ws, ignored)
         /\ \/ anext = a /\ bnext = b
            \/ /\ ~ Skipped(a, Info(n), f) /\ ~ Skipped(b, Info(n), g)
               /\ \E paths, sums, fails : /\ Adds(a, anext, Info(n).tool, paths, sums, fails)
                                          /\ Adds(b, bnext, Info(n).tool, paths, sums, fails)
<1> DEFINE info == Info(n)
           dirs == Found(a.ws, info)
           ready == Ready(a.ws, env, info, dirs)
<1>1. /\ Parts(a, env, info, f, anext) /\ Parts(b, env, info, g, bnext)
  BY DetectToolParts
<1>2. Found(b.ws, info) = dirs
  BY FoundAlike DEF LooksAside
<1>3. dirs \in SUBSET Dir /\ ready \in SUBSET Dir
  BY ReadyAreFound
<1>4. Ready(b.ws, env, info, dirs) = ready
  BY <1>3, PreparesAlike
<1>5. ToCache(b.ws, env, info, ready) = ToCache(a.ws, env, info, ready)
  BY <1>3, PreparesAlike
<1>6. Hashes(b.ws, info) = Hashes(a.ws, info)
  BY HashesAlike
<1>7. Passed(a, info, f) <=> Passed(b, info, g)
  BY <1>2 DEF Passed
<1>8. Alike(anext.ws, bnext.ws, ignored)
  <2>1. Rewrote(a.ws, anext.ws) /\ Rewrote(b.ws, bnext.ws)
    BY DetectToolRewrites
  <2>2. Alike(a.ws, anext.ws, ignored) /\ Alike(b.ws, bnext.ws, ignored)
    BY <2>1, RewroteAlike, AlikeMore
  <2>3. Alike(anext.ws, a.ws, ignored)
    BY <2>2, AlikeBack
  <2>4. Alike(anext.ws, b.ws, ignored)
    BY <2>3, AlikeThrough
  <2>5. QED
    BY <2>2, <2>4, AlikeThrough
<1>9. CASE Passed(a, info, f)
  BY <1>1, <1>7, <1>8, <1>9 DEF Parts
<1>10. CASE ~ Passed(a, info, f)
  <2>1. ~ Skipped(a, info, f) /\ ~ Skipped(b, info, g)
    BY <1>10 DEF Passed
  <2> DEFINE paths == ToCache(a.ws, env, info, ready)
             sums == Hashes(a.ws, info)
             fails == ready # dirs
  <2>2. Adds(a, anext, info.tool, paths, sums, fails)
    BY <1>1, <1>10 DEF Parts, Adds
  <2>3. /\ bnext.dirs = b.dirs
             \cup ToCache(b.ws, env, info, Ready(b.ws, env, info, Found(b.ws, info)))
        /\ bnext.tools = b.tools \cup {info.tool}
        /\ bnext.hashes = b.hashes \o Hashes(b.ws, info)
        /\ bnext.failed = (Ready(b.ws, env, info, Found(b.ws, info)) # Found(b.ws, info))
    BY <1>1, <1>7, <1>10 DEF Parts
  <2>4. Adds(b, bnext, info.tool, paths, sums, fails)
    BY <1>2, <1>4, <1>5, <1>6, <2>3 DEF Adds
  <2> HIDE DEF paths, sums, fails
  <2>5. QED
    BY <1>8, <2>1, <2>2, <2>4
<1>11. QED
  BY <1>9, <1>10

(* Two detections that ignore nothing find the same. *)
Same(a, b) ==
  /\ a.tools = b.tools /\ a.dirs = b.dirs /\ a.hashes = b.hashes /\ a.failed = b.failed
  /\ Alike(a.ws, b.ws, {})

(* The detections of alike workspaces are the same. *)
LEMMA SameDetection ==
  ASSUME NEW w, NEW v, IsWorkspace(w), IsWorkspace(v), Alike(w, v, {}), NEW env, NEW force
  PROVE  Same(detectDirectoriesToCache(w, env, FALSE, force),
              detectDirectoriesToCache(v, env, FALSE, force))
<1>1. PICK r : Loop(r, w, env, force, Size)
      /\ detectDirectoriesToCache(w, env, FALSE, force) = r[Size]
  BY DetectionIsLoop
<1>2. PICK q : Loop(q, v, env, force, Size)
      /\ detectDirectoriesToCache(v, env, FALSE, force) = q[Size]
  BY DetectionIsLoop
<1>3. \A n \in 0..Size : IsAcc(r[n]) /\ IsWorkspace(r[n].ws) /\ IsAcc(q[n]) /\ IsWorkspace(q[n].ws)
  BY <1>1, <1>2, LoopIsWorkspace
<1> DEFINE T == {n \in 0..Size : Same(r[n], q[n])}
<1>4. 0 \in T
  <2>1. r[0] = Nothing(w) /\ q[0] = Nothing(v)
    BY <1>1, <1>2 DEF Loop
  <2>2. Same(r[0], q[0])
    BY <2>1 DEF Same, Nothing
  <2>3. QED
    BY <2>2 DEF Size
<1>5. ASSUME NEW n \in 1..Size, n - 1 \in T PROVE n \in T
  <2>1. n \in 0..Size /\ n - 1 \in 0..Size
    BY DEF Size
  <2>2. r[n] = DetectTool(r[n-1], env, Info(n), force)
        /\ q[n] = DetectTool(q[n-1], env, Info(n), force)
    BY <1>1, <1>2 DEF Loop
  <2>3. Same(r[n-1], q[n-1])
    BY <1>5
  <2>4. Skipped(r[n-1], Info(n), force) <=> Skipped(q[n-1], Info(n), force)
    BY <2>3 DEF Skipped, Same
  <2>5. IsAcc(r[n-1]) /\ IsWorkspace(r[n-1].ws) /\ IsAcc(q[n-1]) /\ IsWorkspace(q[n-1].ws)
    BY <1>3, <2>1
  <2>6. LooksAside(Info(n), {}) /\ {} \in SUBSET NpmLocks
    BY EntriesLookAside
  <2>7. /\ Alike(r[n].ws, q[n].ws, {})
        /\ \/ r[n] = r[n-1] /\ q[n] = q[n-1]
           \/ \E paths, sums, fails : /\ Adds(r[n-1], r[n], Info(n).tool, paths, sums, fails)
                                      /\ Adds(q[n-1], q[n], Info(n).tool, paths, sums, fails)
    BY <2>2, <2>3, <2>4, <2>5, <2>6, EntryAlike DEF Same
  <2>8. Same(r[n], q[n])
    BY <2>3, <2>7 DEF Same, Adds
  <2>9. QED
    BY <2>1, <2>8
<1> HIDE DEF T
<1>6. \A n \in 0..Size : n \in T
  BY <1>4, <1>5, UpToSize
<1>7. Same(r[Size], q[Size])
  BY <1>6 DEF T, Size
<1>8. QED
  BY <1>1, <1>2, <1>7

-----------------------------------------------------------------------------
(* Sums are sequences, and an entry that is found adds one. *)
AreSums(h) == \E S : h \in Seq(S)

(* One sequence of sums after the other is one. *)
LEMMA ConcatSums ==
  ASSUME NEW g, NEW h, AreSums(g), AreSums(h)
  PROVE  AreSums(g \o h) /\ Len(g \o h) = Len(g) + Len(h) /\ Len(g) \in Nat /\ Len(h) \in Nat
<1>1. PICK S : g \in Seq(S)
  BY DEF AreSums
<1>2. PICK T : h \in Seq(T)
  BY DEF AreSums
<1>3. g \in Seq(S \cup T)
  BY <1>1, SeqMonotonic
<1>4. h \in Seq(S \cup T)
  BY <1>2, SeqMonotonic
<1>5. g \o h \in Seq(S \cup T) /\ Len(g \o h) = Len(g) + Len(h)
  BY <1>3, <1>4, ConcatProperties
<1>6. Len(g) \in Nat /\ Len(h) \in Nat
  BY <1>1, <1>2, LenProperties
<1>7. QED
  BY <1>5, <1>6 DEF AreSums

(* Files that are found have one sum. *)
LEMMA SumsAreSums ==
  ASSUME NEW w, NEW dirs, NEW glob
  PROVE  AreSums(Sums(w, dirs, glob)) /\ (dirs # {} => Len(Sums(w, dirs, glob)) = 1)
<1>1. CASE dirs = {}
  <2>1. Sums(w, dirs, glob) = <<>>
    BY <1>1 DEF Sums
  <2>2. <<>> \in Seq({})
    BY EmptySeq
  <2>3. QED
    BY <1>1, <2>1, <2>2 DEF AreSums
<1>2. CASE dirs # {}
  <2>1. PICK x : Sums(w, dirs, glob) = <<x>>
    BY <1>2 DEF Sums
  <2>2. <<x>> \in Seq({x}) /\ Len(<<x>>) = 1
    OBVIOUS
  <2>3. QED
    BY <2>1, <2>2 DEF AreSums
<1>3. QED
  BY <1>1, <1>2

(* An entry that is found has sums. *)
LEMMA HashesAreSums ==
  ASSUME NEW w, NEW info, Found(w, info) # {}
  PROVE  AreSums(Hashes(w, info)) /\ Len(Hashes(w, info)) \in Nat \ {0}
<1> DEFINE last == Sums(w, Found(w, info), info.glob)
           first == IF info.hash = "" THEN <<>>
                    ELSE Sums(w, Found(w, Tool(info.hash, "")), info.hash)
<1>1. AreSums(last) /\ Len(last) = 1
  BY SumsAreSums
<1>2. AreSums(first)
  <2>1. AreSums(<<>>)
    <3>1. <<>> \in Seq({})
      BY EmptySeq
    <3>2. QED
      BY <3>1 DEF AreSums
  <2>2. QED
    BY <2>1, SumsAreSums
<1>3. Hashes(w, info) = first \o last
  BY DEF Hashes
<1> HIDE DEF first, last
<1>4. AreSums(first \o last) /\ Len(first \o last) = Len(first) + Len(last) /\ Len(first) \in Nat
  BY <1>1, <1>2, ConcatSums
<1>5. QED
  BY <1>1, <1>3, <1>4

Summed(acc) == AreSums(acc.hashes) /\ (acc.tools # {} => Len(acc.hashes) # 0)

(* A detection that finds a tool has sums: its key is not empty. *)
LEMMA FoundIsSummed ==
  ASSUME NEW w, IsWorkspace(w), NEW env, NEW force
  PROVE  LET result == detectDirectoriesToCache(w, env, FALSE, force) IN
         result.tools # {} => result.hashes # <<>>
<1>1. PICK r : Loop(r, w, env, force, Size)
      /\ detectDirectoriesToCache(w, env, FALSE, force) = r[Size]
  BY DetectionIsLoop
<1>2. \A n \in 0..Size : IsAcc(r[n])
  BY <1>1, LoopIsWorkspace
<1> DEFINE T == {n \in 0..Size : Summed(r[n])}
<1>3. 0 \in T
  <2>1. r[0].hashes = <<>> /\ r[0].tools = {}
    BY <1>1 DEF Loop, Nothing
  <2>2. <<>> \in Seq({})
    BY EmptySeq
  <2>3. Summed(r[0])
    BY <2>1, <2>2 DEF Summed, AreSums
  <2>4. QED
    BY <2>3 DEF Size
<1>4. ASSUME NEW n \in 1..Size, n - 1 \in T PROVE n \in T
  <2>1. n \in 0..Size /\ n - 1 \in 0..Size
    BY DEF Size
  <2>2. r[n] = DetectTool(r[n-1], env, Info(n), force)
    BY <1>1 DEF Loop
  <2>3. Parts(r[n-1], env, Info(n), force, r[n])
    BY <1>2, <2>1, <2>2, DetectToolParts
  <2>4. Summed(r[n-1])
    BY <1>4
  <2>5. CASE Passed(r[n-1], Info(n), force)
    BY <2>1, <2>3, <2>4, <2>5 DEF Parts
  <2>6. CASE ~ Passed(r[n-1], Info(n), force)
    <3>1. r[n].hashes = r[n-1].hashes \o Hashes(r[n-1].ws, Info(n))
      BY <2>3, <2>6 DEF Parts
    <3>2. AreSums(Hashes(r[n-1].ws, Info(n))) /\ Len(Hashes(r[n-1].ws, Info(n))) \in Nat \ {0}
      BY <2>6, HashesAreSums DEF Passed
    <3>3. AreSums(r[n-1].hashes)
      BY <2>4 DEF Summed
    <3>4. /\ AreSums(r[n].hashes) /\ Len(r[n-1].hashes) \in Nat
          /\ Len(r[n].hashes) = Len(r[n-1].hashes) + Len(Hashes(r[n-1].ws, Info(n)))
      BY <3>1, <3>2, <3>3, ConcatSums
    <3>5. Len(r[n].hashes) # 0
      <4>1. \A p, q \in Nat : q # 0 => p + q # 0
        OBVIOUS
      <4>2. Len(r[n-1].hashes) + Len(Hashes(r[n-1].ws, Info(n))) # 0
        BY <3>2, <3>4, <4>1
      <4>3. QED
        BY <3>4, <4>2
    <3>6. QED
      BY <2>1, <3>4, <3>5 DEF Summed
  <2>7. QED
    BY <2>5, <2>6
<1> HIDE DEF T
<1>5. \A n \in 0..Size : n \in T
  BY <1>3, <1>4, UpToSize
<1>6. Summed(r[Size])
  BY <1>5 DEF T, Size
<1>7. r[Size].tools # {} => r[Size].hashes # <<>>
  <2>1. Len(<<>>) = 0
    OBVIOUS
  <2>2. QED
    BY <1>6, <2>1 DEF Summed
<1>8. QED
  BY <1>1, <1>7

-----------------------------------------------------------------------------
(* Where package.json stands alone. *)

(* Only nuget.config is refused. *)
LEMMA OnlyDotnetFails ==
  ASSUME NEW w, NEW env, NEW info, info.preparer # "dotnet", NEW dirs
  PROVE  Ready(w, env, info, dirs) = dirs
BY DEF Ready, prepareFails

(* None of the first nine entries is dotnet's. *)
LEMMA FirstPreparers ==
  ASSUME NEW n \in 1..Size, n <= 9
  PROVE  Info(n).preparer # "dotnet"
<1>1. n \in {1, 2, 3, 4, 5, 6, 7, 8, 9}
  BY DEF Size
<1>2. /\ Plainly(Info(1), "pom.xml", "maven")
      /\ Plainly(Info(2), "build.gradle.kts", "gradle")
      /\ Plainly(Info(3), "build.gradle", "gradle")
      /\ Entry(Info(4), "MODULE.bazel", "bazel", "bzlmod", "", FALSE, {})
      /\ Plainly(Info(5), "WORKSPACE", "bazel")
  BY Table
<1>3. /\ Plainly(Info(6), "package-lock.json", "node")
      /\ Entry(Info(7), "package.json", "node", "fallback", "", FALSE, NodeLocks)
      /\ Entry(Info(8), "yarn.lock", "yarn", "yarn", "package.json", FALSE, {})
      /\ Plainly(Info(9), "go.mod", "golang")
  BY Table
<1>4. CASE n \in {1, 2, 3, 4, 5}
  BY <1>2, <1>4 DEF Entry, Plainly
<1>5. CASE n \in {6, 7, 8, 9}
  BY <1>3, <1>5 DEF Entry, Plainly
<1>6. QED
  BY <1>1, <1>4, <1>5

(* None of them fails. *)
LEMMA FirstDoNotFail ==
  ASSUME NEW r, NEW w, IsWorkspace(w), NEW env, NEW force, Loop(r, w, env, force, Size)
  PROVE  \A n \in 0..9 : r[n].failed = FALSE
<1>1. \A n \in 0..Size : IsAcc(r[n])
  BY LoopIsWorkspace
<1> DEFINE T == {n \in 0..Size : n <= 9 => r[n].failed = FALSE}
<1>2. 0 \in T
  BY DEF Loop, Nothing, Size
<1>3. ASSUME NEW n \in 1..Size, n - 1 \in T PROVE n \in T
  <2>1. n \in 0..Size /\ n - 1 \in 0..Size
    BY DEF Size
  <2>2. r[n] = DetectTool(r[n-1], env, Info(n), force)
    BY DEF Loop
  <2>3. Parts(r[n-1], env, Info(n), force, r[n])
    BY <1>1, <2>1, <2>2, DetectToolParts
  <2>4. ASSUME n <= 9 PROVE r[n].failed = FALSE
    <3>1. r[n-1].failed = FALSE
      BY <1>3, <2>1, <2>4
    <3>2. Ready(r[n-1].ws, env, Info(n), Found(r[n-1].ws, Info(n))) = Found(r[n-1].ws, Info(n))
      BY <2>4, FirstPreparers, OnlyDotnetFails
    <3>3. QED
      BY <2>3, <3>1, <3>2 DEF Parts
  <2>5. QED
    BY <2>1, <2>4
<1> HIDE DEF T
<1>4. \A n \in 0..Size : n \in T
  BY <1>2, <1>3, UpToSize
<1>5. QED
  BY <1>4 DEF T, Size

(* The workspace of a loop is like the one it began with; tools stay. *)
LEMMA LoopAlike ==
  ASSUME NEW r, NEW w, IsWorkspace(w), NEW env, NEW force, Loop(r, w, env, force, Size)
  PROVE  /\ \A n \in 0..Size : Alike(w, r[n].ws, {})
         /\ \A n \in 1..Size : r[n-1].tools \subseteq r[n].tools
<1>1. \A n \in 0..Size : IsAcc(r[n]) /\ IsWorkspace(r[n].ws)
  BY LoopIsWorkspace
<1> DEFINE T == {n \in 0..Size : Alike(w, r[n].ws, {})}
<1>2. 0 \in T
  <2>1. r[0].ws = w
    BY DEF Loop, Nothing
  <2>2. QED
    BY <2>1, AlikeSelf DEF Size
<1>3. ASSUME NEW n \in 1..Size, n - 1 \in T PROVE n \in T
  <2>1. n \in 0..Size /\ n - 1 \in 0..Size
    BY DEF Size
  <2>2. r[n] = DetectTool(r[n-1], env, Info(n), force)
    BY DEF Loop
  <2>3. Rewrote(r[n-1].ws, r[n].ws)
    BY <1>1, <2>1, <2>2, DetectToolRewrites
  <2>4. Alike(r[n-1].ws, r[n].ws, {})
    BY <1>1, <2>1, <2>3, RewroteAlike
  <2>5. Alike(w, r[n].ws, {})
    BY <1>3, <2>4, AlikeThrough
  <2>6. QED
    BY <2>1, <2>5
<1> HIDE DEF T
<1>4. \A n \in 0..Size : n \in T
  BY <1>2, <1>3, UpToSize
<1>5. ASSUME NEW n \in 1..Size PROVE r[n-1].tools \subseteq r[n].tools
  <2>1. n - 1 \in 0..Size /\ r[n] = DetectTool(r[n-1], env, Info(n), force)
    BY DEF Loop, Size
  <2>2. Parts(r[n-1], env, Info(n), force, r[n])
    BY <1>1, <2>1, DetectToolParts
  <2>3. QED
    BY <2>2 DEF Parts
<1>6. QED
  BY <1>4, <1>5 DEF T

(* A detection leaves a workspace like the one it began with. *)
LEMMA DetectionAlike ==
  ASSUME NEW w, IsWorkspace(w), NEW env, NEW force
  PROVE  Alike(w, detectDirectoriesToCache(w, env, FALSE, force).ws, {})
<1>1. PICK r : Loop(r, w, env, force, Size)
      /\ detectDirectoriesToCache(w, env, FALSE, force) = r[Size]
  BY DetectionIsLoop
<1>2. Size \in 0..Size
  BY DEF Size
<1>3. Alike(w, r[Size].ws, {})
  BY <1>1, <1>2, LoopAlike
<1>4. QED
  BY <1>1, <1>3

(* Alike workspaces are so for the fallback, too. *)
LEMMA FallbackAlike ==
  ASSUME NEW w, NEW v, Alike(w, v, {})
  PROVE  NpmPackageJSONFallbackDetected(v) <=> NpmPackageJSONFallbackDetected(w)
<1>1. \A d \in Dir, file \in NpmLocks \cup NodeLocks \cup {"package.json"} :
        Exists(v, d, file) <=> Exists(w, d, file)
  <2>1. \A file \in NpmLocks \cup NodeLocks \cup {"package.json"} : file \notin Configuration
    BY DEF NpmLocks, NodeLocks, Configuration
  <2>2. QED
    BY <2>1 DEF Alike, AlikeAt
<1>2. "root" \in Dir
  BY DEF Dir
<1>3. matches(v, "package-lock.json") = matches(w, "package-lock.json")
  BY <1>1, <1>2 DEF matches, NpmLocks
<1>4. matches(v, "package.json") = matches(w, "package.json")
      /\ matches(w, "package.json") \subseteq Dir
  BY <1>1, <1>2 DEF matches
<1>5. eligible(v, "package.json", NodeLocks) = eligible(w, "package.json", NodeLocks)
  BY <1>1, <1>4 DEF eligible
<1>6. QED
  BY <1>3, <1>5 DEF NpmPackageJSONFallbackDetected

(* Where package.json stands alone, the detection finds a tool. *)
LEMMA FallbackFindsNode ==
  ASSUME NEW w, IsWorkspace(w), NEW env, NpmPackageJSONFallbackDetected(w)
  PROVE  detectDirectoriesToCache(w, env, FALSE, FALSE).tools # {}
<1>1. PICK r : Loop(r, w, env, FALSE, Size)
      /\ detectDirectoriesToCache(w, env, FALSE, FALSE) = r[Size]
  BY DetectionIsLoop
<1>2. /\ \A n \in 0..Size : IsAcc(r[n]) /\ Alike(w, r[n].ws, {})
      /\ \A n \in 1..Size : r[n-1].tools \subseteq r[n].tools
  BY <1>1, LoopIsWorkspace, LoopAlike
<1>3. "node" \in r[7].tools
  <2>1. r[7] = DetectTool(r[6], env, Info(7), FALSE) /\ IsAcc(r[6]) /\ Alike(w, r[6].ws, {})
    <3>1. 7 \in 1..Size /\ 6 \in 0..Size /\ 7 - 1 = 6
      BY DEF Size
    <3>2. QED
      BY <1>1, <1>2, <3>1 DEF Loop
  <2>2. Parts(r[6], env, Info(7), FALSE, r[7])
    BY <2>1, DetectToolParts
  <2>3. Info(7).tool = "node" /\ Info(7).glob = "package.json" /\ Info(7).exclude = NodeLocks
        /\ Info(7).all = FALSE
    <3>1. Entry(Info(7), "package.json", "node", "fallback", "", FALSE, NodeLocks)
      BY Table
    <3>2. QED
      BY <3>1 DEF Entry
  <2>4. r[6].failed = FALSE
    <3>1. 6 \in 0..9
      OBVIOUS
    <3>2. \A n \in 0..9 : r[n].failed = FALSE
      BY <1>1, FirstDoNotFail
    <3>3. QED
      BY <3>1, <3>2
  <2>5. Found(r[6].ws, Info(7)) # {}
    <3>1. NpmPackageJSONFallbackDetected(r[6].ws)
      BY <2>1, FallbackAlike
    <3>2. eligible(r[6].ws, "package.json", NodeLocks) # {}
      BY <3>1 DEF NpmPackageJSONFallbackDetected
    <3>3. QED
      BY <2>3, <3>2 DEF Found
  <2>6. CASE "node" \in r[6].tools
    <3>1. Passed(r[6], Info(7), FALSE)
      BY <2>3, <2>6 DEF Passed, Skipped
    <3>2. QED
      BY <2>2, <2>6, <3>1 DEF Parts
  <2>7. CASE "node" \notin r[6].tools
    <3>1. ~ Passed(r[6], Info(7), FALSE)
      BY <2>3, <2>4, <2>5, <2>7 DEF Passed, Skipped
    <3>2. QED
      BY <2>2, <2>3, <3>1 DEF Parts
  <2>8. QED
    BY <2>6, <2>7
<1> DEFINE T == {n \in 0..Size : n >= 7 => "node" \in r[n].tools}
<1>4. 0 \in T
  BY DEF Size
<1>5. ASSUME NEW n \in 1..Size, n - 1 \in T PROVE n \in T
  <2>1. n \in 0..Size /\ n - 1 \in 0..Size
    BY DEF Size
  <2>2. CASE n <= 7
    BY <1>3, <2>1, <2>2
  <2>3. CASE n > 7
    <3>1. "node" \in r[n-1].tools
      BY <1>5, <2>1, <2>3
    <3>2. QED
      BY <1>2, <2>1, <3>1
  <2>4. QED
    BY <2>1, <2>2, <2>3
<1> HIDE DEF T
<1>6. \A n \in 0..Size : n \in T
  BY <1>4, <1>5, UpToSize
<1>7. "node" \in r[Size].tools
  BY <1>6 DEF T, Size
<1>8. QED
  BY <1>1, <1>7

-----------------------------------------------------------------------------
(***************************************************************************)
(* With a plan the detection looks at package.json, not at the lock of npm *)
(* that the build generated; and where a generated yarn.lock excludes      *)
(* package.json, yarn takes the same node_modules.                         *)
(***************************************************************************)
BuiltFrom(w, v) ==
  /\ IsWorkspace(w) /\ IsWorkspace(v) /\ Alike(w, v, NpmLocks)
  /\ NpmPackageJSONFallbackDetected(w)
  /\ \A d \in Dir : Exists(w, d, "yarn.lock") => Exists(v, d, "yarn.lock")
  /\ \A d, e \in Dir : Exists(v, d, "yarn.lock") /\ Exists(v, e, "yarn.lock") => d = e

(* The entries of npm and yarn. *)
LEMMA NpmTable ==
  /\ Info(6).tool = "node" /\ Info(6).glob = "package-lock.json" /\ Info(6).exclude = {}
  /\ Info(7).tool = "node" /\ Info(7).glob = "package.json" /\ Info(7).exclude = NodeLocks
  /\ Info(7).all = FALSE /\ Info(7).preparer = "fallback"
  /\ Info(8).tool = "yarn" /\ Info(8).glob = "yarn.lock" /\ Info(8).exclude = {}
  /\ Info(8).all = FALSE /\ Info(8).preparer = "yarn"
<1>1. /\ Plainly(Info(6), "package-lock.json", "node")
      /\ Entry(Info(7), "package.json", "node", "fallback", "", FALSE, NodeLocks)
      /\ Entry(Info(8), "yarn.lock", "yarn", "yarn", "package.json", FALSE, {})
  BY Table
<1>2. QED
  BY <1>1 DEF Entry, Plainly

(* What the fallback caches. *)
LEMMA FallbackDir == Own["fallback"] = "node_modules"
BY DEF Own

(* The shortest of one is that one. *)
LEMMA ShortestOfOne ==
  ASSUME NEW d \in Dir
  PROVE  shortestPath({d}) = d
<1>1. shortestPath({d}) \in {d}
  BY ShortestIsOne
<1>2. QED
  BY <1>1

(* Taking away others leaves the shortest one. *)
LEMMA ShortestStays ==
  ASSUME NEW more \in SUBSET Dir, NEW less \in SUBSET more, shortestPath(more) \in less
  PROVE  shortestPath(less) = shortestPath(more)
<1>1. more # {} /\ less # {} /\ less \in SUBSET Dir
  OBVIOUS
<1>2. CASE "root" \in more
  BY <1>2 DEF shortestPath
<1>3. CASE "root" \notin more
  <2>1. \/ more = {"a"} \/ more = {"b"} \/ more = {"a", "b"}
    BY <1>1, <1>3 DEF Dir
  <2>2. CASE more \in {{"a"}, {"b"}}
    <3>1. less = more
      BY <1>1, <2>2
    <3>2. QED
      BY <3>1
  <2>3. CASE more = {"a", "b"}
    <3> DEFINE S == {i \in DOMAIN Order : Order[i] \in more}
    <3>1. DOMAIN Order = {1, 2, 3} /\ Order[1] = "root" /\ Order[2] = "a" /\ Order[3] = "b"
      BY DEF Order
    <3>2. S = {2, 3}
      BY <2>3, <3>1
    <3>3. Max(S) \in S /\ \A y \in S : Max(S) >= y
      <4>1. \E x \in S : \A y \in S : x >= y
        BY <3>2
      <4> HIDE DEF S
      <4>2. QED
        BY <4>1 DEF Max
    <3>4. Max(S) = 3
      BY <3>2, <3>3
    <3>5. shortestPath(more) = "b"
      BY <1>3, <3>1, <3>4 DEF shortestPath
    <3>6. CASE less = {"b"}
      <4>1. "b" \in Dir
        BY DEF Dir
      <4>2. QED
        BY <3>5, <3>6, <4>1, ShortestOfOne
    <3>7. CASE less = more
      BY <3>7
    <3>8. QED
      BY <2>3, <3>5, <3>6, <3>7
  <2>4. QED
    BY <2>1, <2>2, <2>3
<1>4. QED
  BY <1>2, <1>3

(* Where the only yarn.lock is. *)
LEMMA OneYarn ==
  ASSUME NEW v, NEW d \in Dir, Exists(v, d, "yarn.lock"),
         \A e \in Dir : Exists(v, e, "yarn.lock") => e = d
  PROVE  Found(v, Info(8)) = {d}
<1>1. "root" \in Dir
  BY DEF Dir
<1>2. matches(v, "yarn.lock") = {d}
  BY <1>1 DEF matches
<1>3. eligible(v, Info(8).glob, Info(8).exclude) = {d}
  BY <1>2, NpmTable DEF eligible
<1>4. QED
  BY <1>3, NpmTable, ShortestOfOne DEF Found

(* A yarn.lock of the checkout is found where it was. *)
LEMMA YarnFound ==
  ASSUME NEW w, NEW v, BuiltFrom(w, v), Found(w, Info(8)) # {}
  PROVE  Found(v, Info(8)) = Found(w, Info(8))
<1>1. PICK d \in Found(w, Info(8)) : TRUE
  OBVIOUS
<1>2. d \in Dir /\ Exists(w, d, "yarn.lock")
  BY FoundIsThere, NpmTable
<1>3. /\ Exists(v, d, "yarn.lock")
      /\ \A e \in Dir : Exists(v, e, "yarn.lock") => e = d
      /\ \A e \in Dir : Exists(w, e, "yarn.lock") => e = d
  BY <1>2 DEF BuiltFrom
<1>4. Found(v, Info(8)) = {d} /\ Found(w, Info(8)) = {d}
  BY <1>2, <1>3, OneYarn
<1>5. QED
  BY <1>4

(* After the build node is found where it was, or yarn is found there. *)
LEMMA NodeOrYarn ==
  ASSUME NEW w, NEW v, BuiltFrom(w, v)
  PROVE  \E e \in Dir : /\ Found(w, Info(7)) = {e}
                        /\ Found(v, Info(7)) = {e} \/ Found(v, Info(8)) = {e}
<1> DEFINE E == eligible(w, "package.json", NodeLocks)
           F == eligible(v, "package.json", NodeLocks)
           e == shortestPath(E)
<1>1. E # {} /\ E \in SUBSET Dir
  BY DEF BuiltFrom, NpmPackageJSONFallbackDetected, eligible, matches, Dir
<1>2. e \in E
  <2> HIDE DEF E
  <2>1. QED
    BY <1>1, ShortestIsOne
<1>3. Found(w, Info(7)) = {e} /\ e \in Dir
  BY <1>1, <1>2, NpmTable DEF Found
<1>4. \A d \in Dir, file \in {"package.json", "pnpm-lock.yaml", "bun.lock", "bun.lockb"} :
        Exists(v, d, file) <=> Exists(w, d, file)
  <2>1. \A file \in {"package.json", "pnpm-lock.yaml", "bun.lock", "bun.lockb"} :
          file \notin Configuration \cup NpmLocks
    BY DEF Configuration, NpmLocks
  <2>2. QED
    BY <2>1 DEF BuiltFrom, Alike, AlikeAt
<1>5. matches(v, "package.json") = matches(w, "package.json")
      /\ matches(w, "package.json") \subseteq Dir
  <2>1. "root" \in Dir
    BY DEF Dir
  <2>2. QED
    BY <1>4, <2>1 DEF matches
<1>6. F \subseteq E /\ \A d \in E : ~ Exists(v, d, "yarn.lock") => d \in F
  BY <1>4, <1>5 DEF eligible, NodeLocks, BuiltFrom
<1>7. CASE Exists(v, e, "yarn.lock")
  <2>1. Found(v, Info(8)) = {e}
    BY <1>3, <1>7, OneYarn DEF BuiltFrom
  <2>2. QED
    BY <1>3, <2>1
<1>8. CASE ~ Exists(v, e, "yarn.lock")
  <2>1. e \in F
    BY <1>2, <1>6, <1>8
  <2>2. shortestPath(F) = e
    <3> HIDE DEF E, F
    <3>1. QED
      BY <1>1, <1>6, <2>1, ShortestStays
  <2>3. F # {}
    BY <2>1
  <2>4. Found(v, Info(7)) = {e}
    BY <2>2, <2>3, NpmTable DEF Found
  <2>5. QED
    BY <1>3, <2>4
<1>9. QED
  BY <1>7, <1>8

-----------------------------------------------------------------------------
(* What one of the first entries adds, told by the workspace at the start. *)
LEMMA FirstEntryAdds ==
  ASSUME NEW r, NEW w, IsWorkspace(w), NEW env, NEW force, Loop(r, w, env, force, Size),
         NEW n \in 1..9, Info(n).tool \notin r[n-1].tools,
         ~ (force /\ Info(n).glob = "package-lock.json")
  PROVE  /\ r[n].dirs = r[n-1].dirs \cup ToCache(w, env, Info(n), Found(w, Info(n)))
         /\ r[n].tools \in {r[n-1].tools, r[n-1].tools \cup {Info(n).tool}}
<1>1. n \in 1..Size /\ n - 1 \in 0..Size /\ n - 1 \in 0..9
  BY DEF Size
<1>2. r[n] = DetectTool(r[n-1], env, Info(n), force) /\ IsAcc(r[n-1]) /\ Alike(w, r[n-1].ws, {})
  <2>1. r[n] = DetectTool(r[n-1], env, Info(n), force)
    BY <1>1 DEF Loop
  <2>2. \A m \in 0..Size : IsAcc(r[m])
    BY LoopIsWorkspace
  <2>3. \A m \in 0..Size : Alike(w, r[m].ws, {})
    BY LoopAlike
  <2>4. QED
    BY <1>1, <2>1, <2>2, <2>3
<1>3. Parts(r[n-1], env, Info(n), force, r[n])
  BY <1>2, DetectToolParts
<1>4. r[n-1].failed = FALSE
  BY <1>1, FirstDoNotFail
<1>5. ~ Skipped(r[n-1], Info(n), force)
  BY <1>4 DEF Skipped
<1>6. Found(r[n-1].ws, Info(n)) = Found(w, Info(n)) /\ Found(w, Info(n)) \in SUBSET Dir
  BY <1>1, <1>2, FoundAlike, EntriesLookAside, ReadyAreFound DEF LooksAside
<1>7. Ready(r[n-1].ws, env, Info(n), Found(w, Info(n))) = Found(w, Info(n))
  BY <1>1, FirstPreparers, OnlyDotnetFails
<1>8. ToCache(r[n-1].ws, env, Info(n), Found(w, Info(n)))
      = ToCache(w, env, Info(n), Found(w, Info(n)))
  <2>1. {} \in SUBSET NpmLocks
    OBVIOUS
  <2>2. QED
    BY <1>2, <1>6, <2>1, PreparesAlike
<1>9. CASE Found(w, Info(n)) = {}
  <2>1. r[n] = r[n-1]
    BY <1>3, <1>6, <1>9 DEF Parts, Passed
  <2>2. ToCache(w, env, Info(n), Found(w, Info(n))) = {}
    BY <1>9 DEF ToCache
  <2>3. QED
    BY <2>1, <2>2
<1>10. CASE Found(w, Info(n)) # {}
  <2>1. ~ Passed(r[n-1], Info(n), force)
    BY <1>5, <1>6, <1>10 DEF Passed
  <2>2. QED
    BY <1>3, <1>6, <1>7, <1>8, <2>1 DEF Parts
<1>11. QED
  BY <1>9, <1>10

(* Other tools than those of npm and yarn; they and the paths of a are found in b. *)
Others(acc) == acc.tools \ {"node", "yarn"}

Near(a, b) == a.failed = b.failed /\ Others(a) = Others(b) /\ a.dirs \subseteq b.dirs

(* Nothing of npm or yarn has been found. *)
Clean(a) == a.tools \cap {"node", "yarn"} = {}

(* The entries of npm and yarn. *)
LEMMA NpmEntries ==
  ASSUME NEW r, NEW q, NEW w, NEW v, BuiltFrom(w, v), NEW env,
         Loop(r, w, env, FALSE, Size), Loop(q, v, env, TRUE, Size),
         Near(r[5], q[5]), Clean(r[5]), Clean(q[5])
  PROVE  Near(r[8], q[8])
<1>1. IsWorkspace(w) /\ IsWorkspace(v)
  BY DEF BuiltFrom
<1>2. /\ IsAcc(r[5]) /\ IsAcc(q[5]) /\ Alike(w, r[5].ws, {})
      /\ r[6] = DetectTool(r[5], env, Info(6), FALSE) /\ q[6] = DetectTool(q[5], env, Info(6), TRUE)
  <2>1. 5 \in 0..Size /\ 6 \in 1..Size /\ 6 - 1 = 5
    BY DEF Size
  <2>2. (\A m \in 0..Size : IsAcc(r[m])) /\ (\A m \in 0..Size : IsAcc(q[m]))
    BY <1>1, LoopIsWorkspace
  <2>3. \A m \in 0..Size : Alike(w, r[m].ws, {})
    BY <1>1, LoopAlike
  <2>4. r[6] = DetectTool(r[5], env, Info(6), FALSE) /\ q[6] = DetectTool(q[5], env, Info(6), TRUE)
    BY <2>1 DEF Loop
  <2>5. QED
    BY <2>1, <2>2, <2>3, <2>4
<1>3. r[6] = r[5]
  <2>1. NpmPackageJSONFallbackDetected(r[5].ws)
    BY <1>2, FallbackAlike DEF BuiltFrom
  <2>2. Found(r[5].ws, Info(6)) = {}
    BY <2>1, NpmTable, FoundIsThere DEF NpmPackageJSONFallbackDetected, Found, eligible
  <2>3. Parts(r[5], env, Info(6), FALSE, r[6])
    BY <1>2, DetectToolParts
  <2>4. QED
    BY <2>2, <2>3 DEF Parts, Passed
<1>4. q[6] = q[5]
  <2>1. Parts(q[5], env, Info(6), TRUE, q[6])
    BY <1>2, DetectToolParts
  <2>2. Passed(q[5], Info(6), TRUE)
    BY NpmTable DEF Passed, Skipped
  <2>3. QED
    BY <2>1, <2>2 DEF Parts
<1>5. /\ r[7].dirs = r[6].dirs \cup ToCache(w, env, Info(7), Found(w, Info(7)))
      /\ r[7].tools \in {r[6].tools, r[6].tools \cup {"node"}}
  <2>1. 7 \in 1..9 /\ 7 - 1 = 6 /\ Info(7).tool \notin r[6].tools
    BY <1>3, NpmTable DEF Clean
  <2>2. ~ (FALSE /\ Info(7).glob = "package-lock.json")
    BY <2>1
  <2>3. /\ r[7].dirs = r[7-1].dirs \cup ToCache(w, env, Info(7), Found(w, Info(7)))
        /\ r[7].tools \in {r[7-1].tools, r[7-1].tools \cup {Info(7).tool}}
    BY <1>1, <2>1, <2>2, FirstEntryAdds
  <2>4. QED
    BY <2>1, <2>3, NpmTable
<1>6. /\ q[7].dirs = q[6].dirs \cup ToCache(v, env, Info(7), Found(v, Info(7)))
      /\ q[7].tools \in {q[6].tools, q[6].tools \cup {"node"}}
  <2>1. 7 \in 1..9 /\ 7 - 1 = 6 /\ Info(7).tool \notin q[6].tools
        /\ Info(7).glob # "package-lock.json"
    BY <1>4, NpmTable DEF Clean
  <2>2. ~ (TRUE /\ Info(7).glob = "package-lock.json")
    BY <2>1
  <2>3. /\ q[7].dirs = q[7-1].dirs \cup ToCache(v, env, Info(7), Found(v, Info(7)))
        /\ q[7].tools \in {q[7-1].tools, q[7-1].tools \cup {Info(7).tool}}
    BY <1>1, <2>1, <2>2, FirstEntryAdds
  <2>4. QED
    BY <2>1, <2>3, NpmTable
<1>7. /\ r[8].dirs = r[7].dirs \cup ToCache(w, env, Info(8), Found(w, Info(8)))
      /\ r[8].tools \in {r[7].tools, r[7].tools \cup {"yarn"}}
  <2>1. 8 \in 1..9 /\ 8 - 1 = 7 /\ Info(8).tool \notin r[7].tools
    BY <1>3, <1>5, NpmTable DEF Clean
  <2>2. ~ (FALSE /\ Info(8).glob = "package-lock.json")
    BY <2>1
  <2>3. /\ r[8].dirs = r[8-1].dirs \cup ToCache(w, env, Info(8), Found(w, Info(8)))
        /\ r[8].tools \in {r[8-1].tools, r[8-1].tools \cup {Info(8).tool}}
    BY <1>1, <2>1, <2>2, FirstEntryAdds
  <2>4. QED
    BY <2>1, <2>3, NpmTable
<1>8. /\ q[8].dirs = q[7].dirs \cup ToCache(v, env, Info(8), Found(v, Info(8)))
      /\ q[8].tools \in {q[7].tools, q[7].tools \cup {"yarn"}}
  <2>1. 8 \in 1..9 /\ 8 - 1 = 7 /\ Info(8).tool \notin q[7].tools
        /\ Info(8).glob # "package-lock.json"
    BY <1>4, <1>6, NpmTable DEF Clean
  <2>2. ~ (TRUE /\ Info(8).glob = "package-lock.json")
    BY <2>1
  <2>3. /\ q[8].dirs = q[8-1].dirs \cup ToCache(v, env, Info(8), Found(v, Info(8)))
        /\ q[8].tools \in {q[8-1].tools, q[8-1].tools \cup {Info(8).tool}}
    BY <1>1, <2>1, <2>2, FirstEntryAdds
  <2>4. QED
    BY <2>1, <2>3, NpmTable
<1>9. r[8].failed = FALSE /\ q[8].failed = FALSE
  <2>1. 8 \in 0..9
    OBVIOUS
  <2>2. QED
    BY <1>1, <2>1, FirstDoNotFail
<1>10. Others(r[8]) = Others(q[8])
  BY <1>3, <1>4, <1>5, <1>6, <1>7, <1>8 DEF Near, Others
<1>11. r[8].dirs \subseteq q[8].dirs
  <2>1. PICK e \in Dir : /\ Found(w, Info(7)) = {e}
                         /\ Found(v, Info(7)) = {e} \/ Found(v, Info(8)) = {e}
    BY NodeOrYarn
  <2>2. /\ ToCache(w, env, Info(7), {e}) = {<<e, "node_modules">>}
        /\ ToCache(v, env, Info(7), {e}) = {<<e, "node_modules">>}
    BY NpmTable, FallbackDir DEF ToCache, Prepared, fromEnv, additionalCacheDirs
  <2>3. <<e, "node_modules">> \in ToCache(v, env, Info(8), {e})
    BY NpmTable DEF ToCache, additionalCacheDirs, nodeModulesDirs
  <2>4. <<e, "node_modules">> \in q[8].dirs
    BY <1>6, <1>8, <2>1, <2>2, <2>3
  <2>5. ToCache(w, env, Info(8), Found(w, Info(8))) \subseteq q[8].dirs
    <3>1. CASE Found(w, Info(8)) = {}
      BY <3>1 DEF ToCache
    <3>2. CASE Found(w, Info(8)) # {}
      <4>1. Found(v, Info(8)) = Found(w, Info(8)) /\ Found(w, Info(8)) \in SUBSET Dir
        BY <3>2, YarnFound, ReadyAreFound
      <4>2. ToCache(v, env, Info(8), Found(w, Info(8)))
            = ToCache(w, env, Info(8), Found(w, Info(8)))
        BY <4>1, PreparesAlike DEF BuiltFrom
      <4>3. QED
        BY <1>8, <4>1, <4>2
    <3>3. QED
      BY <3>1, <3>2
  <2>6. QED
    BY <1>3, <1>4, <1>5, <1>6, <1>7, <1>8, <2>1, <2>2, <2>4, <2>5 DEF Near
<1>12. QED
  BY <1>9, <1>10, <1>11 DEF Near

(* The other entries. *)
LEMMA OtherTools ==
  ASSUME NEW n \in 1..Size, n \notin {6, 7, 8}
  PROVE  Info(n).tool \notin {"node", "yarn"} /\ Info(n).glob # "package-lock.json"
<1>1. EntryIs(n)
  BY Entries
<1>2. QED
  BY <1>1 DEF EntryIs, Entry, Plainly

(* A save with a plan finds all that a restore found before the build. *)
LEMMA ForcedFindsAll ==
  ASSUME NEW w, NEW v, BuiltFrom(w, v), NEW env
  PROVE  LET a == detectDirectoriesToCache(w, env, FALSE, FALSE)
             b == detectDirectoriesToCache(v, env, FALSE, TRUE)
         IN a.failed = b.failed /\ a.dirs \subseteq b.dirs
<1>1. PICK r : Loop(r, w, env, FALSE, Size)
      /\ detectDirectoriesToCache(w, env, FALSE, FALSE) = r[Size]
  BY DetectionIsLoop
<1>2. PICK q : Loop(q, v, env, TRUE, Size)
      /\ detectDirectoriesToCache(v, env, FALSE, TRUE) = q[Size]
  BY DetectionIsLoop
<1>3. \A n \in 0..Size : /\ IsAcc(r[n]) /\ IsWorkspace(r[n].ws) /\ IsAcc(q[n])
                         /\ IsWorkspace(q[n].ws)
                         /\ Alike(w, r[n].ws, {}) /\ Alike(v, q[n].ws, {})
  BY <1>1, <1>2, LoopIsWorkspace, LoopAlike DEF BuiltFrom
<1>4. \A n \in 0..Size : Alike(r[n].ws, q[n].ws, NpmLocks)
  <2> SUFFICES ASSUME NEW n \in 0..Size PROVE Alike(r[n].ws, q[n].ws, NpmLocks)
    OBVIOUS
  <2>1. Alike(w, r[n].ws, NpmLocks) /\ Alike(v, q[n].ws, NpmLocks) /\ NpmLocks \in SUBSET NpmLocks
    BY <1>3, AlikeMore
  <2>2. Alike(r[n].ws, w, NpmLocks)
    BY <2>1, AlikeBack
  <2>3. Alike(r[n].ws, v, NpmLocks)
    BY <2>1, <2>2, AlikeThrough DEF BuiltFrom
  <2>4. QED
    BY <2>1, <2>3, AlikeThrough
<1>5. ASSUME NEW n \in 1..Size, n \notin {6, 7, 8}, Near(r[n-1], q[n-1])
      PROVE  /\ Near(r[n], q[n])
             /\ Clean(r[n-1]) /\ Clean(q[n-1]) => Clean(r[n]) /\ Clean(q[n])
  <2>1. n \in 0..Size /\ n - 1 \in 0..Size
    BY DEF Size
  <2>2. r[n] = DetectTool(r[n-1], env, Info(n), FALSE)
        /\ q[n] = DetectTool(q[n-1], env, Info(n), TRUE)
    BY <1>1, <1>2 DEF Loop
  <2>3. Info(n).tool \notin {"node", "yarn"} /\ Info(n).glob # "package-lock.json"
    BY <1>5, OtherTools
  <2>4. Skipped(r[n-1], Info(n), FALSE) <=> Skipped(q[n-1], Info(n), TRUE)
    BY <1>5, <2>3 DEF Near, Others, Skipped
  <2>5. LooksAside(Info(n), NpmLocks) /\ NpmLocks \in SUBSET NpmLocks
    BY <1>5, EntriesLookAside
  <2>6. \/ r[n] = r[n-1] /\ q[n] = q[n-1]
        \/ \E paths, sums, fails : /\ Adds(r[n-1], r[n], Info(n).tool, paths, sums, fails)
                                   /\ Adds(q[n-1], q[n], Info(n).tool, paths, sums, fails)
    <3> DEFINE a == r[n-1]
               b == q[n-1]
               free == FALSE
               forced == TRUE
    <3>1. IsAcc(a) /\ IsAcc(b) /\ IsWorkspace(a.ws) /\ IsWorkspace(b.ws)
          /\ Alike(a.ws, b.ws, NpmLocks)
      BY <1>3, <1>4, <2>1
    <3>2. r[n] = DetectTool(a, env, Info(n), free) /\ q[n] = DetectTool(b, env, Info(n), forced)
      BY <2>2
    <3>3. Skipped(a, Info(n), free) <=> Skipped(b, Info(n), forced)
      BY <2>4
    <3> HIDE DEF a, b, free, forced
    <3>4. \/ r[n] = a /\ q[n] = b
          \/ \E paths, sums, fails : /\ Adds(a, r[n], Info(n).tool, paths, sums, fails)
                                     /\ Adds(b, q[n], Info(n).tool, paths, sums, fails)
      BY <2>5, <3>1, <3>2, <3>3, EntryAlike
    <3>5. QED
      BY <3>4 DEF a, b
  <2>7. QED
    BY <1>5, <2>3, <2>6 DEF Near, Others, Clean, Adds
<1> DEFINE Good(n) == Near(r[n], q[n]) /\ (n <= 5 => Clean(r[n]) /\ Clean(q[n]))
           T == {n \in 0..Size : IF n \in {6, 7} THEN Good(5) ELSE Good(n)}
<1>6. 0 \in T
  <2>1. r[0] = Nothing(w) /\ q[0] = Nothing(v)
    BY <1>1, <1>2 DEF Loop
  <2>2. Near(r[0], q[0]) /\ Clean(r[0]) /\ Clean(q[0])
    BY <2>1 DEF Near, Others, Clean, Nothing
  <2>3. QED
    BY <2>2 DEF Size
<1>7. ASSUME NEW n \in 1..Size, n - 1 \in T PROVE n \in T
  <2>1. n \in 0..Size /\ n - 1 \in 0..Size /\ n - 1 # 5 => n # 6
    BY DEF Size
  <2>2. CASE n = 6
    <3>1. Good(5)
      BY <1>7, <2>2
    <3>2. QED
      BY <2>1, <2>2, <3>1
  <2>3. CASE n = 7
    <3>1. Good(5)
      BY <1>7, <2>3
    <3>2. QED
      BY <2>1, <2>3, <3>1
  <2>4. CASE n = 8
    <3>1. Good(5)
      BY <1>7, <2>4
    <3>2. Near(r[5], q[5]) /\ Clean(r[5]) /\ Clean(q[5])
      BY <3>1
    <3>3. Near(r[8], q[8])
      BY <1>1, <1>2, <3>2, NpmEntries
    <3>4. QED
      BY <2>1, <2>4, <3>3
  <2>5. CASE n \notin {6, 7, 8}
    <3>1. n - 1 \notin {6, 7}
      BY <2>5
    <3>2. Good(n-1)
      BY <1>7, <3>1
    <3>3. /\ Near(r[n], q[n])
          /\ Clean(r[n-1]) /\ Clean(q[n-1]) => Clean(r[n]) /\ Clean(q[n])
      BY <1>5, <2>5, <3>2
    <3>4. n <= 5 => n - 1 <= 5
      OBVIOUS
    <3>5. QED
      BY <2>1, <2>5, <3>2, <3>3, <3>4
  <2>6. QED
    BY <2>2, <2>3, <2>4, <2>5
<1> HIDE DEF T
<1>8. \A n \in 0..Size : n \in T
  BY <1>6, <1>7, UpToSize
<1>9. Near(r[Size], q[Size])
  BY <1>8 DEF T, Size
<1>10. QED
  BY <1>1, <1>2, <1>9 DEF Near

-----------------------------------------------------------------------------
(* The fields of the variables of Exec. *)
Locals == DOMAIN Idle

(* pc and local are functions on the steps. *)
Shape ==
  /\ DOMAIN pc = Step
  /\ DOMAIN local = Step
  /\ \A s \in Step : DOMAIN local[s] = Locals

(***************************************************************************)
(* Only a save that read a plan comes to remove it after its operation,    *)
(* and then the operation has succeeded: a step that neither saves nor     *)
(* restores never looks for a plan.                                        *)
(***************************************************************************)
PlanUse(s) ==
  /\ pc[s] \in {"validate", "open", "compare", "unreadable"} => Cfg(s).rebuild
  /\ local[s].found => Cfg(s).rebuild
  /\ local[s].used => Cfg(s).rebuild
  /\ pc[s] = "consume" => local[s].used /\ local[s].operated

PlanInv == Shape /\ \A s \in Step : PlanUse(s)

(* It holds at the start. *)
LEMMA InitPlan == Init => PlanInv
BY DEF Init, PlanInv, Shape, PlanUse, Idle, Locals

(* What a step of Exec does to the others: nothing. *)
Only(s) ==
  /\ scenario' = scenario
  /\ Shape'
  /\ \A t \in Step \ {s} : pc'[t] = pc[t] /\ local'[t] = local[t]

(* It is enough to look at the step that moves. *)
LEMMA OthersKeep ==
  ASSUME PlanInv, NEW s \in Step, Only(s), PlanUse(s)'
  PROVE  PlanInv'
<1>1. \A t \in Step \ {s} : PlanUse(t)'
  BY DEF Only, PlanInv, PlanUse, Cfg
<1>2. QED
  BY <1>1 DEF PlanInv, Only

-----------------------------------------------------------------------------
(* One lemma for the steps that leave local alone, one for each other. *)

(* Steps that leave local alone. *)
LEMMA MoveKeeps ==
  ASSUME PlanInv, NEW s \in Step,
         \/ RefuseBoth(s) \/ AutoDetectStart(s) \/ ValidatePlanFile(s)
         \/ CreateTemp(s) \/ Rename(s) \/ ConsumePlan(s) \/ Kill(s)
  PROVE  PlanInv'
<1>1. /\ scenario' = scenario /\ local' = local
      /\ \E to : pc' = [pc EXCEPT ![s] = to]
  BY DEF RefuseBoth, AutoDetectStart, ValidatePlanFile, CreateTemp, Rename, ConsumePlan, Kill, Go
<1>2. Only(s)
  BY <1>1 DEF Only, PlanInv, Shape, Locals, Idle
<1>3. /\ pc'[s] # "consume"
      /\ pc'[s] \in {"validate", "open", "compare", "unreadable"} => Cfg(s).rebuild
  BY DEF RefuseBoth, AutoDetectStart, ValidatePlanFile, CreateTemp, Rename, ConsumePlan, Kill,
         Go, readsPlan, NotWritten, PlanInv, PlanUse, Shape
<1>4. PlanUse(s)'
  BY <1>1, <1>3 DEF PlanInv, PlanUse, Cfg
<1>5. QED
  BY <1>2, <1>4, OthersKeep

(* Steps that read the plan are those of a save. *)
LEMMA ReadKeeps ==
  ASSUME PlanInv, NEW s \in Step, OpenPlan(s) \/ ReadPlan(s) \/ DropUnreadablePlan(s)
  PROVE  PlanInv'
<1>1. pc[s] \in {"open", "compare", "unreadable"}
  BY DEF OpenPlan, ReadPlan, DropUnreadablePlan, Go
<1>2. Cfg(s).rebuild
  BY <1>1 DEF PlanInv, PlanUse
<1>3. Only(s)
  BY DEF Only, OpenPlan, ReadPlan, DropUnreadablePlan, Go, PlanInv, Shape, Locals, Idle
<1>4. pc'[s] \in {"compare", "unreadable", "detect"}
  BY DEF OpenPlan, ReadPlan, DropUnreadablePlan, Go, PlanInv, Shape
<1>5. PlanUse(s)'
  BY <1>2, <1>3, <1>4 DEF PlanUse, Only, Cfg
<1>6. QED
  BY <1>3, <1>5, OthersKeep

(* A step without detection finds no plan. *)
LEMMA WithoutKeeps ==
  ASSUME PlanInv, NEW s \in Step, WithoutAutoDetect(s)
  PROVE  PlanInv'
<1>1. Only(s)
  BY DEF Only, WithoutAutoDetect, Go, PlanInv, Shape, Locals, Idle
<1>2. pc'[s] \in {"error", "operate"}
  BY DEF WithoutAutoDetect, Go, PlanInv, Shape
<1>3. local'[s].found = local[s].found /\ local'[s].used = local[s].used
  BY DEF WithoutAutoDetect, PlanInv, Shape, Locals, Idle
<1>4. QED
  BY <1>1, <1>2, <1>3, OthersKeep DEF PlanInv, PlanUse, Only, Cfg

(* A detection uses the plan that was found. *)
LEMMA DetectKeeps ==
  ASSUME PlanInv, NEW s \in Step, Detect(s)
  PROVE  PlanInv'
<1>1. PICK result \in {detected(s)} :
        /\ Go(s, "detect", afterDetection(s, result))
        /\ local' = IF result.failed THEN local
                    ELSE [local EXCEPT ![s].cacheKey = resolvedKey(s, result.hashes),
                                       ![s].dirs = resolvedDirs(s, result.dirs),
                                       ![s].used = local[s].found]
  BY DEF Detect
<1>2. Only(s)
  <2>1. scenario' = scenario
    BY DEF Detect
  <2>2. DOMAIN pc' = Step /\ \A t \in Step \ {s} : pc'[t] = pc[t]
    BY <1>1 DEF Go, PlanInv, Shape
  <2>3. /\ DOMAIN local' = Step
        /\ \A t \in Step : DOMAIN local'[t] = Locals
        /\ \A t \in Step \ {s} : local'[t] = local[t]
    BY <1>1 DEF PlanInv, Shape
  <2>4. QED
    BY <2>1, <2>2, <2>3 DEF Only, Shape
<1>3. pc'[s] \in {"error", "write", "skipped", "operate"}
  BY <1>1 DEF Go, afterDetection, PlanInv, Shape
<1>4. local'[s].found = local[s].found /\ local'[s].used \in {local[s].used, local[s].found}
  BY <1>1 DEF PlanInv, Shape, Locals, Idle
<1>5. PlanUse(s)'
  BY <1>2, <1>3, <1>4 DEF PlanInv, PlanUse, Only, Cfg
<1>6. QED
  BY <1>2, <1>5, OthersKeep

(* Only an operation that succeeded leads to the removal of the plan. *)
LEMMA OperateKeeps ==
  ASSUME PlanInv, NEW s \in Step, Operate(s)
  PROVE  PlanInv'
<1>1. PICK succeeds \in BOOLEAN :
        /\ Go(s, "operate", AfterOperation(s, succeeds))
        /\ local' = [local EXCEPT ![s].operated = succeeds /\ (Cfg(s).restore \/ Cfg(s).rebuild)]
  BY DEF Operate
<1>2. Only(s)
  BY <1>1 DEF Only, Operate, Go, PlanInv, Shape, Locals, Idle
<1>3. pc'[s] = AfterOperation(s, succeeds)
  BY <1>1 DEF Go, PlanInv, Shape
<1>4. /\ local'[s].found = local[s].found /\ local'[s].used = local[s].used
      /\ local'[s].operated = (succeeds /\ (Cfg(s).restore \/ Cfg(s).rebuild))
  BY <1>1 DEF PlanInv, Shape, Locals, Idle
<1>5. /\ pc'[s] \in {"error", "consume", "ok"}
      /\ pc'[s] = "consume" => succeeds /\ local[s].used
  BY <1>3 DEF AfterOperation
<1>6. PlanUse(s)'
  BY <1>2, <1>4, <1>5 DEF PlanInv, PlanUse, Only, Cfg
<1>7. QED
  BY <1>2, <1>6, OthersKeep

(* Every step keeps PlanInv. *)
LEMMA NextPlan == PlanInv /\ [Next]_vars => PlanInv'
<1> SUFFICES ASSUME PlanInv, [Next]_vars PROVE PlanInv'
  OBVIOUS
<1>1. CASE NextBatch \/ UNCHANGED vars
  <2>1. UNCHANGED <<scenario, pc, local>>
    BY <1>1 DEF NextBatch, vars
  <2>2. QED
    BY <2>1 DEF PlanInv, Shape, PlanUse, Cfg
<1>2. ASSUME NEW s \in Step, Kill(s) \/ StepAction(s) PROVE PlanInv'
  BY <1>2, MoveKeeps, ReadKeeps, WithoutKeeps, DetectKeeps, OperateKeeps DEF StepAction
<1>3. QED
  BY <1>1, <1>2 DEF Next

-----------------------------------------------------------------------------
(***************************************************************************)
(* What a plan says comes from a restore that is past its detection, whose *)
(* key and directories change no more: the file, what a save has opened,   *)
(* what it found, and what it then takes for its own key and directories.  *)
(***************************************************************************)
BeforeReading == {"waiting", "validate", "open", "compare", "unreadable"}
Reading       == BeforeReading \ {"waiting"}
PastDetection == Ended \cup {"write", "rename", "operate", "consume"}

(* A key and directories that a restore past its detection has, or fewer directories. *)
AsRestored(key, dirs) ==
  \E r \in Step : /\ pc[r] \in PastDetection /\ Restored(r)
                  /\ key = local[r].cacheKey /\ dirs \subseteq local[r].dirs

Opened(s) == AsRestored(local[s].fallbackPlan.key, local[s].fallbackPlan.dirs)

(* The same of one step, by where it is. *)
Origin(s) ==
  /\ pc[s] \in Reading \cup {"detect", "write", "rename"} => Cfg(s).auto
  /\ pc[s] \in BeforeReading => local[s].found = FALSE
  /\ pc[s] \in BeforeReading \cup {"detect"} => local[s].used = FALSE
  /\ pc[s] \in Reading => ~ Overridden(s)
  /\ pc[s] = "compare" => Opened(s)
  /\ local[s].found => ~ Overridden(s) /\ Opened(s)
  /\ pc[s] \in {"write", "rename"} => Restored(s)
  /\ local[s].used => AsRestored(local[s].cacheKey, local[s].dirs)

PlanOrigin == plan # NoPlan => AsRestored(plan.key, plan.dirs)

OriginInv == PlanOrigin /\ \A s \in Step : Origin(s)

(* There is no plan at the start. *)
LEMMA InitOrigin == Init => OriginInv
BY DEF Init, OriginInv, PlanOrigin, Origin, Idle, BeforeReading, Reading, PastDetection, Ended

(* What a step of Exec leaves of the restores before it. *)
LEMMA RestoresStay ==
  ASSUME PlanInv, NEW s \in Step, Only(s),
         pc[s] \in PastDetection =>
           /\ pc'[s] \in PastDetection
           /\ local'[s].cacheKey = local[s].cacheKey /\ local'[s].dirs = local[s].dirs
  PROVE  /\ \A key, dirs : AsRestored(key, dirs) => AsRestored(key, dirs)'
         /\ \A t \in Step : Cfg(t)' = Cfg(t) /\ (Overridden(t)' <=> Overridden(t))
<1>1. \A t \in Step : Cfg(t)' = Cfg(t) /\ (Overridden(t)' <=> Overridden(t))
  BY DEF Only, Cfg, Overridden
<1>2. \A t \in Step : pc[t] \in PastDetection =>
        /\ pc'[t] \in PastDetection
        /\ local'[t].cacheKey = local[t].cacheKey /\ local'[t].dirs = local[t].dirs
  BY DEF Only
<1>3. ASSUME NEW key, NEW dirs, AsRestored(key, dirs) PROVE AsRestored(key, dirs)'
  <2>1. PICK r \in Step : /\ pc[r] \in PastDetection /\ Restored(r)
                          /\ key = local[r].cacheKey /\ dirs \subseteq local[r].dirs
    BY <1>3 DEF AsRestored
  <2>2. /\ pc'[r] \in PastDetection
        /\ key = local'[r].cacheKey /\ dirs \subseteq local'[r].dirs
        /\ local'[r].cacheKey # <<>>
    BY <1>2, <2>1 DEF Restored
  <2>3. Restored(r)'
    BY <1>1, <2>1, <2>2 DEF Restored, Automatic
  <2>4. QED
    BY <2>2, <2>3 DEF AsRestored
<1>4. QED
  BY <1>1, <1>3

(***************************************************************************)
(* It is enough to look at the step that moves, and at the file: the other *)
(* steps' variables are as before, and so are the restores they go by.     *)
(***************************************************************************)
LEMMA OriginKept ==
  ASSUME PlanInv, OriginInv, NEW s \in Step, Only(s),
         pc[s] \in PastDetection =>
           /\ pc'[s] \in PastDetection
           /\ local'[s].cacheKey = local[s].cacheKey /\ local'[s].dirs = local[s].dirs,
         PlanOrigin', Origin(s)'
  PROVE  OriginInv'
<1>1. /\ \A key, dirs : AsRestored(key, dirs) => AsRestored(key, dirs)'
      /\ \A t \in Step : Cfg(t)' = Cfg(t) /\ (Overridden(t)' <=> Overridden(t))
  BY RestoresStay
<1>2. ASSUME NEW t \in Step \ {s} PROVE Origin(t)'
  <2>1. pc'[t] = pc[t] /\ local'[t] = local[t] /\ Origin(t)
    BY <1>2 DEF Only, OriginInv
  <2>2. Opened(t) => Opened(t)'
    BY <1>1, <2>1 DEF Opened
  <2>3. AsRestored(local[t].cacheKey, local[t].dirs)
        => AsRestored(local[t].cacheKey, local[t].dirs)'
    BY <1>1, <2>1
  <2>4. Restored(t) => Restored(t)'
    BY <1>1, <2>1 DEF Restored, Automatic
  <2>5. QED
    BY <1>1, <2>1, <2>2, <2>3, <2>4 DEF Origin
<1>3. QED
  BY <1>2 DEF OriginInv
-----------------------------------------------------------------------------
(* The steps that leave the file alone. *)

(* The plan keeps its origin when it is the same. *)
LEMMA SameFile ==
  ASSUME PlanOrigin, plan' = plan,
         \A key, dirs : AsRestored(key, dirs) => AsRestored(key, dirs)'
  PROVE  PlanOrigin'
BY DEF PlanOrigin

(* Phases are told apart by their names. *)
LEMMA Phases ==
  /\ PastDetection \cap (BeforeReading \cup {"detect"}) = {}
  /\ Reading \subseteq BeforeReading
  /\ {"waiting", "validate", "open", "compare", "unreadable"} = BeforeReading
  /\ {"ok", "skipped", "error", "killed", "write", "rename", "operate", "consume"} = PastDetection
  /\ {"validate", "open", "compare", "unreadable"} = Reading
BY DEF BeforeReading, Reading, PastDetection, Ended

(* Steps that leave local and the plan alone. *)
LEMMA MoveOrigin ==
  ASSUME PlanInv, OriginInv, NEW s \in Step,
         RefuseBoth(s) \/ AutoDetectStart(s) \/ ValidatePlanFile(s) \/ CreateTemp(s) \/ Kill(s)
  PROVE  OriginInv'
<1>1. /\ scenario' = scenario /\ local' = local /\ plan' = plan
      /\ \E to : pc' = [pc EXCEPT ![s] = to]
  BY DEF RefuseBoth, AutoDetectStart, ValidatePlanFile, CreateTemp, Kill, Go
<1>2. Only(s)
  BY <1>1 DEF Only, PlanInv, Shape, Locals, Idle
<1>3. DOMAIN pc = Step
  BY DEF PlanInv, Shape
<1>4. \/ pc'[s] \in {"error", "killed"}
      \/ pc[s] = "waiting" /\ pc'[s] = "detect" /\ Cfg(s).auto
      \/ /\ pc[s] = "waiting" /\ pc'[s] \in {"validate", "unreadable"}
         /\ Cfg(s).auto /\ ~ Overridden(s)
      \/ pc[s] = "validate" /\ pc'[s] \in {"detect", "open", "unreadable"}
      \/ pc[s] = "write" /\ pc'[s] \in {"rename", "operate"}
  BY <1>3 DEF RefuseBoth, AutoDetectStart, ValidatePlanFile, CreateTemp, Kill, Go, readsPlan,
              NotWritten
<1>5. pc[s] \in PastDetection => pc'[s] \in PastDetection
  BY <1>4, Phases
<1>6. /\ \A key, dirs : AsRestored(key, dirs) => AsRestored(key, dirs)'
      /\ \A t \in Step : Cfg(t)' = Cfg(t) /\ (Overridden(t)' <=> Overridden(t))
  BY <1>1, <1>2, <1>5, RestoresStay
<1>7. Origin(s)'
  <2>1. Origin(s)
    BY DEF OriginInv
  <2>2. Opened(s) => Opened(s)'
    BY <1>1, <1>6 DEF Opened
  <2>3. Restored(s) => Restored(s)'
    BY <1>1, <1>6 DEF Restored, Automatic
  <2>4. pc'[s] # "compare"
    BY <1>4
  <2>5. pc'[s] \in Reading \cup {"detect", "write", "rename"} => Cfg(s).auto
    BY <1>4, <2>1, Phases DEF Origin
  <2>6. /\ pc'[s] \in BeforeReading => local[s].found = FALSE
        /\ pc'[s] \in BeforeReading \cup {"detect"} => local[s].used = FALSE
        /\ pc'[s] \in Reading => ~ Overridden(s)
        /\ pc'[s] \in {"write", "rename"} => Restored(s)
    BY <1>4, <2>1, Phases DEF Origin
  <2>7. /\ local[s].found => ~ Overridden(s) /\ Opened(s)
        /\ local[s].used => AsRestored(local[s].cacheKey, local[s].dirs)
    BY <2>1 DEF Origin
  <2>8. QED
    BY <1>1, <1>6, <2>2, <2>3, <2>4, <2>5, <2>6, <2>7 DEF Origin
<1>8. PlanOrigin'
  BY <1>1, <1>6, SameFile DEF OriginInv
<1>9. QED
  BY <1>1, <1>2, <1>5, <1>7, <1>8, OriginKept
(* A step without detection has no plan. *)
LEMMA WithoutOrigin ==
  ASSUME PlanInv, OriginInv, NEW s \in Step, WithoutAutoDetect(s)
  PROVE  OriginInv'
<1>1. /\ scenario' = scenario /\ plan' = plan /\ pc[s] = "waiting"
      /\ pc'[s] \in {"error", "operate"}
      /\ Only(s)
      /\ local'[s].found = local[s].found /\ local'[s].used = local[s].used
  BY DEF WithoutAutoDetect, Only, Go, PlanInv, Shape, Locals, Idle
<1>2. pc[s] \notin PastDetection /\ pc'[s] \in PastDetection /\ pc'[s] \notin {"write", "rename"}
  BY <1>1, Phases
<1>3. \A key, dirs : AsRestored(key, dirs) => AsRestored(key, dirs)'
  BY <1>1, <1>2, RestoresStay
<1>4. local'[s].found = FALSE /\ local'[s].used = FALSE
  <2>1. pc[s] \in BeforeReading
    BY <1>1, Phases
  <2>2. QED
    BY <1>1, <2>1 DEF OriginInv, Origin
<1>5. Origin(s)'
  BY <1>1, <1>2, <1>4, Phases DEF Origin
<1>6. PlanOrigin'
  BY <1>1, <1>3, SameFile DEF OriginInv
<1>7. QED
  BY <1>1, <1>2, <1>5, <1>6, OriginKept

(* A save that opens the plan takes what the file says. *)
LEMMA OpenOrigin ==
  ASSUME PlanInv, OriginInv, NEW s \in Step, OpenPlan(s)
  PROVE  OriginInv'
<1>1. /\ scenario' = scenario /\ plan' = plan /\ pc[s] = "open"
      /\ pc'[s] = IF plan = NoPlan THEN "unreadable" ELSE "compare"
      /\ Only(s)
      /\ local'[s].found = local[s].found /\ local'[s].used = local[s].used
      /\ local'[s].fallbackPlan = plan
  BY DEF OpenPlan, Only, Go, PlanInv, Shape, Locals, Idle
<1>2. pc[s] \notin PastDetection /\ pc'[s] \in Reading /\ pc[s] \in Reading
  BY <1>1, Phases
<1>3. /\ \A key, dirs : AsRestored(key, dirs) => AsRestored(key, dirs)'
      /\ \A t \in Step : Cfg(t)' = Cfg(t) /\ (Overridden(t)' <=> Overridden(t))
  BY <1>1, <1>2, RestoresStay
<1>4. Origin(s) /\ PlanOrigin
  BY DEF OriginInv
<1>5. local'[s].found = FALSE /\ local'[s].used = FALSE /\ Cfg(s).auto /\ ~ Overridden(s)
  BY <1>1, <1>2, <1>4, Phases DEF Origin
<1>6. pc'[s] = "compare" => Opened(s)'
  <2>1. pc'[s] = "compare" => AsRestored(plan.key, plan.dirs)
    BY <1>1, <1>4 DEF PlanOrigin
  <2>2. AsRestored(plan.key, plan.dirs) => AsRestored(plan.key, plan.dirs)'
    BY <1>1, <1>3
  <2>3. QED
    BY <1>1, <2>1, <2>2 DEF Opened
<1>7. Origin(s)'
  BY <1>1, <1>3, <1>5, <1>6 DEF Origin
<1>8. PlanOrigin'
  BY <1>1, <1>3, <1>4, SameFile
<1>9. QED
  BY <1>1, <1>2, <1>7, <1>8, OriginKept

(* A save that reads it finds what it opened. *)
LEMMA ReadOrigin ==
  ASSUME PlanInv, OriginInv, NEW s \in Step, ReadPlan(s)
  PROVE  OriginInv'
<1>1. /\ scenario' = scenario /\ plan' = plan /\ pc[s] = "compare"
      /\ pc'[s] \in {"detect", "unreadable"}
      /\ Only(s)
      /\ local'[s].found = (pc'[s] = "detect") /\ local'[s].used = local[s].used
      /\ local'[s].fallbackPlan = local[s].fallbackPlan
  BY DEF ReadPlan, Only, Go, PlanInv, Shape, Locals, Idle
<1>2. pc[s] \notin PastDetection /\ pc[s] \in Reading
  BY <1>1, Phases
<1>3. /\ \A key, dirs : AsRestored(key, dirs) => AsRestored(key, dirs)'
      /\ \A t \in Step : Cfg(t)' = Cfg(t) /\ (Overridden(t)' <=> Overridden(t))
  BY <1>1, <1>2, RestoresStay
<1>4. Origin(s) /\ PlanOrigin
  BY DEF OriginInv
<1>5. local'[s].used = FALSE /\ Cfg(s).auto /\ ~ Overridden(s) /\ Opened(s)
  BY <1>1, <1>2, <1>4, Phases DEF Origin
<1>6. Opened(s)'
  BY <1>1, <1>3, <1>5 DEF Opened
<1>7. pc'[s] \in BeforeReading => local'[s].found = FALSE
  BY <1>1 DEF BeforeReading
<1>8. Origin(s)'
  BY <1>1, <1>3, <1>5, <1>6, <1>7 DEF Origin
<1>9. PlanOrigin'
  BY <1>1, <1>3, <1>4, SameFile
<1>10. QED
  BY <1>1, <1>2, <1>8, <1>9, OriginKept

(* A save that could not read the plan has none. *)
LEMMA DropOrigin ==
  ASSUME PlanInv, OriginInv, NEW s \in Step, DropUnreadablePlan(s)
  PROVE  OriginInv'
<1>1. /\ scenario' = scenario /\ plan' \in {plan, NoPlan} /\ pc[s] = "unreadable"
      /\ pc'[s] = "detect"
      /\ Only(s)
      /\ local'[s].found = local[s].found /\ local'[s].used = local[s].used
  BY DEF DropUnreadablePlan, Only, Go, PlanInv, Shape, Locals, Idle
<1>2. pc[s] \notin PastDetection /\ pc[s] \in Reading
  BY <1>1, Phases
<1>3. /\ \A key, dirs : AsRestored(key, dirs) => AsRestored(key, dirs)'
      /\ \A t \in Step : Cfg(t)' = Cfg(t) /\ (Overridden(t)' <=> Overridden(t))
  BY <1>1, <1>2, RestoresStay
<1>4. Origin(s) /\ PlanOrigin
  BY DEF OriginInv
<1>5. local'[s].found = FALSE /\ local'[s].used = FALSE /\ Cfg(s).auto
  BY <1>1, <1>2, <1>4, Phases DEF Origin
<1>6. pc'[s] \notin BeforeReading
  BY <1>1 DEF BeforeReading
<1>7. Origin(s)'
  BY <1>1, <1>3, <1>5, <1>6, Phases DEF Origin
<1>8. PlanOrigin'
  BY <1>1, <1>3, <1>4 DEF PlanOrigin
<1>9. QED
  BY <1>1, <1>2, <1>7, <1>8, OriginKept

(* A detection filters by the plan, or makes the key and paths of a restore. *)
LEMMA DetectOrigin ==
  ASSUME PlanInv, OriginInv, NEW s \in Step, Detect(s)
  PROVE  OriginInv'
<1>1. PICK result \in {detected(s)} :
        /\ Go(s, "detect", afterDetection(s, result))
        /\ local' = IF result.failed THEN local
                    ELSE [local EXCEPT ![s].cacheKey = resolvedKey(s, result.hashes),
                                       ![s].dirs = resolvedDirs(s, result.dirs),
                                       ![s].used = local[s].found]
  BY DEF Detect
<1>2. scenario' = scenario /\ plan' = plan /\ pc[s] = "detect"
  BY <1>1 DEF Detect, Go
<1>3. Only(s)
  <2>1. DOMAIN pc' = Step /\ \A t \in Step \ {s} : pc'[t] = pc[t]
    BY <1>1 DEF Go, PlanInv, Shape
  <2>2. /\ DOMAIN local' = Step
        /\ \A t \in Step : DOMAIN local'[t] = Locals
        /\ \A t \in Step \ {s} : local'[t] = local[t]
    BY <1>1 DEF PlanInv, Shape
  <2>3. QED
    BY <1>2, <2>1, <2>2 DEF Only, Shape
<1>4. pc'[s] = afterDetection(s, result)
  BY <1>1 DEF Go, PlanInv, Shape
<1>5. /\ local'[s].found = local[s].found /\ local'[s].fallbackPlan = local[s].fallbackPlan
      /\ result.failed => local'[s].used = local[s].used
      /\ ~ result.failed =>
           /\ local'[s].cacheKey = resolvedKey(s, result.hashes)
           /\ local'[s].dirs = resolvedDirs(s, result.dirs)
           /\ local'[s].used = local[s].found
  BY <1>1 DEF PlanInv, Shape, Locals, Idle
<1>6. pc[s] \notin PastDetection
  BY <1>2, Phases
<1>7. /\ \A key, dirs : AsRestored(key, dirs) => AsRestored(key, dirs)'
      /\ \A t \in Step : Cfg(t)' = Cfg(t) /\ (Overridden(t)' <=> Overridden(t))
  BY <1>2, <1>3, <1>6, RestoresStay
<1>8. Origin(s) /\ PlanOrigin
  BY DEF OriginInv
<1>9. Cfg(s).auto /\ local[s].used = FALSE /\ (local[s].found => ~ Overridden(s) /\ Opened(s))
  BY <1>2, <1>8 DEF Origin
<1>10. pc'[s] \in PastDetection /\ pc'[s] # "rename" /\ (pc'[s] = "write" => recordsPlan(s, result))
  BY <1>4, Phases DEF afterDetection
<1>11. pc'[s] = "write" => ~ result.failed
  BY <1>4 DEF afterDetection
<1>12. local[s].found => Opened(s)'
  BY <1>5, <1>7, <1>9 DEF Opened
<1>13. ASSUME pc'[s] = "write" PROVE Restored(s)'
  <2>1. Cfg(s).restore /\ ~ Overridden(s)
    BY <1>10, <1>13 DEF recordsPlan
  <2>2. Cfg(s).key = ""
    BY <2>1 DEF Overridden
  <2>3. local[s].found => local[s].fallbackPlan.key # <<>>
    BY <1>9 DEF Opened, AsRestored, Restored
  <2>4. resolvedKey(s, result.hashes) # <<>>
    <3>1. CASE local[s].found
      BY <2>2, <2>3, <3>1 DEF resolvedKey
    <3>2. CASE ~ local[s].found /\ result.hashes = <<>>
      <4>1. resolvedKey(s, result.hashes) = <<"default">>
        BY <2>2, <3>2 DEF resolvedKey
      <4>2. QED
        BY <4>1
    <3>3. CASE ~ local[s].found /\ result.hashes # <<>>
      BY <2>2, <3>3 DEF resolvedKey
    <3>4. QED
      BY <3>1, <3>2, <3>3
  <2>5. local'[s].cacheKey # <<>>
    BY <1>5, <1>11, <1>13, <2>4
  <2>6. QED
    BY <1>7, <1>9, <2>1, <2>5 DEF Restored, Automatic
<1>14. ASSUME local'[s].used PROVE AsRestored(local[s].cacheKey, local[s].dirs)'
  <2>1. ~ result.failed /\ local[s].found
    BY <1>5, <1>9, <1>14
  <2>2. Cfg(s).key = "" /\ ~ Cfg(s).path
    BY <1>9, <2>1 DEF Overridden
  <2>3. local'[s].cacheKey = local[s].fallbackPlan.key
    BY <1>5, <2>1, <2>2 DEF resolvedKey
  <2>4. local'[s].dirs \subseteq local[s].fallbackPlan.dirs
    BY <1>5, <2>1, <2>2 DEF resolvedDirs, FilterPathsForPlan
  <2>5. AsRestored(local[s].fallbackPlan.key, local[s].fallbackPlan.dirs)'
    BY <1>12, <2>1 DEF Opened
  <2>6. QED
    BY <1>5, <2>3, <2>4, <2>5 DEF AsRestored
<1>15. Origin(s)'
  <2>1. pc'[s] \notin BeforeReading \cup {"detect"} /\ pc'[s] \notin Reading /\ pc'[s] # "compare"
    BY <1>10, Phases
  <2>2. pc'[s] \in {"write", "rename"} => Restored(s)'
    BY <1>10, <1>13
  <2>3. local'[s].found => ~ Overridden(s)' /\ Opened(s)'
    BY <1>5, <1>7, <1>9, <1>12
  <2>4. QED
    BY <1>7, <1>9, <1>14, <2>1, <2>2, <2>3 DEF Origin
<1>16. PlanOrigin'
  BY <1>2, <1>7, <1>8, SameFile
<1>17. QED
  BY <1>3, <1>6, <1>15, <1>16, OriginKept

(* The plan that a restore writes is its own. *)
LEMMA RenameOrigin ==
  ASSUME PlanInv, OriginInv, NEW s \in Step, Rename(s)
  PROVE  OriginInv'
<1>1. /\ scenario' = scenario /\ local' = local /\ plan' \in {plan, PlanOf(s)}
      /\ pc[s] = "rename" /\ pc'[s] = "operate"
      /\ \E to : pc' = [pc EXCEPT ![s] = to]
  BY DEF Rename, Go, PlanInv, Shape
<1>2. Only(s)
  BY <1>1 DEF Only, PlanInv, Shape, Locals, Idle
<1>3. pc'[s] \in PastDetection /\ pc[s] \in PastDetection
  BY <1>1, Phases
<1>4. /\ \A key, dirs : AsRestored(key, dirs) => AsRestored(key, dirs)'
      /\ \A t \in Step : Cfg(t)' = Cfg(t) /\ (Overridden(t)' <=> Overridden(t))
  BY <1>1, <1>2, <1>3, RestoresStay
<1>5. Origin(s) /\ PlanOrigin
  BY DEF OriginInv
<1>6. Restored(s)
  BY <1>1, <1>5 DEF Origin
<1>7. AsRestored(PlanOf(s).key, PlanOf(s).dirs)
  BY <1>3, <1>6 DEF AsRestored, PlanOf
<1>8. PlanOrigin'
  <2>1. CASE plan' = plan
    BY <1>4, <1>5, <2>1, SameFile
  <2>2. CASE plan' = PlanOf(s)
    <3>1. AsRestored(PlanOf(s).key, PlanOf(s).dirs)'
      <4>1. PICK p : p = PlanOf(s) /\ p' = p
        BY <1>1 DEF PlanOf
      <4>2. AsRestored(p.key, p.dirs)'
        BY <1>4, <1>7, <4>1
      <4>3. PlanOf(s)' = PlanOf(s)
        BY <1>1 DEF PlanOf
      <4>4. QED
        BY <4>1, <4>2, <4>3
    <3>2. QED
      BY <1>1, <2>2, <3>1 DEF PlanOrigin, PlanOf
  <2>3. QED
    BY <1>1, <2>1, <2>2
<1>9. Origin(s)'
  <2>1. Opened(s) => Opened(s)'
    BY <1>1, <1>4 DEF Opened
  <2>2. local[s].used => AsRestored(local[s].cacheKey, local[s].dirs)'
    BY <1>1, <1>4, <1>5 DEF Origin
  <2>3. QED
    BY <1>1, <1>3, <1>4, <1>5, <2>1, <2>2, Phases DEF Origin
<1>10. QED
  BY <1>1, <1>2, <1>3, <1>8, <1>9, OriginKept

(* An operation changes neither key nor directories. *)
LEMMA OperateOrigin ==
  ASSUME PlanInv, OriginInv, NEW s \in Step, Operate(s) \/ ConsumePlan(s)
  PROVE  OriginInv'
<1>1. /\ scenario' = scenario /\ plan' \in {plan, NoPlan}
      /\ pc[s] \in {"operate", "consume"} /\ pc'[s] \in {"error", "consume", "ok"}
      /\ Only(s)
      /\ local'[s].found = local[s].found /\ local'[s].used = local[s].used
      /\ local'[s].fallbackPlan = local[s].fallbackPlan
      /\ local'[s].cacheKey = local[s].cacheKey /\ local'[s].dirs = local[s].dirs
  BY DEF Operate, AfterOperation, ConsumePlan, Only, Go, PlanInv, Shape, Locals, Idle
<1>2. pc'[s] \in PastDetection /\ pc[s] \in PastDetection
  BY <1>1, Phases
<1>3. /\ \A key, dirs : AsRestored(key, dirs) => AsRestored(key, dirs)'
      /\ \A t \in Step : Cfg(t)' = Cfg(t) /\ (Overridden(t)' <=> Overridden(t))
  BY <1>1, <1>2, RestoresStay
<1>4. Origin(s) /\ PlanOrigin
  BY DEF OriginInv
<1>5. Opened(s) => Opened(s)'
  BY <1>1, <1>3 DEF Opened
<1>6. local[s].used => AsRestored(local[s].cacheKey, local[s].dirs)'
  BY <1>1, <1>3, <1>4 DEF Origin
<1>7. Origin(s)'
  BY <1>1, <1>2, <1>3, <1>4, <1>5, <1>6, Phases DEF Origin
<1>8. PlanOrigin'
  BY <1>1, <1>3, <1>4 DEF PlanOrigin
<1>9. QED
  BY <1>1, <1>2, <1>7, <1>8, OriginKept

(* Every step keeps OriginInv. *)
LEMMA NextOrigin == PlanInv /\ OriginInv /\ [Next]_vars => OriginInv'
<1> SUFFICES ASSUME PlanInv, OriginInv, [Next]_vars PROVE OriginInv'
  OBVIOUS
<1>1. CASE NextBatch \/ UNCHANGED vars
  <2>1. UNCHANGED <<scenario, plan, pc, local>>
    BY <1>1 DEF NextBatch, vars
  <2>2. \A t \in Step : Cfg(t)' = Cfg(t) /\ (Overridden(t)' <=> Overridden(t))
    BY <2>1 DEF Cfg, Overridden
  <2>3. \A key, dirs : AsRestored(key, dirs)' <=> AsRestored(key, dirs)
    BY <2>1, <2>2 DEF AsRestored, Restored, Automatic
  <2>4. PlanOrigin'
    BY <2>1, <2>3, SameFile DEF OriginInv
  <2>5. ASSUME NEW t \in Step PROVE Origin(t)'
    <3>1. Origin(t)
      BY DEF OriginInv
    <3>2. (Opened(t) => Opened(t)') /\ (Restored(t) => Restored(t)')
      BY <2>1, <2>2, <2>3 DEF Opened, Restored, Automatic
    <3>3. local[t].used => AsRestored(local[t].cacheKey, local[t].dirs)'
      BY <2>1, <2>3, <3>1 DEF Origin
    <3>4. QED
      BY <2>1, <2>2, <3>1, <3>2, <3>3 DEF Origin
  <2>6. QED
    BY <2>4, <2>5 DEF OriginInv
<1>2. ASSUME NEW s \in Step, Kill(s) \/ StepAction(s) PROVE OriginInv'
  BY <1>2, MoveOrigin, WithoutOrigin, OpenOrigin, ReadOrigin, DropOrigin, DetectOrigin,
     RenameOrigin, OperateOrigin DEF StepAction
<1>3. QED
  BY <1>1, <1>2 DEF Next

(***************************************************************************)
(* A save with a plan stores nothing but paths that a restore of its stage *)
(* asked for, under the key that the restore asked for: whatever is built, *)
(* killed or repeated, and whoever else writes, reads or removes the plan. *)
(***************************************************************************)
THEOREM SpecPlannedSaveIsARestores == Spec => []PlannedSaveIsARestores
<1>1. OriginInv => PlannedSaveIsARestores
  BY DEF OriginInv, Origin, AsRestored, PlannedSaveIsARestores
<1>2. QED
  BY <1>1, InitPlan, NextPlan, InitOrigin, NextOrigin, PTL DEF Spec
-----------------------------------------------------------------------------
(***************************************************************************)
(* Each step, killed or not, removes its temporary file with the step that *)
(* makes the plan of it or fails to.                                       *)
(***************************************************************************)
StageInv == StageTypes /\ TempFiles

(* The bounds of a scenario are numbers. *)
LEMMA ScenarioParts ==
  ASSUME scenario \in Scenarios
  PROVE  /\ scenario.faults \in Nat /\ Len(scenario.batches) \in Nat
         /\ DOMAIN scenario.batches = 1..Len(scenario.batches)
<1>1. scenario.faults \in Nat /\ scenario.batches \in Seq(SUBSET Step \cup {{"build"}})
  BY AutoPlanAssumption
<1>2. PICK b \in Seq(SUBSET Step \cup {{"build"}}) : b = scenario.batches
  BY <1>1
<1>3. Len(b) \in Nat /\ DOMAIN b = 1..Len(b)
  OBVIOUS
<1>4. QED
  BY <1>1, <1>2, <1>3

(* Nothing is left at the start. *)
LEMMA InitStage == Init => StageInv
<1> SUFFICES ASSUME Init PROVE StageInv
  OBVIOUS
<1>1. /\ scenario \in Scenarios /\ faults = 0 /\ batch = 1 /\ plan = NoPlan /\ left = {}
      /\ pc = [s \in Step |-> "waiting"]
  BY DEF Init
<1>2. faults \in 0..scenario.faults /\ batch \in 1..Len(scenario.batches) + 1
  BY <1>1, ScenarioParts
<1>3. QED
  BY <1>1, <1>2 DEF StageInv, StageTypes, TempFiles, NoPlan

(* Where a step can be. *)
Phase == Ended \cup {"waiting", "validate", "open", "compare", "unreadable", "detect", "write",
                     "rename", "operate", "consume"}

(* What becomes of the file of a step that goes on. *)
Moves(s, to) ==
  \/ to = "rename" /\ left' = left \cup {s}
  \/ to # "rename" /\ left' = left \ {s} /\ pc[s] = "rename"
  \/ to = "killed" /\ left' = left
  \/ to # "rename" /\ left' = left /\ pc[s] \notin {"rename", "killed"}

(* A kill leaves the temporary file behind. *)
LEMMA KillMoves ==
  ASSUME NEW s \in Step, Kill(s)
  PROVE  \E to \in Phase : pc' = [pc EXCEPT ![s] = to] /\ Moves(s, to)
BY DEF Kill, Moves, Phase, Ended

(* Any other step creates its own file or removes it. *)
LEMMA StepMoves ==
  ASSUME NEW s \in Step, StepAction(s), pc \in [Step -> Phase]
  PROVE  \E to \in Phase : pc' = [pc EXCEPT ![s] = to] /\ Moves(s, to)
<1>1. CASE RefuseBoth(s) \/ WithoutAutoDetect(s) \/ AutoDetectStart(s)
  BY <1>1 DEF RefuseBoth, WithoutAutoDetect, AutoDetectStart, Go, Moves, Phase, Ended
<1>2. CASE ValidatePlanFile(s) \/ OpenPlan(s) \/ ReadPlan(s) \/ DropUnreadablePlan(s)
  BY <1>2 DEF ValidatePlanFile, OpenPlan, ReadPlan, DropUnreadablePlan, Go, Moves, Phase, Ended
<1>3. CASE Detect(s)
  <2>1. PICK result \in {detected(s)} : Go(s, "detect", afterDetection(s, result))
    BY <1>3 DEF Detect
  <2>2. afterDetection(s, result) \in {"error", "write", "skipped", "operate"}
    BY DEF afterDetection
  <2>3. left' = left /\ pc[s] = "detect"
    BY <1>3 DEF Detect
  <2>4. QED
    BY <2>1, <2>2, <2>3 DEF Go, Moves, Phase, Ended
<1>4. CASE CreateTemp(s)
  <2>1. PICK to \in {"rename", "operate"} : Go(s, "write", to)
    BY <1>4 DEF CreateTemp, NotWritten
  <2>2. pc'[s] = to /\ pc[s] = "write" /\ pc' = [pc EXCEPT ![s] = to]
    BY <2>1 DEF Go
  <2>3. left' = IF pc'[s] = "rename" THEN left \cup {s} ELSE left
    BY <1>4 DEF CreateTemp
  <2>4. QED
    BY <2>2, <2>3 DEF Moves, Phase, Ended
<1>5. CASE Rename(s)
  BY <1>5 DEF Rename, TempRemoved, Go, Moves, Phase, Ended
<1>6. CASE Operate(s) \/ ConsumePlan(s)
  BY <1>6 DEF Operate, AfterOperation, ConsumePlan, Go, Moves, Phase, Ended
<1>7. QED
  BY <1>1, <1>2, <1>3, <1>4, <1>5, <1>6 DEF StepAction

(* Every step keeps StageInv. *)
LEMMA NextStage == StageInv /\ [Next]_vars => StageInv'
<1> SUFFICES ASSUME StageInv, [Next]_vars PROVE StageInv'
  OBVIOUS
<1>1. /\ scenario.faults \in Nat /\ Len(scenario.batches) \in Nat
      /\ DOMAIN scenario.batches = 1..Len(scenario.batches)
  BY ScenarioParts DEF StageInv, StageTypes
<1>2. CASE UNCHANGED vars
  BY <1>2 DEF vars, StageInv, StageTypes, TempFiles
<1>3. CASE NextBatch
  <2>1. batch \in 1..Len(scenario.batches) /\ batch' = batch + 1
    BY <1>1, <1>3 DEF NextBatch
  <2>2. batch' \in 1..Len(scenario.batches) + 1
    BY <1>1, <2>1
  <2>3. UNCHANGED <<scenario, faults, plan, left, pc>>
    BY <1>3 DEF NextBatch
  <2>4. QED
    BY <2>2, <2>3 DEF StageInv, StageTypes, TempFiles
<1>4. ASSUME NEW s \in Step, Kill(s) \/ StepAction(s) PROVE StageInv'
  <2>1. scenario' = scenario /\ batch' = batch /\ faults' \in {faults, faults + 1}
        /\ (faults' = faults \/ faults < scenario.faults)
    BY <1>4 DEF Kill, StepAction, Fault, RefuseBoth, WithoutAutoDetect, AutoDetectStart,
       ValidatePlanFile, OpenPlan, ReadPlan, DropUnreadablePlan, Detect, CreateTemp, Rename,
       Operate, ConsumePlan
  <2>2. faults' \in 0..scenario'.faults
    BY <1>1, <2>1 DEF StageInv, StageTypes
  <2>3. plan' \in {plan, NoPlan, PlanOf(s)}
    BY <1>4 DEF Kill, StepAction, RefuseBoth, WithoutAutoDetect, AutoDetectStart,
       ValidatePlanFile, OpenPlan, ReadPlan, DropUnreadablePlan, Detect, CreateTemp, Rename,
       Operate, ConsumePlan
  <2>4. plan'.writer \in Step \cup {"nobody"}
    BY <2>3 DEF StageInv, StageTypes, NoPlan, PlanOf
  <2>5. pc \in [Step -> Phase] /\ left \subseteq Step /\ TempFiles
    BY DEF StageInv, StageTypes, Phase
  <2>6. \E to \in Phase : pc' = [pc EXCEPT ![s] = to] /\ Moves(s, to)
    BY <1>4, <2>5, StepMoves, KillMoves
  <2>7. PICK to \in Phase : pc' = [pc EXCEPT ![s] = to] /\ Moves(s, to)
    BY <2>6
  <2>8. pc' \in [Step -> Phase] /\ pc'[s] = to /\ \A t \in Step \ {s} : pc'[t] = pc[t]
    BY <2>5, <2>7
  <2>9. left' \subseteq Step
    BY <2>5, <2>7 DEF Moves
  <2>10. TempFiles'
    <3>1. ASSUME NEW t \in Step, pc'[t] = "rename" PROVE t \in left'
      BY <2>5, <2>7, <2>8, <3>1 DEF Moves, TempFiles
    <3>2. ASSUME NEW t \in left' PROVE pc'[t] \in {"rename", "killed"}
      <4>1. CASE t = s
        BY <2>5, <2>7, <2>8, <3>2, <4>1 DEF Moves, TempFiles
      <4>2. CASE t # s
        BY <2>5, <2>7, <2>8, <2>9, <3>2, <4>2 DEF Moves, TempFiles
      <4>3. QED
        BY <4>1, <4>2
    <3>3. QED
      BY <3>1, <3>2 DEF TempFiles
  <2>11. QED
    BY <2>1, <2>2, <2>4, <2>8, <2>9, <2>10 DEF StageInv, StageTypes, Phase
<1>5. QED
  BY <1>2, <1>3, <1>4 DEF Next

-----------------------------------------------------------------------------
(***************************************************************************)
(* The workspace stays one, whatever the steps write and the build         *)
(* generates; and if the configuration is the project's, it leads the      *)
(* tools to what the steps store.                                          *)
(***************************************************************************)
WorkspaceInv == StageInv /\ IsWorkspace(ws)

(* The build leaves the configuration alone, and the project's is as the preparers expect it. *)
ExpectedFiles == configurationIsTheProjects /\ appendedFilesEnd

(* The configuration leads the tools to what every step has found. *)
LeadsInv ==
  ExpectedFiles => Expected(ws) /\ \A s \in Step : Leads(ws, local[s].dirs)

(* A build makes a workspace, in which what it did not generate is as it was. *)
LEMMA BuiltWorkspace ==
  ASSUME scenario \in Scenarios, NEW w, IsWorkspace(w)
  PROVE  /\ IsWorkspace(Built(w))
         /\ \A d \in Dir : \A file :
              \/ <<d, file>> \notin scenario.generated /\ SameThere(w, Built(w), d, file)
              \/ /\ <<d, file>> \in scenario.generated /\ Exists(Built(w), d, file)
                 /\ Read(Built(w), d, file) = <<"generated">>
<1> DEFINE v == Built(w)
<1>1. DOMAIN v = DOMAIN w \cup scenario.generated
      /\ \A f \in DOMAIN v : v[f] = IF f \in scenario.generated THEN <<"generated">> ELSE w[f]
  BY DEF Built
<1>2. scenario.generated \subseteq Dir \X File
  BY AutoPlanAssumption
<1>3. <<"generated">> \in Seq(Word)
  <2>1. "generated" \in Word
    BY AutoDetectAssumption
  <2>2. QED
    BY <2>1
<1>4. IsWorkspace(v)
  <2>1. v = [f \in DOMAIN v |-> v[f]]
    BY DEF Built
  <2> HIDE DEF v
  <2>2. DOMAIN v \subseteq Dir \X File
    BY <1>1, <1>2 DEF IsWorkspace
  <2>3. \A f \in DOMAIN v : v[f] \in Seq(Word)
    BY <1>1, <1>3 DEF IsWorkspace
  <2>4. QED
    BY <2>1, <2>2, <2>3 DEF IsWorkspace
<1> HIDE DEF v
<1>5. \A d \in Dir : \A file :
        \/ <<d, file>> \notin scenario.generated /\ SameThere(w, v, d, file)
        \/ /\ <<d, file>> \in scenario.generated /\ Exists(v, d, file)
           /\ Read(v, d, file) = <<"generated">>
  BY <1>1 DEF SameThere, Exists, Read
<1>6. QED
  BY <1>4, <1>5 DEF v

(* What a step is asked for has its type. *)
LEMMA SettledScenario ==
  ASSUME scenario \in Scenarios, NEW s \in Step
  PROVE  /\ IsWorkspace(scenario.ws)
         /\ Cfg(s).restore \in BOOLEAN /\ Cfg(s).rebuild \in BOOLEAN /\ Cfg(s).auto \in BOOLEAN
         /\ Cfg(s).path \in BOOLEAN /\ Cfg(s).key \in {"", "user", "bad"}
<1>1. scenario.settings \in [Step -> Settled] /\ IsWorkspace(scenario.ws)
  BY AutoPlanAssumption
<1>2. Cfg(s) \in Settled
  BY <1>1 DEF Cfg
<1>3. QED
  BY <1>1, <1>2 DEF Settled

(* The checkout is a workspace. *)
LEMMA InitWorkspace == Init => WorkspaceInv /\ LeadsInv
<1> SUFFICES ASSUME Init PROVE WorkspaceInv /\ LeadsInv
  OBVIOUS
<1>1. StageInv /\ scenario \in Scenarios /\ ws = scenario.ws /\ local = [s \in Step |-> Idle]
  BY InitStage DEF Init
<1>2. IsWorkspace(ws)
  BY <1>1, AutoPlanAssumption
<1>3. ExpectedFiles => Expected(ws)
  BY <1>1 DEF ExpectedFiles, configurationIsTheProjects, appendedFilesEnd, Expected,
         SetOnce, RawEnd, Raw
<1>4. \A s \in Step : Leads(ws, local[s].dirs)
  BY <1>1 DEF Leads, Idle
<1>5. QED
  BY <1>1, <1>2, <1>3, <1>4 DEF WorkspaceInv, LeadsInv

(* What a detection does to the workspace and to the step that made it. *)
LEMMA DetectDoes ==
  ASSUME PlanInv, NEW s \in Step, Detect(s)
  PROVE  LET result == detected(s) IN
         /\ ws' = result.ws /\ scenario' = scenario /\ plan' = plan /\ faults' = faults
         /\ batch' = batch
         /\ pc[s] = "detect" /\ pc'[s] = afterDetection(s, result)
         /\ \A t \in Step \ {s} : local'[t] = local[t] /\ pc'[t] = pc[t]
         /\ result.failed => local' = local
         /\ ~ result.failed =>
              /\ local'[s].cacheKey = resolvedKey(s, result.hashes)
              /\ local'[s].dirs = resolvedDirs(s, result.dirs)
              /\ local'[s].used = local[s].found
         /\ local'[s].found = local[s].found /\ local'[s].fallbackPlan = local[s].fallbackPlan
<1>1. PICK result \in {detected(s)} :
        /\ Go(s, "detect", afterDetection(s, result))
        /\ ws' = result.ws
        /\ local' = IF result.failed THEN local
                    ELSE [local EXCEPT ![s].cacheKey = resolvedKey(s, result.hashes),
                                       ![s].dirs = resolvedDirs(s, result.dirs),
                                       ![s].used = local[s].found]
  BY DEF Detect
<1>2. result = detected(s)
  OBVIOUS
<1>3. /\ scenario' = scenario /\ plan' = plan /\ faults' = faults /\ batch' = batch
      /\ pc[s] = "detect" /\ pc'[s] = afterDetection(s, result)
      /\ \A t \in Step \ {s} : pc'[t] = pc[t]
  BY <1>1 DEF Detect, Go, PlanInv, Shape
<1>4. /\ \A t \in Step \ {s} : local'[t] = local[t]
      /\ local'[s].found = local[s].found /\ local'[s].fallbackPlan = local[s].fallbackPlan
      /\ ~ result.failed =>
              /\ local'[s].cacheKey = resolvedKey(s, result.hashes)
              /\ local'[s].dirs = resolvedDirs(s, result.dirs)
              /\ local'[s].used = local[s].found
  BY <1>1 DEF PlanInv, Shape, Locals, Idle
<1>5. QED
  BY <1>1, <1>2, <1>3, <1>4

(* Only a detection writes to the workspace, and it changes the directories of its step. *)
LEMMA OtherSteps ==
  ASSUME PlanInv, NEW s \in Step, Kill(s) \/ StepAction(s), ~ Detect(s)
  PROVE  /\ ws' = ws /\ scenario' = scenario
         /\ \A t \in Step : local'[t].dirs = local[t].dirs \/ local'[t].dirs \in {UserPath, {}}
<1>1. CASE WithoutAutoDetect(s)
  BY <1>1 DEF WithoutAutoDetect, PlanInv, Shape, Locals, Idle
<1>2. CASE \/ Kill(s) \/ RefuseBoth(s) \/ AutoDetectStart(s) \/ ValidatePlanFile(s)
           \/ CreateTemp(s) \/ Rename(s) \/ ConsumePlan(s)
  BY <1>2 DEF Kill, RefuseBoth, AutoDetectStart, ValidatePlanFile, CreateTemp, Rename, ConsumePlan
<1>3. CASE OpenPlan(s) \/ ReadPlan(s) \/ DropUnreadablePlan(s) \/ Operate(s)
  BY <1>3 DEF OpenPlan, ReadPlan, DropUnreadablePlan, Operate, PlanInv, Shape, Locals, Idle
<1>4. QED
  BY <1>1, <1>2, <1>3 DEF StepAction

(* A path of the user's is no directory of a tool's own. *)
LEMMA UserPathLeads == \A w : Leads(w, UserPath) /\ Leads(w, {})
<1>1. \A d \in Dir : d # "user"
  BY DEF Dir
<1>2. QED
  BY <1>1 DEF Leads, UserPath

(* Every step keeps both. *)
LEMMA NextWorkspace ==
  PlanInv /\ WorkspaceInv /\ LeadsInv /\ [Next]_vars => WorkspaceInv' /\ LeadsInv'
<1> SUFFICES ASSUME PlanInv, WorkspaceInv, LeadsInv, [Next]_vars PROVE WorkspaceInv' /\ LeadsInv'
  OBVIOUS
<1>1. StageInv' /\ scenario \in Scenarios
  BY NextStage DEF WorkspaceInv, StageInv, StageTypes
<1>2. CASE UNCHANGED vars
  BY <1>1, <1>2 DEF vars, WorkspaceInv, LeadsInv, ExpectedFiles,
         configurationIsTheProjects, appendedFilesEnd
<1>3. CASE NextBatch
  <2>1. scenario' = scenario /\ local' = local /\ ws' \in {ws, Built(ws)}
    BY <1>3 DEF NextBatch
  <2>2. IsWorkspace(ws) /\ IsWorkspace(Built(ws))
    BY <1>1, BuiltWorkspace DEF WorkspaceInv
  <2>3. IsWorkspace(ws')
    BY <2>1, <2>2
  <2>4. ASSUME ExpectedFiles
        PROVE Expected(ws') /\ \A s \in Step : Leads(ws', local[s].dirs)
    <3>1. \A d \in Dir, file \in Range(Configured) : Read(ws', d, file) = Read(ws, d, file)
      <4>1. \A d \in Dir, file \in Range(Configured) : <<d, file>> \notin scenario.generated
        BY <2>4 DEF ExpectedFiles, configurationIsTheProjects
      <4>2. \A d \in Dir, file \in Range(Configured) : Read(Built(ws), d, file) = Read(ws, d, file)
        BY <1>1, <2>2, <4>1, BuiltWorkspace DEF SameThere
      <4>3. QED
        BY <2>1, <4>2
    <3>2. /\ \A tool \in DOMAIN Configured : Configured[tool] \in Range(Configured)
          /\ "poetry.toml" \in Range(Configured) /\ ".bundle/config" \in Range(Configured)
          /\ Raw \subseteq Range(Configured)
      BY ConfiguredTools DEF Range, Raw
    <3>3. Expected(ws) /\ \A s \in Step : Leads(ws, local[s].dirs)
      BY <2>4 DEF LeadsInv
    <3>4. Expected(ws')
      BY <3>1, <3>2, <3>3 DEF Expected, SetOnce, RawEnd
    <3>5. \A tool \in DOMAIN Configured, d \in Dir : LeadsThere(ws', tool, d)
          <=> LeadsThere(ws, tool, d)
      BY <3>1, <3>2 DEF LeadsThere
    <3>6. QED
      BY <3>3, <3>4, <3>5 DEF Leads
  <2>5. ExpectedFiles' <=> ExpectedFiles
    BY <2>1 DEF ExpectedFiles, configurationIsTheProjects, appendedFilesEnd
  <2>6. QED
    BY <1>1, <2>1, <2>3, <2>4, <2>5 DEF WorkspaceInv, LeadsInv
<1>4. ASSUME NEW s \in Step, Detect(s) PROVE WorkspaceInv' /\ LeadsInv'
  <2> DEFINE result == detected(s)
  <2>1. /\ ws' = result.ws /\ scenario' = scenario
        /\ \A t \in Step \ {s} : local'[t].dirs = local[t].dirs
        /\ local'[s].dirs \in {local[s].dirs, resolvedDirs(s, result.dirs)}
    <3>1. Detect(s)
      BY <1>4
    <3>2. QED
      BY <3>1, DetectDoes
  <2>2. Cfg(s).path \in BOOLEAN
    BY <1>1, SettledScenario
  <2>3. IsWorkspace(ws')
    BY <2>1, <2>2, DetectionIsWorkspace DEF detected, WorkspaceInv
  <2>4. ASSUME ExpectedFiles
        PROVE Expected(ws') /\ \A t \in Step : Leads(ws', local'[t].dirs)
    <3>1. Expected(ws) /\ IsWorkspace(ws) /\ \A t \in Step : Leads(ws, local[t].dirs)
      BY <2>4 DEF LeadsInv, WorkspaceInv
    <3>2. Leads(ws', result.dirs) /\ Expected(ws') /\ StillLeads(ws, ws')
      BY <2>1, <2>2, <3>1, DetectionLeads DEF detected
    <3>3. \A t \in Step : Leads(ws', local[t].dirs)
      BY <3>1, <3>2 DEF Leads, StillLeads
    <3>4. resolvedDirs(s, result.dirs) \subseteq result.dirs
          \/ resolvedDirs(s, result.dirs) = UserPath
      BY DEF resolvedDirs, FilterPathsForPlan
    <3>5. Leads(ws', resolvedDirs(s, result.dirs))
      <4> HIDE DEF result
      <4>1. QED
        BY <3>2, <3>4, UserPathLeads DEF Leads
    <3>6. QED
      BY <2>1, <3>2, <3>3, <3>5
  <2>5. ExpectedFiles' <=> ExpectedFiles
    BY <2>1 DEF ExpectedFiles, configurationIsTheProjects, appendedFilesEnd
  <2>6. QED
    BY <1>1, <2>3, <2>4, <2>5 DEF WorkspaceInv, LeadsInv
<1>5. ASSUME NEW s \in Step, Kill(s) \/ StepAction(s), ~ Detect(s) PROVE WorkspaceInv' /\ LeadsInv'
  <2>1. /\ ws' = ws /\ scenario' = scenario
        /\ \A t \in Step : local'[t].dirs = local[t].dirs \/ local'[t].dirs \in {UserPath, {}}
    BY <1>5, OtherSteps
  <2>2. ExpectedFiles' <=> ExpectedFiles
    BY <2>1 DEF ExpectedFiles, configurationIsTheProjects, appendedFilesEnd
  <2>3. ASSUME ExpectedFiles PROVE \A t \in Step : Leads(ws', local'[t].dirs)
    BY <2>1, <2>3, UserPathLeads DEF LeadsInv
  <2>4. QED
    BY <1>1, <2>1, <2>2, <2>3 DEF WorkspaceInv, LeadsInv
<1>6. QED
  BY <1>2, <1>3, <1>4, <1>5 DEF Next, StepAction

(***************************************************************************)
(* The variables keep their types: whatever the preparers write and the    *)
(* build generates, in any order, the workspace stays one; and a temporary *)
(* file of the plan stays behind only when the step that wrote it was      *)
(* killed before its rename.                                               *)
(***************************************************************************)
THEOREM SpecTypeOK == Spec => []TypeOK
<1>1. WorkspaceInv => TypeOK
  BY DEF WorkspaceInv, StageInv, TypeOK
<1>2. QED
  BY <1>1, InitPlan, NextPlan, InitWorkspace, NextWorkspace, PTL DEF Spec

(***************************************************************************)
(* "configures the respective package manager to cache dependencies in     *)
(* repo-local directories": what a step has found for a tool is where the  *)
(* configuration leads the tool, at that moment and in every later one, if *)
(* the two files that are appended to raw ended with a newline at first.   *)
(***************************************************************************)
THEOREM SpecStoresWhereToolsCache == Spec => []StoresWhereToolsCache
<1>1. LeadsInv => StoresWhereToolsCache
  BY DEF LeadsInv, ExpectedFiles, Leads, LeadsThere, LastIsOwn, StoresWhereToolsCache,
         LeadsTools, uses
<1>2. QED
  BY <1>1, InitPlan, NextPlan, InitWorkspace, NextWorkspace, PTL DEF Spec

-----------------------------------------------------------------------------
(***************************************************************************)
(* Whose turn it is: the steps at work are those of the batch that runs,   *)
(* those of earlier batches have ended, so that nothing that precedes the  *)
(* build is at work after it.                                              *)
(***************************************************************************)
isBuilt == \E i \in DOMAIN scenario.batches : i < batch /\ scenario.batches[i] = {"build"}

Active(s) == pc[s] \notin Ended \cup {"waiting"}

(* Whose turn it is, told by one step. *)
Turn(s) ==
  /\ Active(s) => s \in Running /\ ~ (Cfg(s).rebuild /\ Cfg(s).restore)
  /\ pc[s] # "waiting" => \E i \in DOMAIN scenario.batches : i <= batch /\ s \in scenario.batches[i]
  /\ \A i \in DOMAIN scenario.batches : i < batch /\ s \in scenario.batches[i] => pc[s] \in Ended

Turns == \A s \in Step : Turn(s)

(* No step is at work at the start. *)
LEMMA InitTurns == Init => Turns
<1> SUFFICES ASSUME Init, NEW s \in Step PROVE Turn(s)
  BY DEF Turns
<1>1. batch = 1 /\ pc[s] = "waiting" /\ scenario \in Scenarios
  BY DEF Init
<1>2. DOMAIN scenario.batches = 1..Len(scenario.batches) /\ Len(scenario.batches) \in Nat
  BY <1>1, ScenarioParts
<1>3. ~ Active(s)
  BY <1>1 DEF Active
<1>4. \A i \in DOMAIN scenario.batches : ~ (i < batch)
  BY <1>1, <1>2
<1>5. QED
  BY <1>1, <1>3, <1>4 DEF Turn

(* A step that goes on is at work or starts. *)
LEMMA StepGoes ==
  ASSUME PlanInv, StageInv, NEW s \in Step, Kill(s) \/ StepAction(s)
  PROVE  /\ s \in Running /\ pc[s] \notin Ended /\ scenario' = scenario /\ batch' = batch /\ Only(s)
         /\ \A t \in Step \ {s} : pc'[t] = pc[t]
         /\ pc[s] # "waiting" \/ pc'[s] \in Ended \/ ~ (Cfg(s).rebuild /\ Cfg(s).restore)
         /\ pc'[s] # "waiting"
<1>1. DOMAIN pc = Step
  BY DEF PlanInv, Shape
<1>2. CASE Kill(s)
  <2>1. Only(s)
    BY <1>2 DEF Kill, Only, PlanInv, Shape
  <2>2. QED
    BY <1>1, <1>2, <2>1 DEF Kill, Ended
<1>3. CASE RefuseBoth(s) \/ AutoDetectStart(s) \/ ValidatePlanFile(s) \/ CreateTemp(s)
      \/ Rename(s) \/ ConsumePlan(s)
  <2>1. Only(s)
    BY <1>3 DEF RefuseBoth, AutoDetectStart, ValidatePlanFile, CreateTemp, Rename, ConsumePlan,
       Only, Go, PlanInv, Shape
  <2>2. s \in Running /\ scenario' = scenario /\ batch' = batch
    BY <1>3 DEF RefuseBoth, AutoDetectStart, ValidatePlanFile, CreateTemp, Rename, ConsumePlan, Go
  <2>3. CASE RefuseBoth(s) \/ AutoDetectStart(s)
    BY <1>1, <2>1, <2>2, <2>3 DEF RefuseBoth, AutoDetectStart, Go, Ended, Only
  <2>4. CASE ValidatePlanFile(s)
    BY <1>1, <2>1, <2>2, <2>4 DEF ValidatePlanFile, Go, Ended, Only
  <2>5. CASE CreateTemp(s) \/ Rename(s) \/ ConsumePlan(s)
    BY <1>1, <2>1, <2>2, <2>5 DEF CreateTemp, NotWritten, Rename, ConsumePlan, Go, Ended, Only
  <2>6. QED
    BY <1>3, <2>3, <2>4, <2>5
<1>4. CASE OpenPlan(s) \/ ReadPlan(s) \/ DropUnreadablePlan(s)
  <2>1. Only(s)
    BY <1>4 DEF OpenPlan, ReadPlan, DropUnreadablePlan, Only, Go, PlanInv, Shape, Locals, Idle
  <2>2. QED
    BY <1>1, <1>4, <2>1 DEF OpenPlan, ReadPlan, DropUnreadablePlan, Go, Ended, Only
<1>5. CASE WithoutAutoDetect(s)
  <2>1. Only(s)
    BY <1>5 DEF WithoutAutoDetect, Only, Go, PlanInv, Shape, Locals, Idle
  <2>2. QED
    BY <1>1, <1>5, <2>1 DEF WithoutAutoDetect, Go, Ended, Only
<1>6. CASE Operate(s)
  <2>1. Only(s)
    BY <1>6 DEF Operate, Only, Go, PlanInv, Shape, Locals, Idle
  <2>2. QED
    BY <1>1, <1>6, <2>1 DEF Operate, AfterOperation, Go, Ended, Only
<1>7. CASE Detect(s)
  <2>1. PICK result \in {detected(s)} :
          /\ Go(s, "detect", afterDetection(s, result))
          /\ local' = IF result.failed THEN local
                      ELSE [local EXCEPT ![s].cacheKey = resolvedKey(s, result.hashes),
                                         ![s].dirs = resolvedDirs(s, result.dirs),
                                         ![s].used = local[s].found]
    BY <1>7 DEF Detect
  <2>2. scenario' = scenario /\ batch' = batch
    BY <1>7 DEF Detect
  <2>3. s \in Running /\ pc[s] = "detect" /\ pc' = [pc EXCEPT ![s] = afterDetection(s, result)]
    BY <2>1 DEF Go
  <2>4. afterDetection(s, result) # "waiting"
    BY DEF afterDetection
  <2>5. /\ DOMAIN local' = Step
        /\ \A t \in Step : DOMAIN local'[t] = Locals
        /\ \A t \in Step \ {s} : local'[t] = local[t]
    BY <2>1 DEF PlanInv, Shape
  <2>6. Only(s)
    BY <1>1, <2>2, <2>3, <2>5 DEF Only, Shape
  <2>7. QED
    BY <1>1, <2>2, <2>3, <2>4, <2>6 DEF Ended
<1>8. QED
  BY <1>2, <1>3, <1>4, <1>5, <1>6, <1>7 DEF StepAction

(* Every step keeps Turns. *)
LEMMA NextTurns == PlanInv /\ StageInv /\ Turns /\ [Next]_vars => Turns'
<1> SUFFICES ASSUME PlanInv, StageInv, Turns, [Next]_vars PROVE Turns'
  OBVIOUS
<1>1. scenario \in Scenarios /\ batch \in 1..Len(scenario.batches) + 1
  BY DEF StageInv, StageTypes
<1>2. DOMAIN scenario.batches = 1..Len(scenario.batches) /\ Len(scenario.batches) \in Nat
  BY <1>1, ScenarioParts
<1>3. CASE UNCHANGED vars
  BY <1>3 DEF vars, Turns, Turn, Active, Running, Cfg
<1>4. CASE NextBatch
  <2>1. /\ scenario' = scenario /\ pc' = pc /\ batch' = batch + 1
        /\ batch \in DOMAIN scenario.batches
        /\ \A s \in Running \cap Step : pc[s] \in Ended
    BY <1>4 DEF NextBatch
  <2> SUFFICES ASSUME NEW s \in Step PROVE Turn(s)'
    BY DEF Turns
  <2>2. Turn(s)
    BY DEF Turns
  <2>3. ~ Active(s)
    BY <2>1, <2>2 DEF Turn, Active
  <2>4. \A i \in DOMAIN scenario.batches :
          (i <= batch => i <= batch') /\ (i < batch' => i < batch \/ i = batch)
    BY <1>1, <1>2, <2>1
  <2>5. Running = scenario.batches[batch]
    BY <2>1 DEF Running
  <2>6. \A i \in DOMAIN scenario.batches : i < batch' /\ s \in scenario.batches[i]
        => pc[s] \in Ended
    BY <2>1, <2>2, <2>4, <2>5 DEF Turn
  <2>7. ~ Active(s)'
    BY <2>1, <2>3 DEF Active
  <2>8. pc[s] # "waiting"
        => \E i \in DOMAIN scenario.batches : i <= batch' /\ s \in scenario.batches[i]
    BY <2>2, <2>4 DEF Turn
  <2>9. QED
    BY <2>1, <2>6, <2>7, <2>8 DEF Turn
<1>5. ASSUME NEW s \in Step, Kill(s) \/ StepAction(s) PROVE Turns'
  <2>1. /\ s \in Running /\ pc[s] \notin Ended /\ scenario' = scenario /\ batch' = batch
        /\ \A t \in Step \ {s} : pc'[t] = pc[t]
        /\ pc[s] # "waiting" \/ pc'[s] \in Ended \/ ~ (Cfg(s).rebuild /\ Cfg(s).restore)
    BY <1>5, StepGoes
  <2>2. Running' = Running /\ \A t \in Step : Cfg(t)' = Cfg(t)
    BY <2>1 DEF Running, Cfg
  <2>3. ASSUME NEW t \in Step \ {s} PROVE Turn(t)'
    BY <2>1, <2>2 DEF Turns, Turn, Active
  <2>4. Turn(s)
    BY DEF Turns
  <2>5. \A i \in DOMAIN scenario.batches : ~ (i < batch /\ s \in scenario.batches[i])
    BY <2>1, <2>4 DEF Turn
  <2>6. batch \in DOMAIN scenario.batches /\ batch <= batch /\ s \in scenario.batches[batch]
    BY <1>1, <2>1 DEF Running
  <2>7. Active(s)' => ~ (Cfg(s).rebuild /\ Cfg(s).restore)
    BY <2>1, <2>4 DEF Turn, Active
  <2>8. Turn(s)'
    BY <2>1, <2>2, <2>5, <2>6, <2>7 DEF Turn
  <2>9. QED
    BY <2>3, <2>8 DEF Turns
<1>6. QED
  BY <1>3, <1>4, <1>5 DEF Next

(* What precedes the build has ended after it, and the rest has not begun before it. *)
LEMMA BuildDivides ==
  ASSUME StageInv, Turns
  PROVE  /\ isBuilt => \A s \in BeforeBuild : s \in Step /\ pc[s] \in Ended
         /\ \A s \in AfterBuild : (s \in Running \/ pc[s] # "waiting") => isBuilt
<1>1. scenario \in Scenarios /\ batch \in 1..Len(scenario.batches) + 1
  BY DEF StageInv, StageTypes
<1>2. DOMAIN scenario.batches = 1..Len(scenario.batches) /\ Len(scenario.batches) \in Nat
  BY <1>1, ScenarioParts
<1>3. ASSUME isBuilt, NEW s \in BeforeBuild PROVE s \in Step /\ pc[s] \in Ended
  <2>1. s \in Step
    BY DEF BeforeBuild
  <2>2. PICK i \in DOMAIN scenario.batches :
          s \in scenario.batches[i] /\ \A j \in 1..i-1 : scenario.batches[j] # {"build"}
    BY DEF BeforeBuild
  <2>3. PICK k \in DOMAIN scenario.batches : k < batch /\ scenario.batches[k] = {"build"}
    BY <1>3 DEF isBuilt
  <2>4. s # "build"
    BY <2>1, AutoPlanAssumption
  <2>5. ~ (k < i) /\ k # i
    BY <1>2, <2>2, <2>3, <2>4
  <2>6. i < batch
    BY <1>1, <1>2, <2>3, <2>5
  <2>7. QED
    BY <2>1, <2>2, <2>6 DEF Turns, Turn
<1>4. ASSUME NEW s \in AfterBuild, s \in Running \/ pc[s] # "waiting" PROVE isBuilt
  <2>1. s \in Step /\ s \notin BeforeBuild
    BY DEF AfterBuild
  <2>2. PICK i \in DOMAIN scenario.batches : i <= batch /\ s \in scenario.batches[i]
    <3>1. CASE s \in Running
      BY <1>1, <3>1 DEF Running
    <3>2. CASE pc[s] # "waiting"
      BY <2>1, <3>2 DEF Turns, Turn
    <3>3. QED
      BY <1>4, <3>1, <3>2
  <2>3. PICK j \in 1..i-1 : scenario.batches[j] = {"build"}
    BY <2>1, <2>2 DEF BeforeBuild
  <2>4. j \in DOMAIN scenario.batches /\ j < batch
    BY <1>1, <1>2, <2>2, <2>3
  <2>5. QED
    BY <2>3, <2>4 DEF isBuilt
<1>5. QED
  BY <1>3, <1>4

-----------------------------------------------------------------------------
(***************************************************************************)
(* Under onlyNpmLocks a detection sees the checkout, or what the build has *)
(* made of it: whatever the preparers have written before.                 *)
(***************************************************************************)
Base == IF isBuilt THEN Built(scenario.ws) ELSE scenario.ws

BaseInv == onlyNpmLocks => Alike(Base, ws, {})

(* Locks are all that is generated. *)
LEMMA LocksOnly ==
  ASSUME onlyNpmLocks
  PROVE  \A d \in Dir : \A file : <<d, file>> \in scenario.generated => file \in NpmLocks
BY DEF onlyNpmLocks, NpmLocks

(* Workspaces with the same files are alike. *)
LEMMA SameFilesAlike ==
  ASSUME NEW w, NEW v, \A d \in Dir : \A file : SameThere(w, v, d, file)
  PROVE  Alike(w, v, {})
BY DEF SameThere, Alike, AlikeAt, AlikeIn, findBundlePath, HasCustom

(* What a build generates is among the locks of npm and yarn. *)
LEMMA BuiltLocks ==
  ASSUME scenario \in Scenarios, onlyNpmLocks, NEW w, IsWorkspace(w)
  PROVE  Alike(w, Built(w), NpmLocks)
<1>1. \A d \in Dir : \A file : file \notin NpmLocks => SameThere(w, Built(w), d, file)
  BY BuiltWorkspace, LocksOnly
<1>2. ".bundle/config" \notin NpmLocks /\ "nuget.config" \notin NpmLocks
  BY DEF NpmLocks
<1>3. QED
  BY <1>1, <1>2 DEF SameThere, Alike, AlikeAt, AlikeIn, findBundlePath, HasCustom

(* A build makes alike workspaces of alike ones. *)
LEMMA BuiltAlike ==
  ASSUME scenario \in Scenarios, onlyNpmLocks, NEW w, IsWorkspace(w), NEW v, IsWorkspace(v),
         Alike(w, v, {})
  PROVE  Alike(Built(w), Built(v), {})
<1> DEFINE x == Built(w)
           y == Built(v)
<1>1. \A d \in Dir : \A file : file \notin NpmLocks
      => SameThere(w, x, d, file) /\ SameThere(v, y, d, file)
  BY BuiltWorkspace, LocksOnly
<1>2. \A d \in Dir : \A file :
        \/ SameThere(w, x, d, file) /\ SameThere(v, y, d, file)
        \/ /\ file \in NpmLocks /\ Exists(x, d, file) /\ Exists(y, d, file)
           /\ Read(x, d, file) = Read(y, d, file)
  BY BuiltWorkspace, LocksOnly
<1> HIDE DEF x, y
<1>3. ASSUME NEW d \in Dir, NEW file, file \notin Configuration PROVE AlikeAt(x, y, d, file)
  <2>1. AlikeAt(w, v, d, file)
    BY <1>3 DEF Alike
  <2>2. "uv.lock" \notin NpmLocks
    BY DEF NpmLocks
  <2>3. Exists(x, d, "uv.lock") <=> Exists(w, d, "uv.lock")
    BY <1>1, <2>2 DEF SameThere
  <2>4. QED
    BY <1>2, <2>1, <2>3 DEF SameThere, AlikeAt
<1>4. ASSUME NEW d \in Dir PROVE AlikeIn(x, y, d)
  <2>1. ".bundle/config" \notin NpmLocks /\ "nuget.config" \notin NpmLocks
    BY DEF NpmLocks
  <2>2. AlikeIn(w, v, d)
    BY DEF Alike
  <2>3. QED
    BY <1>1, <2>1, <2>2 DEF SameThere, AlikeIn, findBundlePath, HasCustom
<1>5. QED
  BY <1>3, <1>4 DEF Alike, x, y

(* A second build changes nothing. *)
LEMMA BuiltOnce ==
  ASSUME scenario \in Scenarios, NEW w, IsWorkspace(w)
  PROVE  Alike(Built(w), Built(Built(w)), {})
<1> DEFINE x == Built(w)
           y == Built(x)
<1>1. IsWorkspace(x)
  BY BuiltWorkspace
<1>2. \A d \in Dir : \A file :
        \/ <<d, file>> \notin scenario.generated
        \/ Exists(x, d, file) /\ Read(x, d, file) = <<"generated">>
  BY BuiltWorkspace
<1> HIDE DEF x
<1>3. \A d \in Dir : \A file :
        \/ SameThere(x, y, d, file)
        \/ /\ <<d, file>> \in scenario.generated
           /\ Exists(y, d, file) /\ Read(y, d, file) = <<"generated">>
  BY <1>1, BuiltWorkspace
<1> HIDE DEF y
<1>4. \A d \in Dir : \A file : SameThere(x, y, d, file)
  BY <1>2, <1>3 DEF SameThere
<1>5. Alike(x, y, {})
  BY <1>4, SameFilesAlike
<1>6. QED
  BY <1>5 DEF x, y

(* Nor does a build that generates nothing. *)
LEMMA BuiltNothing ==
  ASSUME scenario \in Scenarios, scenario.generated = {}, NEW w, IsWorkspace(w)
  PROVE  Alike(w, Built(w), {})
BY BuiltWorkspace, SameFilesAlike

(* Base is a workspace. *)
LEMMA BaseIsWorkspace ==
  ASSUME scenario \in Scenarios
  PROVE  IsWorkspace(scenario.ws) /\ IsWorkspace(Base)
<1>1. IsWorkspace(scenario.ws)
  BY AutoPlanAssumption
<1>2. IsWorkspace(Built(scenario.ws))
  BY <1>1, BuiltWorkspace
<1>3. QED
  BY <1>1, <1>2 DEF Base

(* Before the build, or if it generates nothing, Base is the checkout. *)
LEMMA BaseIsCheckout ==
  ASSUME scenario \in Scenarios, ~ isBuilt \/ scenario.generated = {}
  PROVE  Alike(scenario.ws, Base, {})
BY BaseIsWorkspace, BuiltNothing, AlikeSelf DEF Base

(* The first batch sees the checkout. *)
LEMMA InitBase == Init => BaseInv
<1> SUFFICES ASSUME Init PROVE BaseInv
  OBVIOUS
<1>1. batch = 1 /\ scenario \in Scenarios /\ ws = scenario.ws
  BY DEF Init
<1>2. DOMAIN scenario.batches = 1..Len(scenario.batches) /\ Len(scenario.batches) \in Nat
  BY <1>1, ScenarioParts
<1>3. ~ isBuilt
  BY <1>1, <1>2 DEF isBuilt
<1>4. QED
  BY <1>1, <1>3, AlikeSelf DEF BaseInv, Base

(* A detection keeps the workspace like Base, and the build changes both. *)
LEMMA NextBase == PlanInv /\ WorkspaceInv /\ BaseInv /\ [Next]_vars => BaseInv'
<1> SUFFICES ASSUME PlanInv, WorkspaceInv, BaseInv, [Next]_vars, onlyNpmLocks'
      PROVE Alike(Base, ws, {})'
  BY DEF BaseInv
<1>1. scenario \in Scenarios /\ StageInv /\ IsWorkspace(ws)
  BY DEF WorkspaceInv, StageInv, StageTypes
<1>2. DOMAIN scenario.batches = 1..Len(scenario.batches) /\ batch \in 1..Len(scenario.batches) + 1
      /\ Len(scenario.batches) \in Nat
  BY <1>1, ScenarioParts DEF StageInv, StageTypes
<1>3. IsWorkspace(scenario.ws) /\ IsWorkspace(Base)
  BY <1>1, BaseIsWorkspace
<1>4. scenario' = scenario
  BY DEF Next, vars, NextBatch, Kill, StepAction, RefuseBoth, WithoutAutoDetect, AutoDetectStart,
     ValidatePlanFile, OpenPlan, ReadPlan, DropUnreadablePlan, Detect, CreateTemp, Rename, Operate, ConsumePlan
<1>5. onlyNpmLocks /\ Alike(Base, ws, {})
  BY <1>4 DEF BaseInv, onlyNpmLocks, AfterBuild, BeforeBuild, Cfg
<1>6. CASE UNCHANGED <<batch, ws>>
  BY <1>4, <1>5, <1>6 DEF Base, isBuilt, Built
<1>7. CASE NextBatch
  <2>1. /\ batch' = batch + 1 /\ batch \in DOMAIN scenario.batches
        /\ ws' = IF scenario.batches[batch] = {"build"} THEN Built(ws) ELSE ws
    BY <1>7 DEF NextBatch, Running
  <2>2. isBuilt' <=> isBuilt \/ scenario.batches[batch] = {"build"}
    <3>1. \A i \in DOMAIN scenario.batches : i < batch' <=> i < batch \/ i = batch
      BY <1>2, <2>1
    <3>2. isBuilt' <=> \E i \in DOMAIN scenario.batches : i < batch'
          /\ scenario.batches[i] = {"build"}
      BY <1>4 DEF isBuilt
    <3>3. QED
      BY <2>1, <3>1, <3>2 DEF isBuilt
  <2>3. Built(scenario.ws)' = Built(scenario.ws)
    BY <1>4 DEF Built
  <2>4. CASE scenario.batches[batch] # {"build"}
    BY <1>4, <1>5, <2>1, <2>2, <2>3, <2>4 DEF Base
  <2>5. CASE scenario.batches[batch] = {"build"}
    <3>1. ws' = Built(ws) /\ Base' = Built(scenario.ws)
      BY <2>1, <2>2, <2>3, <2>5 DEF Base
    <3>2. Alike(Built(Base), Built(ws), {})
      BY <1>1, <1>3, <1>5, BuiltAlike
    <3>3. Alike(Built(scenario.ws), Built(Base), {})
      <4>1. Alike(Built(scenario.ws), Built(Built(scenario.ws)), {})
        BY <1>1, <1>3, BuiltOnce
      <4>2. QED
        BY <4>1, AlikeSelf DEF Base
    <3>4. Alike(Built(scenario.ws), Built(ws), {})
      <4>1. {} \in SUBSET NpmLocks
        OBVIOUS
      <4>2. QED
        BY <3>2, <3>3, <4>1, AlikeThrough
    <3>5. QED
      BY <3>1, <3>4
  <2>6. QED
    BY <2>4, <2>5
<1>8. ASSUME NEW s \in Step, Detect(s) PROVE Alike(Base, ws, {})'
  <2>1. ws' = detected(s).ws /\ batch' = batch
    BY <1>8, DetectDoes
  <2>2. Cfg(s).path \in BOOLEAN
    BY <1>1, SettledScenario
  <2>3. Alike(ws, detected(s).ws, {})
    <3>1. CASE Cfg(s).path
      BY <3>1, AlikeSelf DEF detected, detectDirectoriesToCache, Nothing
    <3>2. CASE Cfg(s).path = FALSE
      BY <1>1, <3>2, DetectionAlike DEF detected
    <3>3. QED
      BY <2>2, <3>1, <3>2
  <2>4. Alike(Base, ws', {})
    <3>1. {} \in SUBSET NpmLocks
      OBVIOUS
    <3>2. QED
      BY <1>5, <2>1, <2>3, <3>1, AlikeThrough
  <2>5. Base' = Base
    BY <1>4, <2>1 DEF Base, isBuilt, Built
  <2>6. QED
    BY <2>4, <2>5
<1>9. ASSUME NEW s \in Step, Kill(s) \/ StepAction(s), ~ Detect(s) PROVE UNCHANGED <<batch, ws>>
  <2>1. batch' = batch
    BY <1>1, <1>9, StepGoes
  <2>2. ws' = ws
    BY <1>9, OtherSteps
  <2>3. QED
    BY <2>1, <2>2
<1>10. QED
  BY <1>6, <1>7, <1>8, <1>9 DEF Next, StepAction, vars

-----------------------------------------------------------------------------
(* What the steps other than the detection do to the plan and to what a step goes by. *)
Undetected == BeforeReading \cup {"detect"}

(* The key and the directories of a step stay. *)
SameRequest(s) == local'[s].cacheKey = local[s].cacheKey /\ local'[s].dirs = local[s].dirs

(* The plan stays, is removed, or is replaced by the step's. *)
PlanEffect(s) ==
  \/ plan' = plan
  \/ plan' = NoPlan /\ pc[s] \in {"unreadable", "consume"}
  \/ plan' = PlanOf(s) /\ pc[s] = "rename"

(* What the step then is and goes by. *)
StepEffect(s) ==
  /\ pc'[s] # "write" /\ (pc'[s] = "rename" => pc[s] = "write")
  /\ pc'[s] = "compare" => plan # NoPlan /\ local'[s].fallbackPlan = plan /\ plan' = plan
  /\ local'[s].found = local[s].found \/ local'[s].found \in BOOLEAN
  /\ local'[s].found =>
       local'[s].fallbackPlan = local[s].fallbackPlan /\ (pc[s] = "compare" \/ local[s].found)
  /\ local'[s].used = local[s].used
  /\ local[s].used => local'[s].found = local[s].found
  /\ pc[s] \in PastDetection => pc'[s] \in PastDetection /\ SameRequest(s)
  /\ pc'[s] \in Undetected => pc[s] \in Undetected /\ SameRequest(s)
  /\ local[s].used => SameRequest(s)
  /\ Automatic(s) /\ Cfg(s).rebuild /\ pc'[s] \in {"operate", "consume", "ok"} =>
       pc[s] \in {"operate", "consume"} /\ SameRequest(s) /\ local'[s].found = local[s].found

(* Every step but the detection does no more. *)
LEMMA Effects ==
  ASSUME PlanInv, OriginInv, Turns, NEW s \in Step, Kill(s) \/ StepAction(s), ~ Detect(s)
  PROVE  PlanEffect(s) /\ StepEffect(s)
<1>1. DOMAIN pc = Step /\ DOMAIN local = Step /\ DOMAIN local[s] = Locals
  BY DEF PlanInv, Shape
<1>2. Origin(s) /\ Turn(s)
  BY DEF OriginInv, Turns
<1>3. pc[s] \in BeforeReading => local[s].found = FALSE /\ local[s].used = FALSE
  BY <1>2 DEF Origin
<1>4. CASE Kill(s) \/ RefuseBoth(s) \/ AutoDetectStart(s) \/ ValidatePlanFile(s)
  <2>1. plan' = plan /\ local' = local
    BY <1>4 DEF Kill, RefuseBoth, AutoDetectStart, ValidatePlanFile
  <2>2. \/ pc'[s] = "killed"
        \/ pc[s] = "waiting" /\ pc'[s] \in {"error", "detect", "unreadable", "validate"}
        \/ pc[s] = "validate" /\ pc'[s] \in {"detect", "open", "unreadable"}
    BY <1>1, <1>4 DEF Kill, RefuseBoth, AutoDetectStart, ValidatePlanFile, Go
  <2>3. PlanEffect(s)
    BY <2>1 DEF PlanEffect
  <2>4. StepEffect(s)
    BY <2>1, <2>2, Phases DEF StepEffect, Undetected, SameRequest
  <2>5. QED
    BY <2>3, <2>4
<1>5. CASE OpenPlan(s) \/ ReadPlan(s) \/ DropUnreadablePlan(s)
  <2>1. /\ pc[s] \in {"open", "compare", "unreadable"}
        /\ local'[s].used = local[s].used /\ SameRequest(s)
        /\ pc'[s] \in {"compare", "unreadable", "detect"}
        /\ pc'[s] = "compare" => pc[s] = "open" /\ plan # NoPlan /\ local'[s].fallbackPlan = plan
    BY <1>1, <1>5 DEF OpenPlan, ReadPlan, DropUnreadablePlan, Go, Locals, Idle, SameRequest
  <2>2. PlanEffect(s) /\ (pc[s] = "open" => plan' = plan)
    BY <1>5 DEF OpenPlan, ReadPlan, DropUnreadablePlan, PlanEffect, Go
  <2>3. \/ pc[s] = "compare" /\ local'[s].fallbackPlan = local[s].fallbackPlan
           /\ local'[s].found \in BOOLEAN
        \/ local'[s].found = local[s].found /\ pc[s] \in {"open", "unreadable"}
    BY <1>1, <1>5 DEF OpenPlan, ReadPlan, DropUnreadablePlan, Go, Locals, Idle
  <2>4. pc[s] \in BeforeReading
    BY <2>1, Phases
  <2>5. StepEffect(s)
    BY <1>3, <2>1, <2>2, <2>3, <2>4, Phases DEF StepEffect, Undetected
  <2>6. QED
    BY <2>2, <2>5
<1>6. CASE WithoutAutoDetect(s)
  <2>1. /\ pc[s] = "waiting" /\ pc'[s] \in {"error", "operate"} /\ ~ Cfg(s).auto /\ plan' = plan
        /\ local'[s].used = local[s].used /\ local'[s].found = local[s].found
    BY <1>1, <1>6 DEF WithoutAutoDetect, Go, Locals, Idle
  <2>2. PlanEffect(s)
    BY <2>1 DEF PlanEffect
  <2>3. pc[s] \in BeforeReading
    BY <2>1, Phases
  <2>4. StepEffect(s)
    BY <1>3, <2>1, <2>3, Phases DEF StepEffect, Undetected, Automatic
  <2>5. QED
    BY <2>2, <2>4
<1>7. CASE CreateTemp(s) \/ Rename(s)
  <2>1. /\ pc[s] \in {"write", "rename"} /\ local' = local /\ pc'[s] \in {"rename", "operate"}
        /\ pc'[s] = "rename" => pc[s] = "write"
    BY <1>1, <1>7 DEF CreateTemp, Rename, Go, NotWritten
  <2>2. PlanEffect(s)
    BY <1>7 DEF CreateTemp, Rename, Go, PlanEffect
  <2>3. Cfg(s).restore /\ s \in Running /\ ~ Cfg(s).rebuild
    <3>1. Active(s)
      BY <2>1 DEF Active, Ended
    <3>2. QED
      BY <1>2, <2>1, <3>1 DEF Origin, Restored, Turn
  <2>4. StepEffect(s)
    BY <2>1, <2>3, Phases DEF StepEffect, Undetected, SameRequest
  <2>5. QED
    BY <2>2, <2>4
<1>8. CASE Operate(s) \/ ConsumePlan(s)
  <2>1. /\ pc[s] \in {"operate", "consume"} /\ pc'[s] \in {"ok", "error", "consume"}
        /\ local'[s].used = local[s].used /\ local'[s].found = local[s].found /\ SameRequest(s)
        /\ local'[s].fallbackPlan = local[s].fallbackPlan
    BY <1>1, <1>8 DEF Operate, ConsumePlan, AfterOperation, Go, Locals, Idle, SameRequest
  <2>2. PlanEffect(s)
    BY <1>8 DEF Operate, ConsumePlan, Go, PlanEffect
  <2>3. StepEffect(s)
    BY <2>1, Phases DEF StepEffect, Undetected
  <2>4. QED
    BY <2>2, <2>3
<1>9. QED
  BY <1>4, <1>5, <1>6, <1>7, <1>8 DEF StepAction

-----------------------------------------------------------------------------
(* Only a step that leaves all to the detection finds a plan, and no step has a key before. *)
Local(s) ==
  /\ local[s].found \in BOOLEAN /\ local[s].used \in BOOLEAN
  /\ local[s].found \/ local[s].used => Automatic(s)
  /\ pc[s] \in Undetected => local[s].cacheKey = <<>>

LocalInv == \A s \in Step : Local(s)

(* No step has found anything at the start. *)
LEMMA InitLocal == Init => LocalInv
<1> SUFFICES ASSUME Init, NEW s \in Step PROVE Local(s)
  BY DEF LocalInv
<1>1. local[s] = Idle
  BY DEF Init
<1>2. Idle.found = FALSE /\ Idle.used = FALSE /\ Idle.cacheKey = <<>>
  BY DEF Idle
<1>3. QED
  BY <1>1, <1>2 DEF Local

(* Every step keeps LocalInv. *)
LEMMA NextLocal == PlanInv /\ StageInv /\ OriginInv /\ Turns /\ LocalInv /\ [Next]_vars => LocalInv'
<1> SUFFICES ASSUME PlanInv, StageInv, OriginInv, Turns, LocalInv, [Next]_vars PROVE LocalInv'
  OBVIOUS
<1>1. CASE NextBatch \/ UNCHANGED vars
  <2>1. UNCHANGED <<scenario, pc, local>>
    BY <1>1 DEF NextBatch, vars
  <2>2. QED
    BY <2>1 DEF LocalInv, Local, Automatic, Overridden, Cfg
<1>2. ASSUME NEW s \in Step, Kill(s) \/ StepAction(s) PROVE LocalInv'
  <2>1. /\ scenario' = scenario /\ Only(s)
        /\ \A t \in Step : Automatic(t)' <=> Automatic(t)
    <3>1. scenario' = scenario /\ Only(s)
      BY <1>2, StepGoes
    <3>2. QED
      BY <3>1 DEF Automatic, Overridden, Cfg
  <2>2. \A t \in Step \ {s} : Local(t)'
    BY <2>1 DEF LocalInv, Local, Only
  <2>3. Local(s) /\ Origin(s)
    BY DEF LocalInv, OriginInv
  <2>4. CASE ~ Detect(s)
    <3>1. StepEffect(s)
      BY <1>2, <2>4, Effects
    <3>2. pc[s] = "compare" => Automatic(s)
      BY <2>3, Phases DEF Origin, Automatic
    <3>3. local'[s].found \in BOOLEAN /\ local'[s].used \in BOOLEAN
      BY <2>3, <3>1 DEF StepEffect, Local
    <3>4. local'[s].found \/ local'[s].used => Automatic(s)
      BY <2>3, <3>1, <3>2 DEF StepEffect, Local
    <3>5. pc'[s] \in Undetected => local'[s].cacheKey = <<>>
      BY <2>3, <3>1 DEF StepEffect, Local, SameRequest
    <3>6. Local(s)'
      BY <2>1, <3>3, <3>4, <3>5 DEF Local
    <3>7. QED
      BY <2>2, <3>6 DEF LocalInv
  <2>5. CASE Detect(s)
    <3> DEFINE result == detected(s)
    <3>1. /\ pc'[s] = afterDetection(s, result)
          /\ result.failed => local' = local
          /\ ~ result.failed => local'[s].used = local[s].found
          /\ local'[s].found = local[s].found
      BY <2>5, DetectDoes
    <3>2. pc'[s] \notin Undetected
      BY <3>1, Phases DEF afterDetection, Undetected
    <3>3. Local(s)'
      <4> HIDE DEF result
      <4>1. QED
        BY <2>1, <2>3, <3>1, <3>2 DEF Local
    <3>4. QED
      BY <2>2, <3>3 DEF LocalInv
  <2>6. QED
    BY <2>4, <2>5
<1>3. QED
  BY <1>1, <1>2 DEF Next

-----------------------------------------------------------------------------
(***************************************************************************)
(* What a save has read and not removed is the plan as long as there is    *)
(* one, if saves do not run beside restores, which alone write another.    *)
(***************************************************************************)
Uses(s) == local[s].used => local[s].found

(* A save is between the reading of the plan and its end. *)
Holding(s) == Active(s) /\ (pc[s] = "compare" \/ local[s].found)

HeldPlan(s) == Holding(s) => plan \in {NoPlan, local[s].fallbackPlan}

UsedInv == \A s \in Step : Uses(s) /\ (apart => HeldPlan(s))

(* No step has read anything at the start. *)
LEMMA InitUsed == Init => UsedInv
<1> SUFFICES ASSUME Init, NEW s \in Step PROVE Uses(s) /\ HeldPlan(s)
  BY DEF UsedInv
<1>1. plan = NoPlan /\ local[s] = Idle
  BY DEF Init
<1>2. QED
  BY <1>1 DEF Uses, HeldPlan, Idle

(* A save that holds a plan and a restore that writes one are not apart. *)
LEMMA NoRestoreBeside ==
  ASSUME PlanInv, OriginInv, Turns, apart,
         NEW s \in Step, Holding(s), NEW r \in Step, pc[r] = "rename"
  PROVE  FALSE
<1>1. Cfg(s).rebuild
  BY DEF Holding, PlanInv, PlanUse
<1>2. Cfg(r).restore
  BY DEF OriginInv, Origin, Restored
<1>3. s \in Running /\ r \in Running
  BY DEF Turns, Turn, Holding, Active, Ended
<1>4. QED
  BY <1>1, <1>2, <1>3 DEF Running, apart

(* Every step keeps UsedInv. *)
LEMMA NextUsed ==
  PlanInv /\ StageInv /\ OriginInv /\ Turns /\ UsedInv /\ [Next]_vars => UsedInv'
<1> SUFFICES ASSUME PlanInv, StageInv, OriginInv, Turns, UsedInv, [Next]_vars PROVE UsedInv'
  OBVIOUS
<1>1. CASE NextBatch \/ UNCHANGED vars
  <2>1. UNCHANGED <<scenario, plan, pc, local>>
    BY <1>1 DEF NextBatch, vars
  <2>2. QED
    BY <2>1 DEF UsedInv, Uses, HeldPlan, Holding, Active, apart, Cfg
<1>2. ASSUME NEW s \in Step, Kill(s) \/ StepAction(s) PROVE UsedInv'
  <2>1. Only(s) /\ (pc[s] # "waiting" \/ ~ local[s].found)
    <3>1. Only(s) /\ Origin(s)
      BY <1>2, StepGoes DEF OriginInv
    <3>2. QED
      BY <3>1, Phases DEF Origin
  <2>2. Only(s) /\ pc[s] \notin Ended /\ (local[s].found => Active(s))
    <3>1. pc[s] \notin Ended
      BY <1>2, StepGoes
    <3>2. QED
      BY <2>1, <3>1 DEF Active
  <2>3. apart' <=> apart
    BY <2>2 DEF Only, apart, Cfg
  <2>4. Uses(s) /\ Origin(s)
    BY DEF UsedInv, OriginInv
  <2>5. ASSUME apart, NEW t \in Step, Holding(t), plan' # plan PROVE plan' = NoPlan
    <3>1. ~ Detect(s)
      BY <2>5 DEF Detect
    <3>2. PlanEffect(s)
      BY <1>2, <3>1, Effects
    <3>3. QED
      BY <2>5, <3>2, NoRestoreBeside DEF PlanEffect
  <2>6. ASSUME NEW t \in Step \ {s} PROVE Uses(t)' /\ (apart => HeldPlan(t)')
    <3>1. pc'[t] = pc[t] /\ local'[t] = local[t] /\ Uses(t) /\ (apart => HeldPlan(t))
      BY <2>2 DEF Only, UsedInv
    <3>2. QED
      BY <2>5, <3>1 DEF Uses, HeldPlan, Holding, Active
  <2>7. Uses(s)' /\ (apart => HeldPlan(s)')
    <3>1. CASE Detect(s)
      <4> DEFINE result == detected(s)
      <4>1. /\ plan' = plan /\ pc[s] = "detect" /\ pc'[s] = afterDetection(s, result)
            /\ result.failed => local' = local
            /\ ~ result.failed => local'[s].used = local[s].found
            /\ local'[s].found = local[s].found /\ local'[s].fallbackPlan = local[s].fallbackPlan
        BY <3>1, DetectDoes
      <4>2. pc'[s] # "compare"
        BY <4>1 DEF afterDetection
      <4>3. Uses(s)'
        <5> HIDE DEF result
        <5>1. QED
          BY <2>4, <4>1 DEF Uses
      <4>4. HeldPlan(s) => HeldPlan(s)'
        BY <2>2, <4>1, <4>2 DEF HeldPlan, Holding
      <4>5. QED
        BY <4>3, <4>4 DEF UsedInv
    <3>2. CASE ~ Detect(s)
      <4>1. StepEffect(s)
        BY <1>2, <3>2, Effects
      <4>2. Uses(s)'
        BY <2>4, <4>1 DEF Uses, StepEffect
      <4>3. ASSUME apart, pc'[s] = "compare" PROVE plan' = local'[s].fallbackPlan
        BY <4>1, <4>3 DEF StepEffect
      <4>4. ASSUME apart, local'[s].found PROVE plan' \in {NoPlan, local'[s].fallbackPlan}
        <5>1. /\ local'[s].fallbackPlan = local[s].fallbackPlan
              /\ pc[s] = "compare" \/ local[s].found
          BY <4>1, <4>4 DEF StepEffect
        <5>2. Holding(s)
          BY <2>2, <5>1 DEF Holding, Active, Ended
        <5>3. plan \in {NoPlan, local[s].fallbackPlan}
          BY <4>4, <5>2 DEF UsedInv, HeldPlan
        <5>4. QED
          BY <2>5, <4>4, <5>1, <5>2, <5>3
      <4>5. QED
        BY <4>2, <4>3, <4>4 DEF HeldPlan, Holding
    <3>3. QED
      BY <3>1, <3>2
  <2>8. QED
    BY <2>3, <2>6, <2>7 DEF UsedInv
<1>3. QED
  BY <1>1, <1>2 DEF Next

(***************************************************************************)
(* A plan disappears only when a save that used it has succeeded, or when  *)
(* a save could not read it: whatever is killed or fails, a save that      *)
(* failed finds the plan again when it is repeated.  Where saves do not    *)
(* run beside restores the plan that goes is the very one the save used.   *)
(***************************************************************************)
THEOREM SpecPlanOutlivesFailure == Spec => PlanOutlivesFailure
<1> DEFINE Removes(s) ==
             \/ pc[s] = "unreadable" /\ pc'[s] = "detect"
             \/ /\ pc[s] = "consume" /\ pc'[s] = "ok"
                /\ local[s].operated /\ local[s].used
                /\ apart => local[s].fallbackPlan = plan
           Outlives == plan # NoPlan /\ plan' = NoPlan => \E s \in Step : Removes(s)
<1>1. PlanInv /\ UsedInv /\ [Next]_vars => [Outlives]_vars
  <2> SUFFICES ASSUME PlanInv, UsedInv, Next, plan # NoPlan, plan' = NoPlan
               PROVE  \E s \in Step : Removes(s)
    OBVIOUS
  <2>1. PICK s \in Step : DropUnreadablePlan(s) \/ Rename(s) \/ ConsumePlan(s)
    BY DEF Next, NextBatch, Kill, StepAction, RefuseBoth, WithoutAutoDetect, AutoDetectStart,
           ValidatePlanFile, OpenPlan, ReadPlan, Detect, CreateTemp, Operate
  <2>2. CASE DropUnreadablePlan(s)
    BY <2>2 DEF DropUnreadablePlan, Go, PlanInv, Shape
  <2>3. CASE Rename(s)
    <3>1. PlanOf(s).writer = s /\ NoPlan.writer = "nobody"
      BY DEF PlanOf, NoPlan
    <3>2. QED
      BY <2>3, <3>1, AutoPlanAssumption DEF Rename
  <2>4. CASE ConsumePlan(s)
    <3>1. pc[s] = "consume" /\ pc'[s] = "ok" /\ local[s].operated /\ local[s].used
      BY <2>4 DEF ConsumePlan, Go, PlanInv, Shape, PlanUse
    <3>2. Holding(s)
      BY <3>1 DEF Holding, Active, Ended, UsedInv, Uses
    <3>3. apart => local[s].fallbackPlan = plan
      BY <3>2 DEF UsedInv, HeldPlan
    <3>4. QED
      BY <3>1, <3>3
  <2>5. QED
    BY <2>1, <2>2, <2>3, <2>4
<1>2. Init => PlanInv /\ StageInv /\ OriginInv /\ Turns /\ UsedInv
  BY InitPlan, InitStage, InitOrigin, InitTurns, InitUsed
<1>3. PlanInv /\ StageInv /\ OriginInv /\ Turns /\ UsedInv /\ [Next]_vars
      => (PlanInv /\ StageInv /\ OriginInv /\ Turns /\ UsedInv)'
  BY NextPlan, NextStage, NextOrigin, NextTurns, NextUsed
<1>4. QED
  BY <1>1, <1>2, <1>3, PTL DEF Spec, PlanOutlivesFailure

-----------------------------------------------------------------------------
(* What a restore detects in the checkout, before anything is built. *)
Start == detectDirectoriesToCache(scenario.ws, scenario.env, FALSE, FALSE)

(* A key and directories are those. *)
AsAtStart(key, dirs) == key = Start.hashes /\ dirs = Start.dirs

(* A detection in a state with the invariants, under onlyNpmLocks. *)
Detecting(s) ==
  PlanInv /\ WorkspaceInv /\ BaseInv /\ OriginInv /\ Turns /\ LocalInv /\ onlyNpmLocks /\ Detect(s)

(* It finds what it would find in Base. *)
LEMMA DetectionOfBase ==
  ASSUME WorkspaceInv, BaseInv, onlyNpmLocks, NEW force
  PROVE  Same(detectDirectoriesToCache(Base, scenario.env, FALSE, force),
              detectDirectoriesToCache(ws, scenario.env, FALSE, force))
<1>1. scenario \in Scenarios /\ IsWorkspace(ws) /\ Alike(Base, ws, {})
  BY DEF WorkspaceInv, StageInv, StageTypes, BaseInv
<1>2. IsWorkspace(Base)
  BY <1>1, BaseIsWorkspace
<1>3. QED
  BY <1>1, <1>2, SameDetection

(* Before the build it finds what the checkout says. *)
LEMMA DetectionOfCheckout ==
  ASSUME WorkspaceInv, BaseInv, onlyNpmLocks, ~ isBuilt \/ scenario.generated = {}
  PROVE  /\ Same(Start, detectDirectoriesToCache(ws, scenario.env, FALSE, FALSE))
         /\ Alike(scenario.ws, ws, {})
<1>1. scenario \in Scenarios /\ IsWorkspace(ws) /\ Alike(Base, ws, {})
  BY DEF WorkspaceInv, StageInv, StageTypes, BaseInv
<1>2. IsWorkspace(scenario.ws) /\ Alike(scenario.ws, Base, {}) /\ {} \in SUBSET NpmLocks
  BY <1>1, BaseIsWorkspace, BaseIsCheckout
<1>3. Alike(scenario.ws, ws, {})
  BY <1>1, <1>2, AlikeThrough
<1>4. Same(Start, detectDirectoriesToCache(ws, scenario.env, FALSE, FALSE))
  BY <1>1, <1>2, <1>3, SameDetection DEF Start
<1>5. QED
  BY <1>3, <1>4

(* A key that was detected. *)
LEMMA DetectedKey ==
  ASSUME NEW s \in Step, Automatic(s), local[s].found = FALSE, NEW w, IsWorkspace(w),
         NEW result, result = detectDirectoriesToCache(w, scenario.env, FALSE, FALSE),
         result.tools # {}
  PROVE  resolvedKey(s, result.hashes) = result.hashes /\ resolvedDirs(s, result.dirs) = result.dirs
<1>1. result.hashes # <<>>
  BY FoundIsSummed
<1>2. Cfg(s).key = "" /\ ~ Cfg(s).path
  BY DEF Automatic, Overridden
<1>3. QED
  BY <1>1, <1>2 DEF resolvedKey, resolvedDirs

(* What is known of the step that detects. *)
LEMMA DetectingFacts ==
  ASSUME NEW s \in Step, Detecting(s)
  PROVE  /\ s \in Running /\ ~ (Cfg(s).rebuild /\ Cfg(s).restore) /\ Cfg(s).auto
         /\ local[s].found \in BOOLEAN /\ (local[s].found => Cfg(s).rebuild /\ Automatic(s))
         /\ s \in BeforeBuild => ~ isBuilt
         /\ s \in AfterBuild => isBuilt
         /\ IsWorkspace(ws) /\ scenario \in Scenarios
         /\ ~ Overridden(s) =>
              detected(s) = detectDirectoriesToCache(ws, scenario.env, FALSE, local[s].found)
<1>1. pc[s] = "detect" /\ Turn(s) /\ Origin(s) /\ Local(s) /\ PlanUse(s)
  BY DEF Detecting, Detect, Turns, OriginInv, LocalInv, PlanInv
<1>2. Active(s) /\ pc[s] \notin Ended
  BY <1>1 DEF Active, Ended
<1>3. scenario \in Scenarios /\ IsWorkspace(ws) /\ StageInv /\ Turns
  BY DEF Detecting, WorkspaceInv, StageInv, StageTypes
<1>4. s \in Running
  BY <1>1, <1>2 DEF Turn
<1>5. (s \in BeforeBuild => ~ isBuilt) /\ (s \in AfterBuild => isBuilt)
  BY <1>2, <1>3, <1>4, BuildDivides
<1>6. ~ Overridden(s)
      => detected(s) = detectDirectoriesToCache(ws, scenario.env, FALSE, local[s].found)
  <2>1. Cfg(s).path \in BOOLEAN
    BY <1>3, SettledScenario
  <2>2. ~ Overridden(s) => Cfg(s).path = FALSE
    BY <2>1 DEF Overridden
  <2>3. QED
    BY <2>2 DEF detected
<1>7. QED
  BY <1>1, <1>2, <1>3, <1>4, <1>5, <1>6 DEF Turn, Origin, Local, PlanUse

(* A restore that records a plan records what the checkout says. *)
LEMMA RestoreDetects ==
  ASSUME NEW s \in Step, Detecting(s), pc'[s] = "write"
  PROVE  /\ AsAtStart(local'[s].cacheKey, local'[s].dirs)
         /\ NpmPackageJSONFallbackDetected(scenario.ws)
<1> DEFINE result == detected(s)
<1>1. /\ pc'[s] = afterDetection(s, result)
      /\ ~ result.failed =>
           /\ local'[s].cacheKey = resolvedKey(s, result.hashes)
           /\ local'[s].dirs = resolvedDirs(s, result.dirs)
  BY DetectDoes DEF Detecting
<1> HIDE DEF result
<1>2. ~ result.failed /\ recordsPlan(s, result)
  BY <1>1 DEF afterDetection
<1>3. /\ Cfg(s).restore /\ ~ Overridden(s) /\ result.tools # {}
      /\ NpmPackageJSONFallbackDetected(result.ws)
  BY <1>2 DEF recordsPlan
<1>4. Automatic(s) /\ local[s].found = FALSE
  BY <1>3, DetectingFacts DEF Automatic
<1>5. IsWorkspace(ws) /\ result = detectDirectoriesToCache(ws, scenario.env, FALSE, FALSE)
  BY <1>3, <1>4, DetectingFacts DEF result
<1>6. local'[s].cacheKey = result.hashes /\ local'[s].dirs = result.dirs
  BY <1>1, <1>2, <1>3, <1>4, <1>5, DetectedKey
<1>7. NpmPackageJSONFallbackDetected(Base)
  <2>1. Alike(ws, result.ws, {})
    BY <1>5, DetectionAlike
  <2>2. Alike(Base, ws, {}) /\ {} \in SUBSET NpmLocks
    BY DEF Detecting, BaseInv
  <2>3. Alike(Base, result.ws, {})
    BY <2>1, <2>2, AlikeThrough
  <2>4. QED
    BY <1>3, <2>3, FallbackAlike
<1>8. ~ isBuilt \/ scenario.generated = {}
  <2> SUFFICES ASSUME isBuilt, scenario.generated # {} PROVE FALSE
    OBVIOUS
  <2>1. s \notin BeforeBuild
    BY DetectingFacts
  <2>2. s \in AfterBuild
    BY <2>1 DEF AfterBuild
  <2>3. \A f \in scenario.generated : f[2] = "package-lock.json"
    BY <1>3, <2>2 DEF Detecting, onlyNpmLocks
  <2>4. scenario \in Scenarios /\ scenario.generated \subseteq Dir \X File
        /\ IsWorkspace(scenario.ws)
    BY DetectingFacts, AutoPlanAssumption
  <2>5. PICK f \in scenario.generated : TRUE
    OBVIOUS
  <2>6. f[1] \in Dir /\ f = <<f[1], "package-lock.json">>
    BY <2>3, <2>4, <2>5
  <2>7. Base = Built(scenario.ws)
    BY DEF Base
  <2>8. Exists(Base, f[1], "package-lock.json")
    BY <2>4, <2>5, <2>6, <2>7, BuiltWorkspace
  <2>9. matches(Base, "package-lock.json") # {}
    BY <2>6, <2>8 DEF matches
  <2>10. QED
    BY <1>7, <2>9 DEF NpmPackageJSONFallbackDetected
<1>9. Same(Start, result) /\ Alike(scenario.ws, ws, {})
  BY <1>5, <1>8, DetectionOfCheckout DEF Detecting
<1>10. NpmPackageJSONFallbackDetected(scenario.ws)
  <2>1. Alike(scenario.ws, Base, {})
    BY <1>8, DetectingFacts, BaseIsCheckout
  <2>2. QED
    BY <1>7, <2>1, FallbackAlike
<1>11. QED
  BY <1>6, <1>9, <1>10 DEF AsAtStart, Same

(* A save with that plan finds all of it again. *)
LEMMA BuiltFromCheckout ==
  ASSUME scenario \in Scenarios, onlyNpmLocks, oneYarnLock,
         NpmPackageJSONFallbackDetected(scenario.ws)
  PROVE  BuiltFrom(scenario.ws, Base)
<1> DEFINE w == scenario.ws
<1>1. IsWorkspace(w) /\ IsWorkspace(Base)
  BY BaseIsWorkspace
<1>2. \A d \in Dir : /\ Exists(w, d, "yarn.lock") => Exists(Base, d, "yarn.lock")
                     /\ Exists(Base, d, "yarn.lock")
                          => <<d, "yarn.lock">> \in DOMAIN w \cup scenario.generated
  BY <1>1, BuiltWorkspace DEF Base, Exists, SameThere
<1>3. Alike(w, Base, NpmLocks)
  BY <1>1, BuiltLocks, AlikeSelf DEF Base
<1>4. ASSUME NEW d \in Dir, NEW e \in Dir, Exists(Base, d, "yarn.lock"),
             Exists(Base, e, "yarn.lock")
      PROVE  d = e
  <2>1. <<d, "yarn.lock">> \in DOMAIN w \cup scenario.generated
        /\ <<e, "yarn.lock">> \in DOMAIN w \cup scenario.generated
    BY <1>2, <1>4
  <2>2. <<d, "yarn.lock">> = <<e, "yarn.lock">>
    BY <2>1 DEF oneYarnLock
  <2>3. QED
    BY <2>2
<1>5. QED
  BY <1>1, <1>2, <1>3, <1>4 DEF BuiltFrom

(* A save with a plan has the key of the checkout, and its directories. *)
LEMMA PlannedDetects ==
  ASSUME NEW s \in Step, Detecting(s), local[s].found, ~ detected(s).failed,
         AsAtStart(local[s].fallbackPlan.key, local[s].fallbackPlan.dirs),
         NpmPackageJSONFallbackDetected(scenario.ws)
  PROVE  /\ local'[s].cacheKey = Start.hashes
         /\ oneYarnLock => local'[s].dirs = Start.dirs
<1> DEFINE result == detected(s)
<1>1. local'[s].cacheKey = resolvedKey(s, result.hashes)
      /\ local'[s].dirs = resolvedDirs(s, result.dirs)
  BY DetectDoes DEF Detecting
<1>2. local[s].found = TRUE /\ Automatic(s) /\ ~ Overridden(s)
  BY DetectingFacts DEF Automatic
<1>3. result = detectDirectoriesToCache(ws, scenario.env, FALSE, TRUE)
  BY <1>2, DetectingFacts
<1> HIDE DEF result
<1>4. Cfg(s).key = "" /\ ~ Cfg(s).path
  BY <1>2 DEF Overridden
<1>5. local'[s].cacheKey = Start.hashes /\ local'[s].dirs = result.dirs \cap Start.dirs
  BY <1>1, <1>2, <1>4 DEF resolvedKey, resolvedDirs, FilterPathsForPlan, AsAtStart
<1>6. ASSUME oneYarnLock PROVE Start.dirs \subseteq result.dirs
  <2>1. BuiltFrom(scenario.ws, Base)
    BY <1>6, DetectingFacts, BuiltFromCheckout DEF Detecting
  <2> DEFINE forced == detectDirectoriesToCache(Base, scenario.env, FALSE, TRUE)
  <2>2. Start.dirs \subseteq forced.dirs
    BY <2>1, ForcedFindsAll DEF Start
  <2>3. Same(forced, result)
    BY <1>3, DetectionOfBase DEF Detecting
  <2>4. QED
    BY <2>2, <2>3 DEF Same
<1>7. QED
  BY <1>5, <1>6

(* A save without one has the key of the checkout, unless it comes after a build that matters. *)
LEMMA SaveDetects ==
  ASSUME NEW s \in Step, Detecting(s), Automatic(s), local[s].found = FALSE,
         pc'[s] = "operate", ~ (s \in AfterBuild /\ scenario.generated # {})
  PROVE  local'[s].cacheKey = Start.hashes
<1> DEFINE result == detected(s)
<1>1. /\ pc'[s] = afterDetection(s, result)
      /\ ~ result.failed => local'[s].cacheKey = resolvedKey(s, result.hashes)
  BY DetectDoes DEF Detecting
<1>2. ~ Overridden(s)
  BY DEF Automatic
<1>3. IsWorkspace(ws) /\ result = detectDirectoriesToCache(ws, scenario.env, FALSE, FALSE)
  BY <1>2, DetectingFacts
<1> HIDE DEF result
<1>4. ~ result.failed /\ result.tools # {}
  BY <1>1, <1>2 DEF afterDetection
<1>5. local'[s].cacheKey = result.hashes
  BY <1>1, <1>3, <1>4, DetectedKey
<1>6. ~ isBuilt \/ scenario.generated = {}
  BY DetectingFacts DEF AfterBuild
<1>7. Same(Start, result)
  BY <1>3, <1>6, DetectionOfCheckout DEF Detecting
<1>8. QED
  BY <1>5, <1>7 DEF Same

-----------------------------------------------------------------------------
(***************************************************************************)
(* Under onlyNpmLocks every plan is what the checkout said: the file, what *)
(* a save has opened or found, and what a restore is about to write.       *)
(***************************************************************************)
Recorded ==
  \E r \in Step : /\ pc[r] \in PastDetection /\ Restored(r)
                  /\ AsAtStart(local[r].cacheKey, local[r].dirs)

(* A plan says what the checkout says, and a restore has recorded it. *)
FromStart(key, dirs) ==
  AsAtStart(key, dirs) /\ NpmPackageJSONFallbackDetected(scenario.ws) /\ Recorded

(* What a save with a plan goes by. *)
AsPlanned(s) ==
  local[s].cacheKey = Start.hashes /\ Recorded /\ (oneYarnLock => local[s].dirs = Start.dirs)

(* A save has the key of the checkout, or comes without a plan after the build. *)
SavesAsRestored(s) ==
  \/ local[s].cacheKey = Start.hashes
  \/ ~ local[s].found /\ s \in AfterBuild /\ scenario.generated # {}

(* The same of one step, by where it is. *)
StepFromStart(s) ==
  /\ pc[s] = "compare" \/ local[s].found =>
       FromStart(local[s].fallbackPlan.key, local[s].fallbackPlan.dirs)
  /\ pc[s] \in {"write", "rename"} => FromStart(local[s].cacheKey, local[s].dirs)
  /\ local[s].used => AsPlanned(s)
  /\ Automatic(s) /\ Cfg(s).rebuild /\ pc[s] \in {"operate", "consume", "ok"} => SavesAsRestored(s)

PlanFromStart == plan # NoPlan => FromStart(plan.key, plan.dirs)

StartInv == onlyNpmLocks => PlanFromStart /\ \A s \in Step : StepFromStart(s)

(* What does not change with the scenario. *)
SameScenario ==
  /\ \A key, dirs : AsAtStart(key, dirs)' <=> AsAtStart(key, dirs)
  /\ onlyNpmLocks' <=> onlyNpmLocks
  /\ oneYarnLock' <=> oneYarnLock
  /\ apart' <=> apart
  /\ NpmPackageJSONFallbackDetected(scenario.ws)' <=> NpmPackageJSONFallbackDetected(scenario.ws)
  /\ Start' = Start /\ AfterBuild' = AfterBuild /\ BeforeBuild' = BeforeBuild
  /\ \A t \in Step : (Automatic(t)' <=> Automatic(t)) /\ Cfg(t)' = Cfg(t)

(* The scenario does not change. *)
LEMMA ScenarioStays == scenario' = scenario => SameScenario
<1> SUFFICES ASSUME scenario' = scenario PROVE SameScenario
  OBVIOUS
<1>1. Start' = Start
  BY DEF Start
<1>2. /\ \A t \in Step : (Automatic(t)' <=> Automatic(t)) /\ Cfg(t)' = Cfg(t)
      /\ AfterBuild' = AfterBuild /\ BeforeBuild' = BeforeBuild
  BY DEF Automatic, Overridden, Cfg, AfterBuild, BeforeBuild
<1>3. onlyNpmLocks' <=> onlyNpmLocks
  BY <1>2 DEF onlyNpmLocks, AfterBuild
<1>4. oneYarnLock' <=> oneYarnLock
  BY DEF oneYarnLock
<1>5. apart' <=> apart
  BY <1>2 DEF apart, Cfg
<1>6. QED
  BY <1>1, <1>2, <1>3, <1>4, <1>5 DEF SameScenario, AsAtStart

(* What is recorded stays so. *)
LEMMA RecordedStays ==
  ASSUME NEW s \in Step, Only(s), pc[s] \in PastDetection
         => pc'[s] \in PastDetection /\ SameRequest(s)
  PROVE  Recorded => Recorded'
<1>1. SameScenario
  BY ScenarioStays DEF Only
<1>2. ASSUME Recorded PROVE Recorded'
  <2>1. PICK r \in Step : /\ pc[r] \in PastDetection /\ Restored(r)
                          /\ AsAtStart(local[r].cacheKey, local[r].dirs)
    BY <1>2 DEF Recorded
  <2>2. /\ pc'[r] \in PastDetection
        /\ local'[r].cacheKey = local[r].cacheKey /\ local'[r].dirs = local[r].dirs
    BY <2>1 DEF Only, SameRequest
  <2>3. Restored(r)'
    BY <1>1, <2>1, <2>2 DEF Restored, SameScenario
  <2>4. AsAtStart(local[r].cacheKey, local[r].dirs)'
    BY <1>1, <2>1, <2>2 DEF SameScenario, AsAtStart
  <2>5. QED
    BY <2>2, <2>3, <2>4 DEF Recorded
<1>3. QED
  BY <1>2

(* It is enough to look at the file and at the step that moves. *)
LEMMA StartKept ==
  ASSUME PlanInv, StartInv, onlyNpmLocks, NEW s \in Step, Only(s), SameScenario,
         Recorded => Recorded', PlanFromStart', StepFromStart(s)'
  PROVE  StartInv'
<1>1. ASSUME NEW t \in Step \ {s} PROVE StepFromStart(t)'
  <2>1. pc'[t] = pc[t] /\ local'[t] = local[t] /\ StepFromStart(t)
    BY DEF Only, StartInv
  <2>2. \A key, dirs : FromStart(key, dirs) => FromStart(key, dirs)'
    BY DEF FromStart, SameScenario
  <2>3. AsPlanned(t) => AsPlanned(t)'
    BY <2>1 DEF AsPlanned, SameScenario
  <2>4. SavesAsRestored(t) => SavesAsRestored(t)'
    <3>1. scenario' = scenario
      BY DEF Only
    <3>2. QED
      BY <2>1, <3>1 DEF SavesAsRestored, SameScenario
  <2>5. FromStart(local[t].fallbackPlan.key, local[t].fallbackPlan.dirs)
          => FromStart(local[t].fallbackPlan.key, local[t].fallbackPlan.dirs)'
    BY <2>1, <2>2
  <2>6. FromStart(local[t].cacheKey, local[t].dirs) => FromStart(local[t].cacheKey, local[t].dirs)'
    BY <2>1, <2>2
  <2>7. QED
    BY <2>1, <2>3, <2>4, <2>5, <2>6 DEF StepFromStart, SameScenario
<1>2. QED
  BY <1>1 DEF StartInv

(* There is no plan at the start. *)
LEMMA InitStart == Init => StartInv
<1> SUFFICES ASSUME Init PROVE PlanFromStart /\ \A s \in Step : StepFromStart(s)
  BY DEF StartInv
<1>1. plan = NoPlan
  BY DEF Init
<1>2. \A s \in Step : local[s] = Idle /\ pc[s] = "waiting"
  BY DEF Init
<1>3. Idle.found = FALSE /\ Idle.used = FALSE
  BY DEF Idle
<1>4. QED
  BY <1>1, <1>2, <1>3 DEF PlanFromStart, StepFromStart

(* The inductive invariant, of these parts. *)
StateInv == PlanInv /\ WorkspaceInv /\ BaseInv /\ OriginInv /\ Turns /\ LocalInv /\ StartInv

(* The steps other than the detection pass on what they have. *)
LEMMA OtherStart ==
  ASSUME StateInv, onlyNpmLocks, NEW s \in Step, Kill(s) \/ StepAction(s), ~ Detect(s)
  PROVE  StartInv'
<1>1. Only(s) /\ scenario' = scenario
  BY StepGoes DEF StateInv, WorkspaceInv
<1>2. SameScenario
  BY <1>1, ScenarioStays
<1>3. PlanEffect(s) /\ StepEffect(s)
  BY Effects DEF StateInv
<1>4. Recorded => Recorded'
  BY <1>1, <1>3, RecordedStays DEF StepEffect
<1>5. StepFromStart(s) /\ PlanFromStart
  BY DEF StateInv, StartInv
<1>6. \A key, dirs : FromStart(key, dirs) => FromStart(key, dirs)'
  BY <1>2, <1>4 DEF FromStart, SameScenario
<1>7. PlanFromStart'
  <2>1. CASE plan' = plan
    <3>1. FromStart(plan.key, plan.dirs) => FromStart(plan.key, plan.dirs)'
      BY <1>6, <2>1
    <3>2. QED
      BY <1>5, <2>1, <3>1 DEF PlanFromStart
  <2>2. CASE plan' = NoPlan
    BY <2>2 DEF PlanFromStart, NoPlan
  <2>3. CASE plan' = PlanOf(s) /\ pc[s] = "rename"
    <3>1. FromStart(local[s].cacheKey, local[s].dirs)
      BY <1>5, <2>3 DEF StepFromStart
    <3>2. plan'.key = local[s].cacheKey /\ plan'.dirs = local[s].dirs
      BY <2>3 DEF PlanOf
    <3>3. FromStart(plan.key, plan.dirs)'
      BY <1>2, <1>4, <3>1, <3>2 DEF FromStart, SameScenario, AsAtStart
    <3>4. QED
      BY <3>3 DEF PlanFromStart
  <2>4. QED
    BY <1>3, <2>1, <2>2, <2>3 DEF PlanEffect
<1>8. StepFromStart(s)'
  <2>1. ASSUME (pc[s] = "compare" \/ local[s].found)'
        PROVE  FromStart(local[s].fallbackPlan.key, local[s].fallbackPlan.dirs)'
    <3>1. CASE pc'[s] = "compare"
      <4>1. plan' = plan /\ plan # NoPlan /\ local'[s].fallbackPlan = plan
        BY <1>3, <3>1 DEF StepEffect
      <4>2. FromStart(plan.key, plan.dirs)
        BY <1>5, <4>1 DEF PlanFromStart
      <4>3. QED
        BY <1>2, <1>4, <4>1, <4>2 DEF FromStart, SameScenario, AsAtStart
    <3>2. CASE local'[s].found
      <4>1. local'[s].fallbackPlan = local[s].fallbackPlan /\ (pc[s] = "compare" \/ local[s].found)
        BY <1>3, <3>2 DEF StepEffect
      <4>2. FromStart(local[s].fallbackPlan.key, local[s].fallbackPlan.dirs)
        BY <1>5, <4>1 DEF StepFromStart
      <4>3. QED
        BY <1>2, <1>4, <4>1, <4>2 DEF FromStart, SameScenario, AsAtStart
    <3>3. QED
      BY <2>1, <3>1, <3>2
  <2>2. ASSUME pc'[s] \in {"write", "rename"} PROVE FromStart(local[s].cacheKey, local[s].dirs)'
    <3>1. pc[s] = "write" /\ SameRequest(s)
      BY <1>3, <2>2, Phases DEF StepEffect
    <3>2. FromStart(local[s].cacheKey, local[s].dirs)
      BY <1>5, <3>1 DEF StepFromStart
    <3>3. QED
      BY <1>2, <1>4, <3>1, <3>2 DEF FromStart, SameScenario, AsAtStart, SameRequest
  <2>3. ASSUME local'[s].used PROVE AsPlanned(s)'
    <3>1. AsPlanned(s) /\ SameRequest(s)
      BY <1>3, <1>5, <2>3 DEF StepEffect, StepFromStart
    <3>2. QED
      BY <1>2, <1>4, <3>1 DEF AsPlanned, SameScenario, SameRequest
  <2>4. ASSUME Automatic(s), Cfg(s).rebuild, pc'[s] \in {"operate", "consume", "ok"}
        PROVE  SavesAsRestored(s)'
    <3>1. pc[s] \in {"operate", "consume"} /\ SameRequest(s) /\ local'[s].found = local[s].found
      BY <1>3, <2>4 DEF StepEffect
    <3>2. SavesAsRestored(s)
      BY <1>5, <2>4, <3>1 DEF StepFromStart
    <3>3. QED
      BY <1>1, <1>2, <3>1, <3>2 DEF SavesAsRestored, SameScenario, SameRequest
  <2>5. QED
    BY <1>2, <2>1, <2>2, <2>3, <2>4 DEF StepFromStart, SameScenario
<1>9. QED
  BY <1>1, <1>2, <1>4, <1>7, <1>8, StartKept DEF StateInv

(* Nor does a detection take a plan that is not the checkout's. *)
LEMMA DetectStart ==
  ASSUME StateInv, onlyNpmLocks, NEW s \in Step, Detect(s)
  PROVE  StartInv'
<1> DEFINE result == detected(s)
<1>1. Detecting(s)
  BY DEF StateInv, Detecting
<1>2. /\ scenario' = scenario /\ plan' = plan /\ pc[s] = "detect"
      /\ pc'[s] = afterDetection(s, result)
      /\ result.failed => local' = local
      /\ ~ result.failed => local'[s].used = local[s].found
      /\ local'[s].found = local[s].found /\ local'[s].fallbackPlan = local[s].fallbackPlan
  BY DetectDoes DEF StateInv
<1>3. detected(s).failed <=> result.failed
  OBVIOUS
<1> HIDE DEF result
<1>4. Only(s) /\ pc[s] \notin PastDetection
  BY <1>2, StepGoes, Phases DEF StateInv, WorkspaceInv, StepAction
<1>5. SameScenario
  BY <1>2, ScenarioStays
<1>6. Recorded => Recorded'
  BY <1>4, RecordedStays
<1>7. StepFromStart(s) /\ PlanFromStart /\ Local(s) /\ Origin(s)
  BY DEF StateInv, StartInv, LocalInv, OriginInv
<1>8. \A key, dirs : FromStart(key, dirs) => FromStart(key, dirs)'
  BY <1>5, <1>6 DEF FromStart, SameScenario
<1>9. PlanFromStart'
  <2>1. FromStart(plan.key, plan.dirs) => FromStart(plan.key, plan.dirs)'
    BY <1>2, <1>8
  <2>2. QED
    BY <1>2, <1>7, <2>1 DEF PlanFromStart
<1>10. pc'[s] \in {"error", "write", "skipped", "operate"}
       /\ (result.failed => pc'[s] = "error")
  BY <1>2 DEF afterDetection
<1>11. local[s].found => FromStart(local[s].fallbackPlan.key, local[s].fallbackPlan.dirs)
  BY <1>7 DEF StepFromStart
<1>12. local[s].used = FALSE
  BY <1>2, <1>7 DEF Origin
<1>13. ASSUME local'[s].found
      PROVE FromStart(local[s].fallbackPlan.key, local[s].fallbackPlan.dirs)'
  BY <1>2, <1>5, <1>6, <1>11, <1>13 DEF FromStart, SameScenario, AsAtStart
<1>14. ASSUME pc'[s] = "write" PROVE FromStart(local[s].cacheKey, local[s].dirs)'
  <2>1. /\ AsAtStart(local'[s].cacheKey, local'[s].dirs)
        /\ NpmPackageJSONFallbackDetected(scenario.ws)
    BY <1>1, <1>14, RestoreDetects
  <2>2. Restored(s)'
    <3>1. OriginInv'
      BY DetectOrigin DEF StateInv
    <3>2. QED
      BY <1>14, <3>1 DEF OriginInv, Origin
  <2>3. AsAtStart(local[s].cacheKey, local[s].dirs)'
    BY <1>5, <2>1 DEF AsAtStart, SameScenario
  <2>4. pc'[s] \in PastDetection
    BY <1>14, Phases
  <2>5. QED
    BY <1>5, <2>1, <2>2, <2>3, <2>4 DEF FromStart, Recorded, SameScenario
<1>15. ASSUME local'[s].used PROVE AsPlanned(s)'
  <2>1. ~ result.failed /\ local[s].found
    BY <1>2, <1>12, <1>15
  <2>2. FromStart(local[s].fallbackPlan.key, local[s].fallbackPlan.dirs)
    BY <1>11, <2>1
  <2>3. local'[s].cacheKey = Start.hashes /\ (oneYarnLock => local'[s].dirs = Start.dirs)
    BY <1>1, <1>3, <2>1, <2>2, PlannedDetects DEF FromStart
  <2>4. Recorded'
    BY <1>6, <2>2 DEF FromStart
  <2>5. QED
    BY <1>5, <2>3, <2>4 DEF AsPlanned, SameScenario
<1>16. ASSUME Automatic(s), Cfg(s).rebuild, pc'[s] = "operate" PROVE SavesAsRestored(s)'
  <2>1. CASE local[s].found
    <3>1. ~ result.failed
      BY <1>10, <1>16
    <3>2. local'[s].cacheKey = Start.hashes
      BY <1>1, <1>3, <1>11, <2>1, <3>1, PlannedDetects DEF FromStart
    <3>3. QED
      BY <1>5, <3>2 DEF SavesAsRestored, SameScenario
  <2>2. CASE local[s].found = FALSE
    <3>1. CASE s \in AfterBuild /\ scenario.generated # {}
      BY <1>2, <1>5, <2>2, <3>1 DEF SavesAsRestored, SameScenario
    <3>2. CASE ~ (s \in AfterBuild /\ scenario.generated # {})
      <4>1. local'[s].cacheKey = Start.hashes
        BY <1>1, <1>16, <2>2, <3>2, SaveDetects
      <4>2. QED
        BY <1>5, <4>1 DEF SavesAsRestored, SameScenario
    <3>3. QED
      BY <3>1, <3>2
  <2>3. QED
    BY <1>7, <2>1, <2>2 DEF Local
<1>17. StepFromStart(s)'
  BY <1>5, <1>10, <1>13, <1>14, <1>15, <1>16 DEF StepFromStart, SameScenario
<1>18. QED
  BY <1>4, <1>5, <1>6, <1>9, <1>17, StartKept DEF StateInv

(* Every step keeps StartInv. *)
LEMMA NextStart == StateInv /\ [Next]_vars => StartInv'
<1> SUFFICES ASSUME StateInv, [Next]_vars, onlyNpmLocks' PROVE StartInv'
  BY DEF StartInv
<1>1. scenario' = scenario
  BY DEF Next, vars, NextBatch, Kill, StepAction, RefuseBoth, WithoutAutoDetect, AutoDetectStart,
     ValidatePlanFile, OpenPlan, ReadPlan, DropUnreadablePlan, Detect, CreateTemp, Rename, Operate, ConsumePlan
<1>2. SameScenario
  BY <1>1, ScenarioStays
<1>3. onlyNpmLocks
  BY <1>2 DEF SameScenario
<1>4. CASE NextBatch \/ UNCHANGED vars
  <2>1. UNCHANGED <<scenario, plan, pc, local>>
    BY <1>4 DEF NextBatch, vars
  <2>2. PlanFromStart /\ \A s \in Step : StepFromStart(s)
    BY <1>3 DEF StateInv, StartInv
  <2>3. Recorded' <=> Recorded
    BY <1>2, <2>1 DEF Recorded, SameScenario, Restored
  <2>4. PlanFromStart'
    BY <1>2, <2>1, <2>2, <2>3 DEF PlanFromStart, FromStart, SameScenario, AsAtStart
  <2>5. ASSUME NEW s \in Step PROVE StepFromStart(s)'
    BY <1>2, <2>1, <2>2, <2>3
       DEF StepFromStart, FromStart, AsPlanned, SavesAsRestored, SameScenario, AsAtStart
  <2>6. QED
    BY <2>4, <2>5 DEF StartInv
<1>5. QED
  BY <1>3, <1>4, OtherStart, DetectStart DEF Next, StepAction

(* The inductive invariant holds at the start. *)
LEMMA InitState == Init => StateInv
BY InitPlan, InitWorkspace, InitBase, InitOrigin, InitTurns, InitLocal, InitStart
   DEF StateInv, WorkspaceInv

(* Every step keeps it. *)
LEMMA NextState == StateInv /\ LeadsInv /\ [Next]_vars => StateInv'
BY NextPlan, NextWorkspace, NextBase, NextOrigin, NextTurns, NextLocal, NextStart
   DEF StateInv, WorkspaceInv

(***************************************************************************)
(* A save with a plan leaves out nothing that the restore asked for, if    *)
(* the build generated locks of npm and yarn only and there is one         *)
(* yarn.lock at most: the detection forced to package.json finds the tools *)
(* and directories of the checkout again, whatever preparers have written. *)
(***************************************************************************)
THEOREM SpecPlannedSaveStoresAll == Spec => []PlannedSaveStoresAll
<1>1. StateInv => PlannedSaveStoresAll
  <2> SUFFICES ASSUME StateInv, onlyNpmLocks, oneYarnLock, NEW s \in Step, local[s].used
               PROVE  \E r \in Step : /\ Restored(r)
                                      /\ local[s].cacheKey = local[r].cacheKey
                                      /\ local[s].dirs = local[r].dirs
    BY DEF PlannedSaveStoresAll
  <2>1. AsPlanned(s)
    BY DEF StateInv, StartInv, StepFromStart
  <2>2. QED
    BY <2>1 DEF AsPlanned, Recorded, AsAtStart
<1>2. QED
  BY <1>1, InitState, NextState, InitWorkspace, NextWorkspace, PTL DEF Spec, StateInv

-----------------------------------------------------------------------------
(***************************************************************************)
(* If nothing fails, the plan of a restore stays until a save has used it. *)
(***************************************************************************)
Undisturbed ==
  /\ faults = 0 /\ apart /\ scenario.planPath = "ok" /\ onlyNpmLocks
  /\ NpmPackageJSONFallbackDetected(scenario.ws)

(* A save has used the plan; otherwise the plan is there. *)
Stored == \E t \in Step : Saved(t)

Held == plan # NoPlan \/ Stored

(* A restore came before the build. *)
RestoredBefore == \E r \in BeforeBuild : Restored(r)

(* What the plan is to a step, by where it is: a save after the build finds it. *)
StepHeld(s) ==
  /\ pc[s] = "unreadable" => Stored
  /\ pc[s] = "open" => Held
  /\ pc[s] = "compare" => plan = local[s].fallbackPlan \/ Stored
  /\ s \in BeforeBuild /\ Restored(s) /\ pc[s] \notin {"write", "rename"} => Held
  /\ /\ s \in AfterBuild /\ Automatic(s) /\ Cfg(s).rebuild
     /\ pc[s] \in {"detect", "operate", "consume", "ok"} /\ RestoredBefore
     => local[s].found \/ \E t \in Step \ {s} : Saved(t)

HeldInv == Undisturbed => \A s \in Step : StepHeld(s)

(* No plan is needed at the start. *)
LEMMA InitHeld == Init => HeldInv
<1> SUFFICES ASSUME Init, NEW s \in Step PROVE StepHeld(s)
  BY DEF HeldInv
<1>1. local[s] = Idle /\ pc[s] = "waiting"
  BY DEF Init
<1>2. Idle.cacheKey = <<>>
  BY DEF Idle
<1>3. QED
  BY <1>1, <1>2 DEF StepHeld, Restored

(* What a step does when nothing fails. *)
CalmEffect(s) ==
  /\ pc'[s] = "unreadable" =>
       \/ pc[s] = "open" /\ plan = NoPlan
       \/ pc[s] = "compare" /\ plan # local[s].fallbackPlan
  /\ pc'[s] = "open" => plan # NoPlan /\ plan' = plan
  /\ pc[s] = "rename" => plan' = PlanOf(s)
  /\ pc[s] = "write" => pc'[s] = "rename"
  /\ plan' # plan => pc[s] \in {"unreadable", "rename"} \/ (pc[s] = "consume" /\ pc'[s] = "ok")
  /\ pc'[s] = "detect" =>
       \/ ~ readsPlan(s) \/ local'[s].found \/ pc[s] = "unreadable"
       \/ pc[s] = "validate" /\ plan = NoPlan
  /\ pc[s] \in Undetected => SameRequest(s) \/ ~ Cfg(s).auto

(* Every step but the detection does no more. *)
LEMMA CalmEffects ==
  ASSUME PlanInv, NEW s \in Step, Kill(s) \/ StepAction(s), ~ Detect(s),
         faults \in Nat, faults' = 0, scenario.planPath = "ok"
  PROVE  CalmEffect(s)
<1>1. DOMAIN pc = Step /\ DOMAIN local = Step /\ DOMAIN local[s] = Locals
  BY DEF PlanInv, Shape
<1>2. ~ Fault
  BY DEF Fault
<1>3. ~ Kill(s)
  BY <1>2 DEF Kill
<1>4. CASE RefuseBoth(s) \/ AutoDetectStart(s)
  <2>1. plan' = plan /\ local' = local /\ pc[s] = "waiting"
    BY <1>4 DEF RefuseBoth, AutoDetectStart, Go
  <2>2. pc'[s] \in {"error", "validate"} \/ (pc'[s] = "detect" /\ ~ readsPlan(s))
    BY <1>1, <1>4 DEF RefuseBoth, AutoDetectStart, Go
  <2>3. QED
    BY <2>1, <2>2 DEF CalmEffect, SameRequest
<1>5. CASE WithoutAutoDetect(s)
  <2>1. plan' = plan /\ ~ Cfg(s).auto /\ pc[s] = "waiting" /\ pc'[s] \in {"error", "operate"}
    BY <1>1, <1>5 DEF WithoutAutoDetect, Go
  <2>2. QED
    BY <2>1 DEF CalmEffect
<1>6. CASE ValidatePlanFile(s)
  <2>1. /\ plan' = plan /\ local' = local /\ pc[s] = "validate"
        /\ pc'[s] = IF plan = NoPlan THEN "detect" ELSE "open"
    BY <1>1, <1>2, <1>6 DEF ValidatePlanFile, Go
  <2>2. QED
    BY <2>1 DEF CalmEffect, SameRequest
<1>7. CASE OpenPlan(s)
  <2>1. /\ plan' = plan /\ SameRequest(s) /\ pc[s] = "open"
        /\ pc'[s] = IF plan = NoPlan THEN "unreadable" ELSE "compare"
    BY <1>1, <1>7 DEF OpenPlan, Go, SameRequest, Locals, Idle
  <2>2. QED
    BY <2>1 DEF CalmEffect
<1>8. CASE ReadPlan(s)
  <2>1. /\ plan' = plan /\ SameRequest(s) /\ pc[s] = "compare"
        /\ pc'[s] = IF plan = local[s].fallbackPlan THEN "detect" ELSE "unreadable"
        /\ local'[s].found = (pc'[s] = "detect")
    BY <1>1, <1>2, <1>8 DEF ReadPlan, Go, SameRequest, Locals, Idle
  <2>2. QED
    BY <2>1 DEF CalmEffect
<1>9. CASE DropUnreadablePlan(s)
  <2>1. SameRequest(s) /\ pc[s] = "unreadable" /\ pc'[s] = "detect"
    BY <1>1, <1>9 DEF DropUnreadablePlan, Go, SameRequest, Locals, Idle
  <2>2. QED
    BY <2>1 DEF CalmEffect
<1>10. CASE CreateTemp(s)
  <2>1. plan' = plan /\ pc[s] = "write" /\ pc'[s] = "rename"
    BY <1>1, <1>2, <1>10 DEF CreateTemp, Go
  <2>2. pc[s] \notin Undetected
    BY <2>1 DEF Undetected, BeforeReading
  <2>3. QED
    BY <2>1, <2>2 DEF CalmEffect
<1>11. CASE Rename(s)
  <2>1. plan' = PlanOf(s) /\ pc[s] = "rename" /\ pc'[s] = "operate"
    BY <1>1, <1>2, <1>11 DEF Rename, Go
  <2>2. pc[s] \notin Undetected
    BY <2>1 DEF Undetected, BeforeReading
  <2>3. QED
    BY <2>1, <2>2 DEF CalmEffect
<1>12. CASE Operate(s)
  <2>1. plan' = plan /\ pc[s] = "operate" /\ pc'[s] \in {"error", "consume", "ok"}
    BY <1>1, <1>12 DEF Operate, AfterOperation, Go
  <2>2. pc[s] \notin Undetected
    BY <2>1 DEF Undetected, BeforeReading
  <2>3. QED
    BY <2>1, <2>2 DEF CalmEffect
<1>13. CASE ConsumePlan(s)
  <2>1. pc[s] = "consume" /\ pc'[s] = "ok"
    BY <1>1, <1>13 DEF ConsumePlan, Go
  <2>2. pc[s] \notin Undetected
    BY <2>1 DEF Undetected, BeforeReading
  <2>3. QED
    BY <2>1, <2>2 DEF CalmEffect
<1>14. QED
  BY <1>3, <1>4, <1>5, <1>6, <1>7, <1>8, <1>9, <1>10, <1>11, <1>12, <1>13 DEF StepAction

-----------------------------------------------------------------------------
(* What has been stored or is held when a step moves. *)
LEMMA SavedStays ==
  ASSUME NEW s \in Step, Only(s), pc[s] \notin Ended, NEW t \in Step, Saved(t)
  PROVE  t # s /\ Saved(t)'
<1>1. SameScenario
  BY ScenarioStays DEF Only
<1>2. t # s
  BY DEF Saved, Ended
<1>3. QED
  BY <1>1, <1>2 DEF Saved, Only, SameScenario

(* What a step leaves of the plan. *)
Calm(s) == plan' = plan \/ (plan' = NoPlan /\ Stored') \/ (pc[s] = "rename" /\ plan' # NoPlan)

(* The plan is to the other steps what it was. *)
LEMMA OthersHeld ==
  ASSUME StateInv, apart, \A t \in Step : StepHeld(t), NEW s \in Step, Only(s),
         s \in Running, pc[s] \notin Ended, Calm(s), NEW t \in Step \ {s}
  PROVE  StepHeld(t)'
<1>1. SameScenario
  BY ScenarioStays DEF Only
<1>2. pc'[t] = pc[t] /\ local'[t] = local[t] /\ StepHeld(t)
  BY DEF Only
<1>3. (Stored => Stored') /\ (Held => Held')
  <2>1. Stored => Stored'
    BY SavedStays DEF Stored
  <2>2. Held => Held'
    BY <2>1 DEF Held, Calm
  <2>3. QED
    BY <2>1, <2>2
<1>4. ASSUME pc[t] = "compare" PROVE plan' = local[t].fallbackPlan \/ Stored'
  <2>1. pc[s] # "rename"
    <3> SUFFICES ASSUME pc[s] = "rename" PROVE FALSE
      OBVIOUS
    <3>1. Origin(s) /\ PlanUse(t) /\ Turn(t)
      BY DEF StateInv, OriginInv, PlanInv, Turns
    <3>2. Cfg(s).restore /\ Cfg(t).rebuild
      BY <1>4, <3>1 DEF Origin, Restored, PlanUse
    <3>3. t \in Running
      BY <1>4, <3>1 DEF Turn, Active, Ended
    <3>4. batch \in DOMAIN scenario.batches /\ s \in scenario.batches[batch] \cap Step
          /\ t \in scenario.batches[batch] \cap Step
      BY <3>3 DEF Running
    <3>5. QED
      BY <3>2, <3>4 DEF apart
  <2>2. QED
    BY <1>2, <1>3, <1>4, <2>1 DEF StepHeld, Calm
<1>5. Restored(t)' <=> Restored(t)
  BY <1>1, <1>2 DEF Restored, SameScenario
<1>6. ASSUME t \in AfterBuild, pc[t] # "waiting", RestoredBefore' PROVE RestoredBefore
  <2>1. StageInv /\ Turns
    BY DEF StateInv, WorkspaceInv
  <2>2. s \notin BeforeBuild
    BY <1>6, <2>1, BuildDivides
  <2>3. PICK r \in BeforeBuild : Restored(r)'
    BY <1>1, <1>6 DEF RestoredBefore, SameScenario
  <2>4. r \in Step \ {s}
    BY <2>2, <2>3 DEF BeforeBuild
  <2>5. Restored(r)
    BY <1>1, <2>3, <2>4 DEF Restored, Only, SameScenario
  <2>6. QED
    BY <2>5 DEF RestoredBefore
<1>7. \A u \in Step \ {t} : Saved(u) => Saved(u)'
  BY SavedStays
<1>8. QED
  BY <1>1, <1>2, <1>3, <1>4, <1>5, <1>6, <1>7 DEF StepHeld, SameScenario

(* The restores before the build, told by a step after it. *)
LEMMA RestoredBeforeStays ==
  ASSUME StateInv, NEW s \in AfterBuild, s \in Step, Only(s), s \in Running, RestoredBefore'
  PROVE  RestoredBefore /\ isBuilt /\ \A r \in BeforeBuild : r \in Step /\ pc[r] \in Ended
<1>1. SameScenario
  BY ScenarioStays DEF Only
<1>2. StageInv /\ Turns
  BY DEF StateInv, WorkspaceInv
<1>3. isBuilt /\ \A r \in BeforeBuild : r \in Step /\ pc[r] \in Ended
  BY <1>2, BuildDivides
<1>4. PICK r \in BeforeBuild : Restored(r)'
  BY <1>1 DEF RestoredBefore, SameScenario
<1>5. r \in Step \ {s}
  BY <1>3, <1>4 DEF AfterBuild
<1>6. Restored(r)
  BY <1>1, <1>4, <1>5 DEF Restored, Only, SameScenario
<1>7. QED
  BY <1>3, <1>6 DEF RestoredBefore

(* Steps other than the detection hold the plan until it has been used. *)
LEMMA OtherHeld ==
  ASSUME StateInv, LocalInv', StageInv', Undisturbed, faults' = 0, \A t \in Step : StepHeld(t),
         NEW s \in Step, Kill(s) \/ StepAction(s), ~ Detect(s)
  PROVE  \A t \in Step : StepHeld(t)'
<1>1. Only(s) /\ s \in Running /\ pc[s] \notin Ended
  BY StepGoes DEF StateInv, WorkspaceInv
<1>2. SameScenario /\ scenario' = scenario
  BY <1>1, ScenarioStays DEF Only
<1>3. StepEffect(s)
  BY Effects DEF StateInv
<1>4. CalmEffect(s)
  BY CalmEffects DEF StateInv, Undisturbed
<1>5. PlanUse(s) /\ Origin(s) /\ Local(s) /\ StepHeld(s) /\ Local(s)'
  BY DEF StateInv, PlanInv, OriginInv, LocalInv
<1>6. PlanOf(s) # NoPlan
  <2>1. PlanOf(s).writer = s /\ NoPlan.writer = "nobody"
    BY DEF PlanOf, NoPlan
  <2>2. QED
    BY <2>1, AutoPlanAssumption
<1>7. Stored => Stored'
  BY <1>1, SavedStays DEF Stored
<1>8. Calm(s)
  <2>1. PlanEffect(s)
    BY Effects DEF StateInv
  <2>2. CASE plan' = plan
    BY <2>2 DEF Calm
  <2>3. CASE plan' # plan /\ pc[s] = "rename"
    BY <1>4, <1>6, <2>3 DEF CalmEffect, Calm
  <2>4. CASE plan' # plan /\ pc[s] = "unreadable"
    BY <1>5, <1>7, <2>1, <2>4 DEF PlanEffect, StepHeld, Calm
  <2>5. CASE plan' # plan /\ pc[s] = "consume" /\ pc'[s] = "ok"
    <3>1. Automatic(s) /\ Cfg(s).rebuild
      BY <1>5, <2>5 DEF PlanUse, Local
    <3>2. Saved(s)'
      BY <1>2, <2>5, <3>1 DEF Saved, SameScenario
    <3>3. QED
      BY <2>1, <2>5, <3>2 DEF PlanEffect, Calm, Stored
  <2>6. QED
    BY <1>4, <2>2, <2>3, <2>4, <2>5 DEF CalmEffect
<1>9. \A t \in Step \ {s} : StepHeld(t)'
  BY <1>1, <1>8, OthersHeld DEF Undisturbed
<1>10. Held => Held'
  BY <1>7, <1>8 DEF Held, Calm
<1>11. pc'[s] = "unreadable" => Stored'
  BY <1>4, <1>5, <1>7 DEF CalmEffect, StepHeld, Held
<1>12. pc'[s] = "open" => Held'
  BY <1>4 DEF CalmEffect, Held
<1>13. pc'[s] = "compare" => plan' = local'[s].fallbackPlan
  BY <1>3 DEF StepEffect
<1>14. ASSUME s \in BeforeBuild, Restored(s)', pc'[s] \notin {"write", "rename"} PROVE Held'
  <2>1. Automatic(s) /\ local'[s].cacheKey # <<>>
    BY <1>2, <1>14 DEF Restored, SameScenario
  <2>2. pc[s] \in PastDetection
    <3>1. pc[s] \in Undetected \cup PastDetection
      BY DEF StateInv, WorkspaceInv, StageInv, StageTypes, Undetected, BeforeReading,
         PastDetection, Ended
    <3>2. pc[s] \notin Undetected
      BY <1>4, <1>5, <2>1 DEF CalmEffect, Automatic, Local, SameRequest
    <3>3. QED
      BY <3>1, <3>2
  <2>3. Restored(s)
    BY <1>2, <1>3, <1>14, <2>2 DEF Restored, SameScenario, StepEffect, SameRequest
  <2>4. CASE pc[s] = "rename"
    BY <1>4, <1>6, <2>4 DEF CalmEffect, Held
  <2>5. CASE pc[s] = "write"
    BY <1>4, <1>14, <2>5 DEF CalmEffect
  <2>6. CASE pc[s] \notin {"write", "rename"}
    BY <1>5, <1>10, <1>14, <2>3, <2>6 DEF StepHeld
  <2>7. QED
    BY <2>4, <2>5, <2>6
<1>15. ASSUME s \in AfterBuild, Automatic(s), Cfg(s).rebuild,
              pc'[s] \in {"detect", "operate", "consume", "ok"}, RestoredBefore'
       PROVE  local'[s].found \/ \E t \in Step \ {s} : Saved(t)'
  <2>1. RestoredBefore /\ \A r \in BeforeBuild : r \in Step /\ pc[r] \in Ended
    BY <1>1, <1>15, RestoredBeforeStays
  <2>2. Stored => \E t \in Step \ {s} : Saved(t)'
    BY <1>1, SavedStays DEF Stored
  <2>3. CASE pc'[s] = "detect"
    <3>1. readsPlan(s)
      BY <1>15 DEF readsPlan, Automatic, Undisturbed
    <3>2. CASE local'[s].found
      BY <3>2
    <3>3. CASE pc[s] = "unreadable"
      BY <1>5, <2>2, <3>3 DEF StepHeld
    <3>4. CASE plan = NoPlan
      <4>1. PICK r \in BeforeBuild : Restored(r)
        BY <2>1 DEF RestoredBefore
      <4>2. StepHeld(r) /\ pc[r] \notin {"write", "rename"}
        BY <2>1 DEF Ended
      <4>3. Held
        BY <4>1, <4>2 DEF StepHeld
      <4>4. QED
        BY <2>2, <3>4, <4>3 DEF Held
    <3>5. QED
      BY <1>4, <2>3, <3>1, <3>2, <3>3, <3>4 DEF CalmEffect
  <2>4. CASE pc'[s] \in {"operate", "consume", "ok"}
    <3>1. pc[s] \in {"operate", "consume"} /\ local'[s].found = local[s].found
      BY <1>3, <1>15, <2>4 DEF StepEffect
    <3>2. local[s].found \/ \E t \in Step \ {s} : Saved(t)
      BY <1>5, <1>15, <2>1, <3>1 DEF StepHeld
    <3>3. QED
      BY <2>2, <3>1, <3>2 DEF Stored
  <2>5. QED
    BY <1>15, <2>3, <2>4
<1>16. StepHeld(s)'
  BY <1>2, <1>11, <1>12, <1>13, <1>14, <1>15 DEF StepHeld, SameScenario
<1>17. QED
  BY <1>9, <1>16

(* A restore of such a checkout records a plan, unless its detection fails. *)
LEMMA RestoreRecords ==
  ASSUME NEW s \in Step, Detecting(s), s \in BeforeBuild, Restored(s)',
         NpmPackageJSONFallbackDetected(scenario.ws)
  PROVE  pc'[s] = "write"
<1> DEFINE result == detected(s)
<1>1. /\ pc[s] = "detect" /\ pc'[s] = afterDetection(s, result) /\ scenario' = scenario
      /\ result.failed => local' = local
  BY DetectDoes DEF Detecting
<1>2. SameScenario /\ Local(s)
  BY <1>1, ScenarioStays DEF Detecting, LocalInv
<1>3. Automatic(s) /\ Cfg(s).restore /\ local'[s].cacheKey # <<>>
  BY <1>2 DEF Restored, SameScenario
<1>4. ~ Overridden(s) /\ local[s].found = FALSE /\ ~ isBuilt /\ IsWorkspace(ws)
  BY <1>3, DetectingFacts DEF Automatic
<1>5. result = detectDirectoriesToCache(ws, scenario.env, FALSE, FALSE)
  BY <1>4, DetectingFacts
<1>6. Alike(scenario.ws, ws, {})
  BY <1>4, DetectionOfCheckout DEF Detecting
<1> HIDE DEF result
<1>7. ~ result.failed
  <2>1. local[s].cacheKey = <<>>
    BY <1>1, <1>2 DEF Local, Undetected
  <2>2. QED
    BY <1>1, <1>3, <2>1
<1>8. NpmPackageJSONFallbackDetected(ws)
  BY <1>6, FallbackAlike
<1>9. result.tools # {}
  BY <1>4, <1>5, <1>8, FallbackFindsNode
<1>10. NpmPackageJSONFallbackDetected(result.ws)
  <2>1. Alike(ws, result.ws, {})
    BY <1>4, <1>5, DetectionAlike
  <2>2. QED
    BY <1>8, <2>1, FallbackAlike
<1>11. QED
  <2>1. Cfg(s).key = ""
    BY <1>4 DEF Overridden
  <2>2. recordsPlan(s, result)
    BY <1>3, <1>4, <1>9, <1>10 DEF recordsPlan
  <2>3. QED
    BY <1>1, <1>7, <1>9, <2>1, <2>2 DEF afterDetection

(* A detection comes with the plan that was found. *)
LEMMA DetectHeld ==
  ASSUME StateInv, Undisturbed, \A t \in Step : StepHeld(t), NEW s \in Step, Detect(s)
  PROVE  \A t \in Step : StepHeld(t)'
<1>1. Only(s) /\ s \in Running /\ pc[s] \notin Ended
  BY StepGoes DEF StateInv, WorkspaceInv, StepAction
<1>2. SameScenario /\ scenario' = scenario
  BY <1>1, ScenarioStays DEF Only
<1>3. /\ plan' = plan /\ pc[s] = "detect" /\ pc'[s] = afterDetection(s, detected(s))
      /\ local'[s].found = local[s].found
  BY DetectDoes DEF StateInv
<1>4. pc'[s] \in {"error", "write", "skipped", "operate"}
  BY <1>3 DEF afterDetection
<1>5. \A t \in Step \ {s} : StepHeld(t)'
  BY <1>1, <1>3, OthersHeld DEF Undisturbed, Calm
<1>6. ASSUME s \in BeforeBuild, Restored(s)' PROVE pc'[s] = "write"
  BY <1>6, RestoreRecords DEF Undisturbed, StateInv, Detecting
<1>7. ASSUME s \in AfterBuild, Automatic(s), Cfg(s).rebuild, RestoredBefore'
      PROVE  local'[s].found \/ \E t \in Step \ {s} : Saved(t)'
  <2>1. RestoredBefore
    BY <1>1, <1>7, RestoredBeforeStays
  <2>2. local[s].found \/ \E t \in Step \ {s} : Saved(t)
    BY <1>3, <1>7, <2>1 DEF StepHeld
  <2>3. QED
    BY <1>1, <1>3, <2>2, SavedStays
<1>8. StepHeld(s)'
  BY <1>2, <1>4, <1>6, <1>7 DEF StepHeld, SameScenario
<1>9. QED
  BY <1>5, <1>8

(* Every step keeps HeldInv. *)
LEMMA NextHeld == StateInv /\ LeadsInv /\ HeldInv /\ [Next]_vars => HeldInv'
<1> SUFFICES ASSUME StateInv, LeadsInv, HeldInv, [Next]_vars, Undisturbed'
      PROVE \A t \in Step : StepHeld(t)'
  BY DEF HeldInv
<1>1. StateInv'
  BY NextState
<1>2. scenario' = scenario /\ faults' \in {faults, faults + 1}
  BY DEF Next, vars, NextBatch, Kill, Fault, StepAction, RefuseBoth, WithoutAutoDetect,
     AutoDetectStart, ValidatePlanFile,
     OpenPlan, ReadPlan, DropUnreadablePlan, Detect, CreateTemp, Rename, Operate, ConsumePlan
<1>3. SameScenario
  BY <1>2, ScenarioStays
<1>4. faults \in Nat
  BY ScenarioParts DEF StateInv, WorkspaceInv, StageInv, StageTypes
<1>5. Undisturbed /\ faults' = 0
  BY <1>2, <1>3, <1>4 DEF Undisturbed, SameScenario
<1>6. \A t \in Step : StepHeld(t)
  BY <1>5 DEF HeldInv
<1>7. CASE NextBatch \/ UNCHANGED vars
  <2>1. UNCHANGED <<scenario, plan, pc, local>>
    BY <1>7 DEF NextBatch, vars
  <2>2. \A t \in Step : (Saved(t)' <=> Saved(t)) /\ (Restored(t)' <=> Restored(t))
    BY <1>3, <2>1 DEF Saved, Restored, SameScenario
  <2>3. (Stored' <=> Stored) /\ (RestoredBefore' <=> RestoredBefore)
    <3>1. BeforeBuild \subseteq Step
      BY DEF BeforeBuild
    <3>2. QED
      BY <1>3, <2>2, <3>1 DEF Stored, RestoredBefore, SameScenario
  <2>4. Held' <=> Held
    BY <2>1, <2>3 DEF Held
  <2>5. QED
    BY <1>3, <1>6, <2>1, <2>2, <2>3, <2>4 DEF StepHeld, SameScenario
<1>8. ASSUME NEW s \in Step, Detect(s) PROVE \A t \in Step : StepHeld(t)'
  BY <1>5, <1>6, <1>8, DetectHeld
<1>9. ASSUME NEW s \in Step, Kill(s) \/ StepAction(s), ~ Detect(s)
      PROVE \A t \in Step : StepHeld(t)'
  <2>1. LocalInv' /\ StageInv'
    BY <1>1 DEF StateInv, WorkspaceInv
  <2>2. QED
    BY <1>5, <1>6, <1>9, <2>1, OtherHeld
<1>10. QED
  BY <1>7, <1>8, <1>9 DEF Next, StepAction

(***************************************************************************)
(* What is saved is under the key that the restores of the commit ask for: *)
(* after a build that generated lock files, because the plan of a restore  *)
(* before it is held until a save has stored what it lists; otherwise,     *)
(* because what preparers write does not count for the key.                *)
(***************************************************************************)
THEOREM SpecSavedUnderTheRestoredKey == Spec => []SavedUnderTheRestoredKey
<1>1. StateInv /\ HeldInv => SavedUnderTheRestoredKey
  <2> SUFFICES ASSUME StateInv, HeldInv, NEW s \in Step, NEW r \in Step,
                      Saved(s), Restored(r), faults = 0, onlyNpmLocks, scenario.planPath = "ok",
                      \A t \in Step \ {s} : ~ Saved(t),
                      s \in AfterBuild => r \in BeforeBuild /\ apart
               PROVE  local[s].cacheKey = Start.hashes
    BY DEF SavedUnderTheRestoredKey, Start
  <2>1. SavesAsRestored(s)
    BY DEF StateInv, StartInv, StepFromStart, Saved
  <2>2. ASSUME ~ local[s].found, s \in AfterBuild, scenario.generated # {} PROVE FALSE
    <3>1. NpmPackageJSONFallbackDetected(scenario.ws)
      BY <2>2 DEF onlyNpmLocks
    <3>2. Undisturbed /\ RestoredBefore
      BY <2>2, <3>1 DEF Undisturbed, RestoredBefore
    <3>3. StepHeld(s)
      BY <3>2 DEF HeldInv
    <3>4. QED
      BY <2>2, <3>2, <3>3 DEF StepHeld, Saved
  <2>3. QED
    BY <2>1, <2>2 DEF SavesAsRestored
<1>2. QED
  BY <1>1, InitState, NextState, InitWorkspace, NextWorkspace, InitHeld, NextHeld, PTL
     DEF Spec, StateInv
=============================================================================
