----------------------------- MODULE AutoDetect -----------------------------
(***************************************************************************)
(* Detection of the build tools of a checkout, by                          *)
(* internal/plugin/autodetect: which tools are there, which directories to *)
(* cache, the cache key, and the configuration files the preparers write   *)
(* so that the tools use those directories.                                *)
(*                                                                         *)
(* A workspace is a function from <<directory, file>> to the contents of   *)
(* the file, for the files that exist.  Contents are a sequence of words:  *)
(* what the project wrote, and in a configuration file "own" for the       *)
(* setting of a preparer and "custom" for the same setting with another    *)
(* value, made by the project.  "open" is another line of the project's,   *)
(* without a newline while it is the last one, and "glued" is what becomes *)
(* of it when a preparer writes its setting right behind.                  *)
(***************************************************************************)
EXTENDS Naturals, FiniteSets, SequencesExt

CONSTANTS
  File,  \* the names of files
  Word   \* what contents consist of

(* The files that preparers create. *)
Configuration ==
  {".mvn/maven.config", "gradle.properties", ".bazelrc", ".bazelignore", ".yarnrc", ".yarnrc.yaml",
   "nuget.config", "poetry.toml", "uv.toml", ".env", "pip.conf", ".bundle/config"}

ASSUME AutoDetectAssumption ==
  Configuration \subseteq File /\ {"own", "custom", "generated", "open", "glued"} \subseteq Word

(* The checkout and the directories one level below, the order of Glob. *)
Order == <<"root", "a", "b">>
Dir == {"root", "a", "b"}

NoBlockers == {}
NodeLocks == {"yarn.lock", "pnpm-lock.yaml", "bun.lock", "bun.lockb"}
PythonLocks == {"poetry.lock", "uv.lock", "Pipfile.lock"}

(* buildToolInfo.  preparer tells apart the two ways to prepare for node. *)
Tool(glob, tool) ==
  [glob |-> glob, tool |-> tool, preparer |-> tool, hash |-> "", all |-> FALSE, exclude |-> NoBlockers]

buildToolInfoMapping ==
  << Tool("pom.xml", "maven"), Tool("build.gradle.kts", "gradle"), Tool("build.gradle", "gradle"),
     [Tool("MODULE.bazel", "bazel") EXCEPT !.preparer = "bzlmod"], Tool("WORKSPACE", "bazel"),
     Tool("package-lock.json", "node"),
     [Tool("package.json", "node") EXCEPT !.preparer = "fallback", !.exclude = NodeLocks],
     [Tool("yarn.lock", "yarn") EXCEPT !.hash = "package.json"],
     Tool("go.mod", "golang"),
     [Tool("*.csproj", "dotnet") EXCEPT !.all = TRUE],
     [Tool("*.vbproj", "dotnet") EXCEPT !.all = TRUE],
     [Tool("*.fsproj", "dotnet") EXCEPT !.all = TRUE],
     Tool("poetry.lock", "poetry"), Tool("uv.lock", "uv"), Tool("Pipfile.lock", "pipenv"),
     Tool("requirements.txt", "pip"), Tool("constraints.txt", "pip"),
     [Tool("pyproject.toml", "pip") EXCEPT !.exclude = PythonLocks],
     [Tool("Gemfile", "fastlane") EXCEPT !.hash = "Gemfile.lock"],
     [Tool("Podfile", "cocoapods") EXCEPT !.hash = "Podfile.lock"],
     [Tool("Package.swift", "spm") EXCEPT !.hash = "Package.resolved"] >>

-----------------------------------------------------------------------------
(* Files *)

IsWorkspace(ws) ==
  ws \in [DOMAIN ws -> Seq(Word)] /\ DOMAIN ws \subseteq Dir \X File

Exists(ws, dir, file) == <<dir, file>> \in DOMAIN ws
Read(ws, dir, file) == IF Exists(ws, dir, file) THEN ws[<<dir, file>>] ELSE <<>>

(* Files that are written and their new contents: a set of such pairs. *)
Write(dir, file, contents) == {<< <<dir, file>>, contents >>}

(* Writing files, which may be new. *)
With(ws, writes) ==
  [f \in DOMAIN ws \cup {w[1] : w \in writes} |->
     IF \E w \in writes : w[1] = f THEN (CHOOSE w \in writes : w[1] = f)[2] ELSE ws[f]]

(* The directories with a match: the root, or else one level below. *)
matches(ws, glob) ==
  IF Exists(ws, "root", glob) THEN {"root"}
  ELSE {d \in Dir : Exists(ws, d, glob)}

(* A blocker excludes the matches that are beside it. *)
eligible(ws, glob, blockers) ==
  {d \in matches(ws, glob) : \A b \in blockers : ~ Exists(ws, d, b)}

(* The last one of the shortest paths: the names below the root are equally long. *)
shortestPath(dirs) ==
  IF "root" \in dirs THEN "root" ELSE Order[Max({i \in DOMAIN Order : Order[i] \in dirs})]

(* The directories an entry of the table is found in. *)
Found(ws, info) ==
  LET dirs == eligible(ws, info.glob, info.exclude) IN
  IF info.all \/ dirs = {} THEN dirs ELSE {shortestPath(dirs)}

InOrder(dirs) == SelectSeq(Order, LAMBDA d : d \in dirs)

(* A sum stands for the contents: of one file, of all files in order. *)
Sums(ws, dirs, glob) ==
  LET contents == [d \in dirs |-> Read(ws, d, glob)]
      order == InOrder(dirs)
  IN IF dirs = {} THEN <<>> ELSE <<FlattenSeq([i \in DOMAIN order |-> contents[order[i]]])>>

NpmPackageJSONFallbackDetected(ws) ==
  /\ matches(ws, "package-lock.json") = {}
  /\ eligible(ws, "package.json", NodeLocks) # {}

-----------------------------------------------------------------------------
(* Preparers *)

IsSetting(word) == word \in {"own", "custom"}
Settings(contents) == {i \in DOMAIN contents : IsSetting(contents[i])}

(* The last line has its newline. *)
LastLineEnds(contents) == contents # <<>> => contents[Len(contents)] # "open"

(* A setting written at the end of a file, whatever the file ends with. *)
AppendRaw(contents) ==
  IF LastLineEnds(contents) THEN Append(contents, "own")
  ELSE [contents EXCEPT ![Len(contents)] = "glued"]

MutantAppendLine(contents) == AppendRaw(contents)

(* A newline comes first where the last line has none (CI-24154). *)
AppendLine(contents) == Append(contents, "own")

Keep(contents) == IF Settings(contents) = {} THEN AppendLine(contents) ELSE contents

(* A file in which the text of the setting occurs is left as it is. *)
AppendMissing(contents) ==
  IF Range(contents) \cap {"own", "custom", "glued"} = {} THEN AppendRaw(contents) ELSE contents

(* The first assignment is replaced; a new one goes where its table ends. *)
UpsertTOML(contents) ==
  IF Settings(contents) = {} THEN AppendLine(contents)
  ELSE [contents EXCEPT ![Min(Settings(contents))] = "own"]

(* Every assignment is replaced. *)
upsertEnv(contents) ==
  IF Settings(contents) = {} THEN AppendLine(contents)
  ELSE [i \in DOMAIN contents |-> IF IsSetting(contents[i]) THEN "own" ELSE contents[i]]

(* What a preparer makes of a file. *)
Rewrite(ws, dir, file, Change(_)) == Write(dir, file, Change(Read(ws, dir, file)))

mavenWrites(ws, dir)  == Rewrite(ws, dir, ".mvn/maven.config", AppendRaw)
gradleWrites(ws, dir) == Rewrite(ws, dir, "gradle.properties", AppendLine)

appendToBazelrc(ws, dir)       == Rewrite(ws, dir, ".bazelrc", AppendRaw)
appendToBazelrcBzlmod(ws, dir) == Rewrite(ws, dir, ".bazelrc", AppendRaw)
appendToBazelignore(ws, dir)   == Rewrite(ws, dir, ".bazelignore", AppendMissing)

yarnWrites(ws, dir) ==
  Rewrite(ws, dir, ".yarnrc", AppendLine) \cup Rewrite(ws, dir, ".yarnrc.yaml", AppendLine)

(* Writing nuget.config leaves only what the plugin reads of it. *)
dotnetWrites(ws, dir) ==
  IF Settings(Read(ws, dir, "nuget.config")) = {} THEN Write(dir, "nuget.config", <<"own">>) ELSE {}

poetryWrites(ws, dir) == Rewrite(ws, dir, "poetry.toml", UpsertTOML)

(* uv.toml if it exists or if there is no pyproject.toml. *)
uvWrites(ws, dir) ==
  Rewrite(ws, dir, IF Exists(ws, dir, "uv.toml") \/ ~ Exists(ws, dir, "pyproject.toml")
                     THEN "uv.toml" ELSE "pyproject.toml", UpsertTOML)

pipenvWrites(ws, dir) == Rewrite(ws, dir, ".env", upsertEnv)
pipWrites(ws, dir)    == Rewrite(ws, dir, "pip.conf", Keep)

appendBundlePath(ws, dir) == Rewrite(ws, dir, ".bundle/config", Keep)

(***************************************************************************)
(* env is the set of the tools whose own variable of the environment names *)
(* another directory; the preparers that look at theirs write nothing then.*)
(***************************************************************************)
fromEnv(env, preparer) ==
  preparer \in {"poetry", "uv", "pipenv", "pip", "dotnet"} /\ preparer \in env

Rewritten(ws, env, dir, preparer) ==
  IF fromEnv(env, preparer) THEN {}
  ELSE CASE preparer = "maven"     -> mavenWrites(ws, dir)
         [] preparer = "gradle"    -> gradleWrites(ws, dir)
         [] preparer = "bazel"     -> appendToBazelrc(ws, dir) \cup appendToBazelignore(ws, dir)
         [] preparer = "bzlmod"    -> appendToBazelrcBzlmod(ws, dir) \cup appendToBazelignore(ws, dir)
         [] preparer = "yarn"      -> yarnWrites(ws, dir)
         [] preparer = "dotnet"    -> dotnetWrites(ws, dir)
         [] preparer = "poetry"    -> poetryWrites(ws, dir)
         [] preparer = "uv"        -> uvWrites(ws, dir)
         [] preparer = "pipenv"    -> pipenvWrites(ws, dir)
         [] preparer = "pip"       -> pipWrites(ws, dir)
         [] preparer = "fastlane"  -> appendBundlePath(ws, dir)
         [] OTHER                  -> {}

Own == [maven |-> ".m2/repository", gradle |-> ".gradle", bazel |-> ".bazel-cache",
        bzlmod |-> ".bazel-cache", node |-> "node_modules",
        fallback |-> "node_modules", yarn |-> ".yarn", dotnet |-> ".nuget/packages",
        poetry |-> ".cache/poetry", uv |-> ".cache/uv", pipenv |-> ".cache/pipenv", pip |-> ".cache/pip",
        fastlane |-> "vendor/bundle", cocoapods |-> "Pods", spm |-> ".build/checkouts"]

(* Where the project or the environment keeps the cache of a tool. *)
Elsewhere(tool) == <<"elsewhere", tool>>

(* The first setting that has a value. *)
findBundlePath(ws, dir) ==
  LET contents == Read(ws, dir, ".bundle/config") IN
  Settings(contents) # {} /\ contents[Min(Settings(contents))] = "custom"

(* The directory PrepareRepo returns. *)
Prepared(ws, env, dir, preparer) ==
  CASE fromEnv(env, preparer) -> Elsewhere(preparer)
    [] preparer = "fastlane" /\ findBundlePath(ws, dir) -> Elsewhere(preparer)
    [] preparer = "golang" -> <<"root", ".go">>
    [] OTHER -> <<dir, Own[preparer]>>

(* The environment, then .npmrc; ~/.npm is left out where HOME is elsewhere. *)
npmCacheDirs(ws, env, dir) ==
  IF "node" \in env \/ Settings(Read(ws, dir, ".npmrc")) # {} THEN {Elsewhere("node")} ELSE {}

nodeModulesDirs(dir) == {<<dir, "node_modules">>}
cocoapodsCacheDirs(env) == IF "cocoapods" \in env THEN {Elsewhere("cocoapods")} ELSE {}
spmCacheDirs(dir) == {<<dir, ".build/repositories">>}

additionalCacheDirs(ws, env, dir, preparer) ==
  CASE preparer = "node"      -> npmCacheDirs(ws, env, dir)
    [] preparer = "yarn"      -> nodeModulesDirs(dir)
    [] preparer = "cocoapods" -> cocoapodsCacheDirs(env)
    [] preparer = "spm"       -> spmCacheDirs(dir)
    [] OTHER -> {}

(* "unsupported custom globalPackagesFolder value" *)
prepareFails(ws, env, dir, preparer) ==
  /\ preparer = "dotnet" /\ ~ fromEnv(env, preparer)
  /\ "custom" \in Range(Read(ws, dir, "nuget.config"))

-----------------------------------------------------------------------------
(***************************************************************************)
(* detectDirectoriesToCache: one entry of the table after the other.  What *)
(* a preparer has written is there when the next entry is looked for.      *)
(***************************************************************************)
Nothing(ws) == [ws |-> ws, dirs |-> {}, tools |-> {}, hashes |-> <<>>, failed |-> FALSE]

MutantSkipped(acc, info, force) == acc.failed \/ info.tool \in acc.tools

Skipped(acc, info, force) ==
  \/ acc.failed
  \/ info.tool \in acc.tools
  \/ force /\ info.glob = "package-lock.json"

(* In order: a directory that fails keeps what was written before it. *)
IsBefore(dir, other) == \E i, j \in DOMAIN Order : i < j /\ Order[i] = dir /\ Order[j] = other

PrepareRepo(acc, env, info, dirs) ==
  LET prepared == {d \in dirs : \A e \in dirs :
                     prepareFails(acc.ws, env, e, info.preparer) => IsBefore(d, e)}
      writes == UNION {Rewritten(acc.ws, env, d, info.preparer) : d \in prepared}
      toCache == UNION {{Prepared(acc.ws, env, d, info.preparer)}
                          \cup additionalCacheDirs(acc.ws, env, d, info.preparer) : d \in prepared}
  IN [acc EXCEPT !.failed = prepared # dirs, !.ws = With(@, writes), !.dirs = @ \cup toCache]

DetectTool(acc, env, info, force) ==
  LET dirs == Found(acc.ws, info)
      hashes == (IF info.hash = "" THEN <<>>
                 ELSE Sums(acc.ws, Found(acc.ws, Tool(info.hash, "")), info.hash))
                \o Sums(acc.ws, dirs, info.glob)
  IN IF Skipped(acc, info, force) \/ dirs = {} THEN acc
     ELSE [PrepareRepo(acc, env, info, dirs)
             EXCEPT !.tools = @ \cup {info.tool}, !.hashes = @ \o hashes]

(***************************************************************************)
(* With a path of the user's (skipPrepare) nothing is prepared or found.   *)
(* upTo[n] has one element, what the first n entries lead to: an element   *)
(* of a set is evaluated once, an argument of a fold each time it is used. *)
(***************************************************************************)
detectDirectoriesToCache(ws, env, skipPrepare, force) ==
  LET upTo[n \in 0..Len(buildToolInfoMapping)] ==
        IF n = 0 THEN {Nothing(ws)}
        ELSE {DetectTool(acc, env, buildToolInfoMapping[n], force) : acc \in upTo[n - 1]}
  IN IF skipPrepare THEN Nothing(ws)
     ELSE CHOOSE result \in upTo[Len(buildToolInfoMapping)] : TRUE
=============================================================================
