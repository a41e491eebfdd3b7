----------------------------- MODULE MCAutoPlan -----------------------------
(* Small instances of AutoPlan: a restore r, saves s and t, and a build. *)
EXTENDS AutoPlan

Files(names, dir) == [f \in {<<dir, n>> : n \in names} |-> <<f[2]>>]
Also(files, dir, file, contents) == With(files, Write(dir, file, contents))

PackageJSON == Files({"package.json"}, "root")
Nested      == Files({"package.json"}, "a") @@ Files({"package.json"}, "b")
Mixed       == Files({"package.json", "requirements.txt", "pom.xml"}, "root")

(* Configuration files of the project's whose last line has no newline. *)
OpenFiles(w, files) == With(w, {<<f, <<"custom", "open">> >> : f \in files})
Unended == OpenFiles(Files({"build.gradle", "yarn.lock", "poetry.lock", "Pipfile.lock", "Gemfile"}, "root"),
                     {"root"} \X {"gradle.properties", ".yarnrc", "poetry.toml", ".env", ".bundle/config"})
Glued   == OpenFiles(Files({"pom.xml", "WORKSPACE"}, "root"), {"root"} \X {".mvn/maven.config", ".bazelrc"})
Ignored == OpenFiles(Files({"MODULE.bazel", "constraints.txt"}, "a"), {"a"} \X {".bazelrc", "pip.conf"})
             @@ [f \in {<<"a", ".bazelignore">>} |-> <<"open">>]

(* Checkouts, and what the build generates in them. *)
NodeCases ==
  {[ws |-> w, generated |-> g] :
     w \in {PackageJSON, Nested, Mixed},
     g \in {{}, {<<"root", "package-lock.json">>}, {<<"a", "package-lock.json">>},
            {<<"root", "yarn.lock">>}, {<<"b", "yarn.lock">>}, {<<"root", "bun.lock">>}}}

Checkouts ==
  {<<>>, Files({"package-lock.json", ".npmrc"}, "root"), Files({"yarn.lock", "package.json"}, "root"),
   Files({"pom.xml", "build.gradle", "WORKSPACE", "MODULE.bazel", "go.mod"}, "root"),
   Files({"build.gradle.kts"}, "b") @@ Files({"build.gradle"}, "root"),
   Files({"uv.lock", "pyproject.toml", "Podfile", "Podfile.lock"}, "root"),
   Files({"uv.lock"}, "a") @@ Files({"pyproject.toml", "Package.swift"}, "root"),
   Also(Files({"poetry.lock", "Pipfile.lock"}, "root"), "root", "poetry.toml", <<"other", "custom">>),
   Also(Files({"Pipfile.lock"}, "root"), "root", ".env", <<"custom", "other">>),
   Also(Files({"Gemfile", "Gemfile.lock"}, "root"), "root", ".bundle/config", <<"custom">>),
   Also(Files({"Gemfile", "constraints.txt"}, "root"), "root", ".mvn/maven.config", <<"custom">>),
   Also(Files({"pom.xml"}, "root"), "root", ".mvn/maven.config", <<"custom">>),
   Files({"*.csproj"}, "a") @@ Files({"*.csproj"}, "b"),
   Also(Files({"*.fsproj"}, "root"), "root", "nuget.config", <<"custom">>),
   Unended, Glued, Ignored}

OtherCases == {[ws |-> w, generated |-> {}] : w \in Checkouts}

Ask == [restore |-> FALSE, rebuild |-> FALSE, auto |-> TRUE, path |-> FALSE, key |-> ""]
Restore == [Ask EXCEPT !.restore = TRUE]
Save    == [Ask EXCEPT !.rebuild = TRUE]
Steps(r, s, t) == [x \in Step |-> CASE x = "r" -> r [] x = "s" -> s [] x = "t" -> t]

Build == {"build"}
Scenario1(case, settings, batches, env, planPath, n) ==
  [ws |-> case.ws, generated |-> case.generated, settings |-> settings, batches |-> batches,
   env |-> env, planPath |-> planPath, faults |-> n]

Plain     == {Scenario1(c, Steps(Restore, Save, Save), <<{"r"}, Build, {"s"}, {"t"}>>, {}, "ok", 1) : c \in NodeCases}
Repeated  == {Scenario1(c, Steps(Restore, Save, Restore), <<{"r"}, Build, {"t"}, {"s"}>>, {}, "ok", 1) : c \in NodeCases}
AtOnce    == {Scenario1(c, Steps(Restore, Save, Save), <<{"r"}, Build, {"s", "t"}>>, {}, "ok", 1) : c \in NodeCases}
Parallel  == {Scenario1(c, Steps(Restore, Save, Restore), <<{"r", "t"}, {"s"}>>, {}, "ok", 1) : c \in NodeCases}
Crossing  == {Scenario1(c, Steps(Restore, Save, Restore), <<{"r"}, {"s", "t"}>>, {}, "ok", 0) : c \in NodeCases}
PlanPaths == {Scenario1(c, Steps(Restore, Save, Save), <<{"r"}, Build, {"s"}>>, {}, p, 0) :
                c \in NodeCases, p \in {"unset", "noScope"}}
Tools     == {Scenario1(c, Steps(Restore, Save, Save), <<{"r"}, Build, {"s"}, {"t"}>>, env, "ok", 0) :
                c \in OtherCases,
                env \in {{}, {"poetry", "uv", "pipenv", "pip", "dotnet", "node", "cocoapods"}}}
Asked     == {Scenario1(c, Steps([a EXCEPT !.restore = TRUE], [a EXCEPT !.rebuild = TRUE],
                                 [a EXCEPT !.rebuild = TRUE, !.restore = b]), <<{"r"}, {"s"}, {"t"}>>, {}, "ok", 0) :
                c \in {[ws |-> PackageJSON, generated |-> {}], [ws |-> <<>>, generated |-> {}]},
                a \in [restore: {FALSE}, rebuild: {FALSE}, auto: BOOLEAN, path: BOOLEAN, key: {"", "user", "bad"}],
                b \in BOOLEAN}

MCScenarios == Plain \cup Repeated \cup AtOnce \cup Parallel \cup Crossing \cup PlanPaths \cup Tools \cup Asked
Names  == UNION {{f[2] : f \in DOMAIN s.ws \cup s.generated} : s \in MCScenarios}
MCFile == Names \cup Configuration
MCWord == Names \cup {"own", "custom", "other", "generated", "open", "glued"}
=============================================================================
