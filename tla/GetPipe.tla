------------------------------ MODULE GetPipe ------------------------------
(***************************************************************************)
(* One download of cache/restorer.go, restore(): a goroutine lets          *)
(* storage.Get write the object into an io.Pipe, and the archive is        *)
(* extracted from the reading end into a workspace that is not empty.      *)
(* storage.Get waits for the backend's goroutine or for the operation      *)
(* timeout; the Harness backend has no such goroutine ("direct").          *)
(*                                                                         *)
(* An archive is a sequence of blocks: for every member a header, then its *)
(* content, and a trailer at the end.  The pipe has no buffer: a block     *)
(* passes when one side writes it and the other reads it.                  *)
(***************************************************************************)
EXTENDS Naturals, Sequences, SequencesExt

CONSTANTS
  Name,       \* paths of the workspace
  Root,       \* the directory everything is restored into
  Parent,     \* the directory of every other path
  Elsewhere,  \* what a symbolic link points to: a regular file, or nothing
  Scenarios   \* archives, workspaces, backends

(***************************************************************************)
(* What is in the workspace: blocks of the archive, followed by blocks     *)
(* that were there before, and whether its times are the archived ones.    *)
(***************************************************************************)
Kind == {"absent", "dir", "file", "link"}
Entry == [kind: Kind, new: Nat, old: Nat, timed: BOOLEAN]

(* "refused": the cleaned name leads out of the destination. *)
Member == [name: Name, kind: {"dir", "file", "link", "refused"}, size: Nat]

Blocks(m, i) ==
  <<[at |-> "head", member |-> i]>> \o
  [k \in 1..m.size |-> [at |-> "body", member |-> i]]

ArchiveOf(members) ==
  FlattenSeq([i \in DOMAIN members |-> Blocks(members[i], i)]) \o
  <<[at |-> "trailer", member |-> 0]>>

(* The archive of one source: filepath.Walk visits every path once. *)
Walk ==
  {s \in Seq(Member) :
     /\ \A i, j \in DOMAIN s : s[i].name = s[j].name => i = j
     /\ \A i \in DOMAIN s : s[i].name = Elsewhere => s[i].kind \in {"file", "refused"}}

(* A workspace that has nothing of the archive yet. *)
Workspace ==
  {w \in [Name -> Entry] :
     /\ \A n \in Name : w[n].new = 0 /\ (w[n].kind # "file" => w[n].old = 0)
     /\ w[Elsewhere].kind \in {"absent", "file"}}

Format == {"tar", "gzip", "zstd"}

(***************************************************************************)
(* stored: how many blocks of the archive the object has.  Not all of them *)
(* are there when the save failed and the backend writes in place.         *)
(***************************************************************************)
Scenario == [members: Walk, format: Format, preserve: BOOLEAN,
             direct: BOOLEAN, stored: Nat, before: Workspace]

ASSUME GetPipeAssumption ==
  /\ Root \in Name /\ Elsewhere \in Name \ {Root}
  /\ Parent \in [Name \ {Root} -> Name \ {Elsewhere}]
  /\ \A n \in Name \ {Root} : Parent[n] # n
  /\ Scenarios \subseteq Scenario
  /\ \A s \in Scenarios : s.stored <= Len(ArchiveOf(s.members))

VARIABLES
  scenario,
  backend,    \* where the backend's goroutine (or call) is
  sent,       \* how many blocks went through the pipe
  get,        \* what storage.Get returned
  writer,     \* the writing end of the pipe
  reader,     \* the reading end of the pipe
  extractor,  \* where Extract is
  current,    \* the member being extracted
  ws,         \* the workspace
  ret         \* what restore() returned

vars == <<scenario, backend, sent, get, writer, reader, extractor, current, ws, ret>>

Archive == ArchiveOf(scenario.members)

Init ==
  /\ scenario \in Scenarios
  /\ backend = "open"
  /\ sent = 0
  /\ get = "wait"
  /\ writer = "open"
  /\ reader = "open"
  /\ extractor = "header"
  /\ current = 0
  /\ ws = scenario.before
  /\ ret = "none"

getVars     == <<backend, sent, get, writer>>
extractVars == <<reader, extractor, current, ws, ret>>

-----------------------------------------------------------------------------
(* The downloading goroutine: storage.Get and what the backend starts. *)

GetOpens ==
  /\ backend = "open"
  /\ backend' = "copy"
  /\ UNCHANGED <<scenario, sent, get, writer>> /\ UNCHANGED extractVars

(* The request fails, the copy reads an error, or writes to a closed pipe. *)
GetFails ==
  /\ backend \in {"open", "copy"}
  /\ backend' = "failed"
  /\ UNCHANGED <<scenario, sent, get, writer>> /\ UNCHANGED extractVars

PipeClosed == reader = "closed" \/ writer # "open"

GetRefused ==
  /\ backend = "copy" /\ sent < scenario.stored
  /\ PipeClosed
  /\ backend' = "failed"
  /\ UNCHANGED <<scenario, sent, get, writer>> /\ UNCHANGED extractVars

CopyEnds ==
  /\ backend = "copy" /\ sent = scenario.stored
  /\ backend' = "done"
  /\ UNCHANGED <<scenario, sent, get, writer>> /\ UNCHANGED extractVars

(* errCh delivers the error or is closed. *)
GetReturns ==
  /\ get = "wait" /\ backend \in {"done", "failed"}
  /\ get' = IF backend = "done" THEN "nil" ELSE "error"
  /\ UNCHANGED <<scenario, backend, sent, writer>> /\ UNCHANGED extractVars

(* The goroutine is left alone with its copy and nobody receives its error. *)
GetTimesOut ==
  /\ get = "wait" /\ ~ scenario.direct
  /\ get' = "error"
  /\ UNCHANGED <<scenario, backend, sent, writer>> /\ UNCHANGED extractVars

MutantClosing == "eof"

(* pw.CloseWithError, or only the deferred Close. *)
Closing == IF get = "nil" THEN "eof" ELSE "error"

CloseWriter ==
  /\ get # "wait" /\ writer = "open"
  /\ writer' = Closing
  /\ UNCHANGED <<scenario, backend, sent, get>> /\ UNCHANGED extractVars

-----------------------------------------------------------------------------
(* Extract of the tar archive, and what restore() does around it. *)

(* A block is read: the backend writes it, and the pipe is open. *)
Next1(at) ==
  /\ backend = "copy" /\ sent < scenario.stored
  /\ ~ PipeClosed
  /\ Archive[sent + 1].at = at
  /\ sent' = sent + 1
  /\ UNCHANGED <<scenario, backend, get, writer>>

MutantFail == extractor' = "returned" /\ ret' = "error" /\ UNCHANGED reader

MutantFailGoesOn == ret' = "error" /\ UNCHANGED <<extractor, reader>>

(* The error of Extract closes the reading end of the pipe. *)
Fail == extractor' = "returned" /\ ret' = "error" /\ reader' = "closed"

(* Something was created in, or removed from, the directory of a path. *)
Touched(w, n) == IF n = Root THEN w ELSE [w EXCEPT ![Parent[n]].timed = FALSE]

Created(w, n, kind) ==
  [Touched(w, n) EXCEPT ![n] = [kind |-> kind, new |-> 0, old |-> 0, timed |-> FALSE]]

(* os.MkdirAll of the directory of a path, of which the parent exists. *)
WithParent(w, n) ==
  IF n # Root /\ w[Parent[n]].kind = "absent" THEN Created(w, Parent[n], "dir") ELSE w

ParentIsDir(n) == n = Root \/ ws[Parent[n]].kind \in {"absent", "dir"}

(* A regular file opened through a symbolic link is what the link points to. *)
Opened(n) == IF ws[n].kind = "link" THEN Elsewhere ELSE n

(* O_CREATE without O_TRUNC: what was there stays until it is overwritten. *)
Open(w, n) ==
  IF w[n].kind = "absent"
    THEN Created(w, n, "file")
    ELSE [w EXCEPT ![n].new = 0, ![n].old = w[n].new + w[n].old]

Possible(m) ==
  /\ m.kind # "refused"
  /\ ParentIsDir(m.name)
  /\ \/ m.kind = "dir"  /\ ws[m.name].kind \in {"absent", "dir"}
     \/ m.kind = "file" /\ ws[Opened(m.name)].kind \in {"absent", "file"}
     \/ m.kind = "link" /\ \/ ws[m.name].kind # "dir"
                           \/ \A n \in Name \ {Root} :
                                Parent[n] = m.name => ws[n].kind = "absent"

(* extractDir, the opening of extractRegular, extractSymlink. *)
Made(m) ==
  LET w == WithParent(ws, m.name)
  IN CASE m.kind = "dir"  -> IF w[m.name].kind = "dir" THEN w ELSE Created(w, m.name, "dir")
       [] m.kind = "file" -> Open(w, Opened(m.name))
       [] m.kind = "link" -> Created(w, m.name, "link")

(* Chmod, Chtimes and chown when the member is complete. *)
Stamp(w, n) == IF scenario.preserve THEN [w EXCEPT ![n].timed = TRUE] ELSE w

MutantDirsStamped == "made"

(* Directories have to wait for what is extracted into them. *)
DirsStamped == "end"

StampMade(w, m) ==
  CASE m.kind = "dir" /\ DirsStamped = "made" -> Stamp(w, m.name)
    [] m.kind = "file" /\ m.size = 0          -> Stamp(w, Opened(m.name))
    [] OTHER                                  -> w

(* os.Remove of what is where a link belongs. *)
Removed(w, n) ==
  [Touched(w, n) EXCEPT ![n] = [kind |-> "absent", new |-> 0, old |-> 0, timed |-> FALSE]]

(***************************************************************************)
(* What a member that fails leaves behind: nothing, the directory around   *)
(* it, the file that was opened, or no entry where a link was to be made.  *)
(***************************************************************************)
HalfMade(m) ==
  \/ UNCHANGED ws
  \/ m.kind # "refused" /\ ParentIsDir(m.name) /\ ws' = WithParent(ws, m.name)
  \/ m.kind = "file" /\ Possible(m) /\ ws' = Made(m)
  \/ /\ m.kind = "link" /\ Possible(m) /\ ws[m.name].kind # "absent"
     /\ ws' = Removed(WithParent(ws, m.name), m.name)

(* tr.Next() returns a header; any file operation may fail. *)
ReadHeader ==
  /\ extractor = "header"
  /\ Next1("head")
  /\ current' = Archive[sent + 1].member
  /\ LET m == scenario.members[current']
     IN \/ /\ Possible(m)
           /\ ws' = StampMade(Made(m), m)
           /\ extractor' = IF m.kind = "file" /\ m.size > 0 THEN "body" ELSE "header"
           /\ UNCHANGED <<reader, ret>>
        \/ Fail /\ HalfMade(m)

MutantFilled(f) == [f EXCEPT !.new = @ + 1, !.timed = FALSE]

MutantFilledBelow(f) == [f EXCEPT !.new = @ + 1, !.old = @ - 1, !.timed = FALSE]

Filled(f) == [f EXCEPT !.new = @ + 1, !.old = IF @ > 0 THEN @ - 1 ELSE 0, !.timed = FALSE]

(* io.Copy writes a block at its place, over what was there, or fails then. *)
ReadBody ==
  /\ extractor = "body"
  /\ Next1("body")
  /\ LET m == scenario.members[current]
         f == Opened(m.name)
         w == [ws EXCEPT ![f] = Filled(@)]
     IN \/ /\ ws' = IF w[f].new = m.size THEN Stamp(w, f) ELSE w
           /\ extractor' = IF w[f].new = m.size THEN "header" ELSE "body"
           /\ UNCHANGED <<reader, ret>>
        \/ Fail /\ ws' \in {ws, w}
  /\ UNCHANGED current

ReadTrailer ==
  /\ extractor = "header"
  /\ Next1("trailer")
  /\ extractor' = "finish"
  /\ UNCHANGED <<reader, current, ws, ret>>

(***************************************************************************)
(* Where a header could start, a stream may end well: that of a plain      *)
(* archive at any of them, that of zstd with nothing in it.  gzip finds no *)
(* header in an empty stream, and both know the end of their own.          *)
(***************************************************************************)
EndsWell == scenario.format = "tar" \/ (scenario.format = "zstd" /\ sent = 0)

(* The end of the stream without a trailer, or inside of a block. *)
ReadEOF ==
  /\ extractor \in {"header", "body"}
  /\ writer = "eof"
  /\ \/ /\ extractor = "header" /\ EndsWell
        /\ extractor' = "finish"
        /\ UNCHANGED <<reader, ret>>
     \/ Fail
  /\ UNCHANGED <<scenario, current, ws>> /\ UNCHANGED getVars

(* The error the downloading goroutine closed the pipe with. *)
ReadError ==
  /\ extractor \in {"header", "body"}
  /\ writer = "error"
  /\ Fail
  /\ UNCHANGED <<scenario, current, ws>> /\ UNCHANGED getVars

ExtractedDirs ==
  {scenario.members[i].name : i \in {k \in 1..current : scenario.members[k].kind = "dir"}}

(* The metadata of the directories; the deferred Close of the pipe. *)
Finish ==
  /\ extractor = "finish"
  /\ ws' = [n \in Name |-> IF DirsStamped = "end" /\ n \in ExtractedDirs THEN Stamp(ws, n)[n] ELSE ws[n]]
  /\ extractor' = "returned" /\ ret' = "ok" /\ reader' = "closed"
  /\ UNCHANGED <<scenario, current>> /\ UNCHANGED getVars

-----------------------------------------------------------------------------
Request   == GetOpens \/ GetFails \/ GetRefused \/ CopyEnds
Goroutine == GetReturns \/ CloseWriter
Reading   == ReadHeader \/ ReadBody \/ ReadTrailer
Extractor == ReadEOF \/ ReadError \/ Finish

Next == Request \/ Goroutine \/ GetTimesOut \/ Reading \/ Extractor

Spec == Init /\ [][Next]_vars

(***************************************************************************)
(* A backend's goroutine may wait for its service for ever, but the timer  *)
(* of storage.Get fires.  The requests of the Harness backend carry the    *)
(* context themselves and end with it; what it writes to the pipe does not.*)
(***************************************************************************)
FairSpec ==
  /\ Spec
  /\ WF_vars(scenario.direct /\ (GetOpens \/ GetRefused \/ CopyEnds \/ Reading))
  /\ WF_vars(GetTimesOut)
  /\ WF_vars(Goroutine)
  /\ WF_vars(Extractor)

-----------------------------------------------------------------------------
TypeOK ==
  /\ scenario \in Scenarios
  /\ backend \in {"open", "copy", "failed", "done"}
  /\ sent \in Nat
  /\ get \in {"wait", "nil", "error"}
  /\ writer \in {"open", "eof", "error"}
  /\ reader \in {"open", "closed"}
  /\ extractor \in {"header", "body", "finish", "returned"}
  /\ current \in Nat
  /\ ws \in [Name -> Entry]
  /\ ret \in {"none", "ok", "error"}

(* A path that was absent or of the same kind, and that no link leads to. *)
Fresh(m) ==
  /\ scenario.before[m.name].kind \in {"absent", m.kind}
  /\ m.name # Elsewhere

Excess(m) ==
  IF scenario.before[m.name].old > m.size
    THEN scenario.before[m.name].old - m.size ELSE 0

(***************************************************************************)
(* After a successful restore every member that was in the object is in    *)
(* the workspace, with all of its content; of what was there before only   *)
(* the end of a file that was longer is left.                              *)
(***************************************************************************)
SuccessRestoresMembers ==
  ret = "ok" =>
    \A i \in DOMAIN scenario.members :
      LET m == scenario.members[i]
      IN /\ \E n \in 1..scenario.stored : Archive[n] = [at |-> "head", member |-> i]
         /\ Fresh(m)
         => /\ ws[m.name].kind = m.kind
            /\ m.kind = "file" => ws[m.name].new = m.size /\ ws[m.name].old = Excess(m)

(***************************************************************************)
(* A restore succeeds only when Extract has seen the trailer, or when the  *)
(* backend delivered all there is without an error and it is a plain       *)
(* archive or an empty zstd object: a download that fails or times out is  *)
(* never taken for the end, and a truncated compressed archive is never    *)
(* taken for a whole one.                                                  *)
(***************************************************************************)
SuccessSawTheEnd ==
  extractor = "finish" \/ ret = "ok" =>
    \/ sent > 0 /\ Archive[sent].at = "trailer"
    \/ /\ sent = scenario.stored /\ get = "nil"
       /\ scenario.format = "tar" \/ (scenario.format = "zstd" /\ scenario.stored = 0)

(***************************************************************************)
(* With preserve-metadata, a successful restore leaves every directory of  *)
(* the archive with its archived times, although files were created in it  *)
(* after it.                                                               *)
(***************************************************************************)
DirectoriesKeepTheirTimes ==
  ret = "ok" /\ scenario.preserve => \A n \in ExtractedDirs : ws[n].timed

(***************************************************************************)
(* restore() implements the contract of Download.  It changes nothing but  *)
(* the paths the object names, directories that were missing around them,  *)
(* and what a link points to that stood where a file belongs; it succeeds  *)
(* only with all that the object has, up to the trailer if the archive is  *)
(* compressed and not an empty zstd object; and Extract has come to rest   *)
(* when it returns.                                                        *)
(***************************************************************************)
Listed ==
  {scenario.members[i] : i \in {k \in DOMAIN scenario.members :
     /\ scenario.members[k].kind # "refused"
     /\ \E n \in 1..scenario.stored : Archive[n].at = "head" /\ Archive[n].member = k}}

Was(n, kind) == scenario.before[n].kind = kind

reach ==
  {m.name : m \in Listed}
  \cup {Parent[m.name] : m \in {l \in Listed : l.name # Root /\ Was(Parent[l.name], "absent")}}
  \cup {n \in {Elsewhere} : \E m \in Listed : m.kind = "file" /\ Was(m.name, "link")}

complete ==
  /\ sent = scenario.stored
  /\ \/ sent > 0 /\ Archive[sent].at = "trailer"
     \/ scenario.format = "tar"
     \/ scenario.format = "zstd" /\ scenario.stored = 0

content == [n \in Name |-> [kind |-> ws[n].kind, new |-> ws[n].new, old |-> ws[n].old]]

Contract == INSTANCE Download WITH result <- ret

ImplementsDownload == Contract!Spec

(* A restore returns, and the downloading goroutine does not outlive it. *)
RestoreEnds == <>(ret # "none" /\ writer # "open")

(***************************************************************************)
(* "Extract reads content from the given archive reader and restores it to *)
(* the destination": the files of the archive are then as they were saved. *)
(***************************************************************************)
SuccessRestoresContent ==
  ret = "ok" =>
    \A i \in DOMAIN scenario.members :
      LET m == scenario.members[i]
      IN m.kind = "file" /\ Fresh(m) /\ ws[m.name].new > 0 => ws[m.name].old = 0
=============================================================================
