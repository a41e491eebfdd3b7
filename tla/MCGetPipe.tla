----------------------------- MODULE MCGetPipe -----------------------------
(* Small instances of GetPipe: a directory with a file and a link. *)
EXTENDS GetPipe

MCParent == [n \in Name \ {Root} |-> IF n \in {"file", "link"} THEN "dir" ELSE Root]

Thing(k, old) == [kind |-> k, new |-> 0, old |-> old, timed |-> FALSE]
Nothing == Thing("absent", 0)
M(n, k, size) == [name |-> n, kind |-> k, size |-> size]

(* Directories come before what is in them, as filepath.Walk lists them. *)
Tree      == <<M("dir", "dir", 0), M("file", "file", 2), M("link", "link", 0)>>
FileOnly  == <<M("file", "file", 1), M("link", "file", 0)>>
Outside   == <<M("dir", "dir", 0), M("file", "refused", 0)>>
(* The link of the workspace leads to a file that the archive has as well. *)
Through   == <<M("elsewhere", "file", 1), M("link", "file", 2)>>

MCWorkspace(dir, file, link) ==
  [n \in Name |-> CASE n = Root -> Thing("dir", 0) [] n = "dir" -> dir
                    [] n = "file" -> file [] n = "link" -> link [] OTHER -> Nothing]

Directory == Thing("dir", 0)

Workspaces ==
  {MCWorkspace(Nothing, Nothing, Nothing), MCWorkspace(Thing("file", 1), Nothing, Nothing),
   MCWorkspace(Directory, Thing("dir", 0), Nothing)} \cup
  {MCWorkspace(Directory, f, l) : f \in {Nothing, Thing("file", 1), Thing("file", 3), Thing("link", 0)},
                                l \in {Nothing, Thing("dir", 0), Thing("link", 0)}}

Cases(members, blocks) ==
  [members: {members}, format: Format, preserve: BOOLEAN, direct: BOOLEAN,
   stored: 0..blocks, before: Workspaces]

MCScenarios == Cases(Tree, 6) \cup Cases(FileOnly, 4) \cup Cases(Outside, 3) \cup Cases(Through, 6)
PlainScenarios == {s \in Cases(Tree, 6) : ~ s.preserve}
=============================================================================
