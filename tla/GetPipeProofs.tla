--------------------------- MODULE GetPipeProofs ---------------------------
(***************************************************************************)
(* Proofs about GetPipe, for every archive, workspace and backend.  The    *)
(* end of the stream that Extract takes for the end of the archive is one  *)
(* (CopyInv).  Extract goes through the blocks of the archive in step with *)
(* the pipe (PlaceInv), so that whatever it has passed is in the workspace *)
(* as it was saved (MembersInv), and directories get their times at last.  *)
(***************************************************************************)
EXTENDS GetPipe, SequenceLemmas, TLAPS

(***************************************************************************)
(* What each side of the pipe knows of the other.  The writing end reports *)
(* the end of file only after Get has returned nil, Get returns nil only   *)
(* after the whole copy, and the copy does not go on after it has ended.   *)
(***************************************************************************)
Ended ==
  extractor = "finish" \/ ret = "ok" =>
    \/ sent > 0 /\ Archive[sent].at = "trailer"
    \/ EndsWell /\ writer = "eof"

CopyInv ==
  /\ sent \in Nat
  /\ backend = "done" => sent = scenario.stored
  /\ get = "nil" => backend = "done"
  /\ writer = "eof" => get = "nil"
  /\ ret = "ok" => extractor = "returned"
  /\ Ended

LEMMA InitCopy == Init => CopyInv
BY DEF Init, CopyInv, Ended

(* A block that is read leaves the goroutine of the download where it is. *)
LEMMA ReadingCopy ==
  ASSUME CopyInv, Reading
  PROVE  CopyInv'
<1>1. PICK at \in {"head", "body", "trailer"} :
        /\ Next1(at)
        /\ extractor' = "finish" => at = "trailer"
        /\ ret' = "ok" => ret = "ok"
        /\ ret' = "ok" => extractor' = "returned"
        /\ extractor \in {"header", "body"}
  BY DEF Reading, ReadHeader, ReadBody, ReadTrailer, Fail, CopyInv
<1>2. sent' \in Nat /\ sent' > 0 /\ Archive' = Archive
  BY <1>1 DEF Next1, CopyInv, Archive
<1>3. at = "trailer" => Archive'[sent'].at = "trailer"
  BY <1>1, <1>2 DEF Next1
<1>4. ret' # "ok"
  BY <1>1 DEF CopyInv
<1>5. Ended'
  BY <1>1, <1>2, <1>3, <1>4 DEF Ended
<1>6. QED
  BY <1>1, <1>2, <1>4, <1>5 DEF CopyInv, Next1

LEMMA NextCopy == CopyInv /\ [Next]_vars => CopyInv'
<1> SUFFICES ASSUME CopyInv, [Next]_vars PROVE CopyInv'
  OBVIOUS
<1>1. ASSUME UNCHANGED <<scenario, sent>> PROVE Archive' = Archive /\ EndsWell' = EndsWell
  BY <1>1 DEF Archive, EndsWell
<1>2. CASE GetOpens \/ GetFails \/ GetRefused \/ CopyEnds
  <2>1. UNCHANGED <<scenario, sent, get, writer>> /\ UNCHANGED extractVars
    BY <1>2 DEF GetOpens, GetFails, GetRefused, CopyEnds
  <2>2. backend # "done" /\ (backend' = "done" => sent = scenario.stored)
    BY <1>2 DEF GetOpens, GetFails, GetRefused, CopyEnds
  <2>3. QED
    BY <1>1, <2>1, <2>2 DEF CopyInv, Ended, extractVars
<1>3. CASE GetReturns \/ GetTimesOut
  <2>1. UNCHANGED <<scenario, backend, sent, writer>> /\ UNCHANGED extractVars
    BY <1>3 DEF GetReturns, GetTimesOut
  <2>2. get = "wait" /\ (get' = "nil" => backend = "done")
    BY <1>3 DEF GetReturns, GetTimesOut
  <2>3. QED
    BY <1>1, <2>1, <2>2 DEF CopyInv, Ended, extractVars
<1>4. CASE CloseWriter
  <2>1. UNCHANGED <<scenario, backend, sent, get>> /\ UNCHANGED extractVars
    BY <1>4 DEF CloseWriter
  <2>2. writer = "open" /\ (writer' = "eof" => get = "nil")
    BY <1>4 DEF CloseWriter, Closing
  <2>3. QED
    BY <1>1, <2>1, <2>2 DEF CopyInv, Ended, extractVars
<1>5. CASE Reading
  BY <1>5, ReadingCopy
<1>6. CASE ReadEOF \/ ReadError
  <2>1. UNCHANGED <<scenario, backend, sent, get, writer>>
    BY <1>6 DEF ReadEOF, ReadError, getVars
  <2>2. /\ extractor # "returned" /\ ret' # "ok"
        /\ extractor' = "finish" => EndsWell /\ writer = "eof"
    BY <1>6 DEF ReadEOF, ReadError, Fail, CopyInv
  <2>3. QED
    BY <1>1, <2>1, <2>2 DEF CopyInv, Ended
<1>7. CASE Finish
  <2>1. UNCHANGED <<scenario, backend, sent, get, writer>>
    BY <1>7 DEF Finish, getVars
  <2>2. extractor = "finish" /\ extractor' = "returned"
    BY <1>7 DEF Finish
  <2>3. QED
    BY <1>1, <2>1, <2>2 DEF CopyInv, Ended
<1>8. CASE UNCHANGED vars
  BY <1>1, <1>8 DEF CopyInv, Ended, vars
<1>9. QED
  BY <1>2, <1>3, <1>4, <1>5, <1>6, <1>7, <1>8 DEF Next, Request, Goroutine, Extractor

(***************************************************************************)
(* A failed or timed out download is never taken for the end of an         *)
(* archive: restore() succeeds only after the trailer, or after all that   *)
(* the object has, if it is plain or an empty one of zstd.                 *)
(***************************************************************************)
THEOREM SpecSuccessSawTheEnd == Spec => []SuccessSawTheEnd
<1>1. CopyInv => SuccessSawTheEnd
  BY DEF CopyInv, Ended, EndsWell, SuccessSawTheEnd
<1>2. QED
  BY <1>1, InitCopy, NextCopy, PTL DEF Spec

-----------------------------------------------------------------------------
(* How an archive is laid out. *)

Block == [at: {"head", "body"}, member: Nat]

LEMMA BlocksType ==
  ASSUME NEW m \in Member, NEW i \in Nat
  PROVE  /\ Blocks(m, i) \in Seq(Block)
         /\ Len(Blocks(m, i)) >= 1
         /\ Blocks(m, i)[1] = [at |-> "head", member |-> i]
         /\ \A k \in 1..Len(Blocks(m, i)) :
              Blocks(m, i)[k].member = i /\ (Blocks(m, i)[k].at = "head" => k = 1)
<1> DEFINE h == <<[at |-> "head", member |-> i]>>
           b == [k \in 1..m.size |-> [at |-> "body", member |-> i]]
<1>1. m.size \in Nat
  BY DEF Member
<1>2. h \in Seq(Block) /\ Len(h) = 1 /\ h[1] = [at |-> "head", member |-> i]
  BY DEF Block
<1>3. b \in Seq(Block) /\ Len(b) = m.size
  <2>1. b \in [1..m.size -> Block]
    BY DEF Block
  <2>2. QED
    BY <1>1, <2>1, FunctionIsSeq
<1>4. \A k \in 1..Len(b) : b[k] = [at |-> "body", member |-> i]
  BY <1>1, <1>3
<1> HIDE DEF h, b
<1>5. Blocks(m, i) = h \o b
  BY DEF Blocks, h, b
<1>6. /\ h \o b \in Seq(Block) /\ Len(h \o b) = 1 + Len(b) /\ Len(b) \in Nat
      /\ (h \o b)[1] = h[1]
      /\ \A j \in 1..Len(b) : (h \o b)[1 + j] = b[j]
  <2>1. /\ h \o b \in Seq(Block) /\ Len(h \o b) = Len(h) + Len(b) /\ Len(b) \in Nat
        /\ \A x \in 1..Len(h) : (h \o b)[x] = h[x]
        /\ \A j \in 1..Len(b) : (h \o b)[Len(h) + j] = b[j]
    <3>1. h \in Seq(Block) /\ b \in Seq(Block)
      BY <1>2, <1>3
    <3>2. QED
      BY <3>1, ConcatParts
  <2>2. 1 \in 1..Len(h)
    BY <1>2
  <2>3. QED
    BY <1>2, <2>1, <2>2
<1>7. ASSUME NEW k \in 1..Len(h \o b)
      PROVE  (h \o b)[k].member = i /\ ((h \o b)[k].at = "head" => k = 1)
  <2>1. CASE k = 1
    BY <1>2, <1>6, <2>1
  <2>2. CASE k # 1
    <3>1. k - 1 \in 1..Len(b) /\ k = 1 + (k - 1)
      BY <1>6, <2>2
    <3>2. (h \o b)[k] = b[k-1]
      BY <1>6, <3>1
    <3>3. QED
      BY <1>4, <3>1, <3>2
  <2>3. QED
    BY <2>1, <2>2
<1>8. QED
  BY <1>2, <1>5, <1>6, <1>7

(***************************************************************************)
(* Every header block is that of one member and stands in one place; the   *)
(* trailer is the last block and no other.                                 *)
(***************************************************************************)
LEMMA ArchiveShape ==
  ASSUME NEW members \in Seq(Member)
  PROVE  /\ Len(ArchiveOf(members)) \in Nat
         /\ \A n \in 1..Len(ArchiveOf(members)) :
              /\ ArchiveOf(members)[n].at = "trailer" => n = Len(ArchiveOf(members))
              /\ ArchiveOf(members)[n].at = "head" =>
                   ArchiveOf(members)[n].member \in DOMAIN members
         /\ \A n1, n2 \in 1..Len(ArchiveOf(members)) :
              /\ ArchiveOf(members)[n1].at = "head"
              /\ ArchiveOf(members)[n2].at = "head"
              /\ ArchiveOf(members)[n1].member = ArchiveOf(members)[n2].member
              => n1 = n2
<1> DEFINE seqs == [i \in DOMAIN members |-> Blocks(members[i], i)]
           flat == FlattenSeq(seqs)
           t == <<[at |-> "trailer", member |-> 0]>>
           A == ArchiveOf(members)
<1>1. \A i \in DOMAIN members : members[i] \in Member /\ i \in Nat
  OBVIOUS
<1>2. seqs \in Seq(Seq(Block)) /\ Len(seqs) = Len(members)
        /\ DOMAIN members = 1..Len(members)
  <2>1. Len(members) \in Nat /\ DOMAIN members = 1..Len(members)
    OBVIOUS
  <2>2. \A i \in DOMAIN members : Blocks(members[i], i) \in Seq(Block)
    BY <1>1, BlocksType
  <2>3. seqs \in [1..Len(members) -> Seq(Block)]
    BY <2>1, <2>2
  <2>4. QED
    BY <2>1, <2>3, FunctionIsSeq
<1>3. flat \in Seq(Block) /\ \E start : Layout(seqs, flat, start)
  BY <1>2, FlattenSeqLayout
<1>4. PICK start : Layout(seqs, flat, start)
  BY <1>3
<1>5. ASSUME NEW n \in 1..Len(flat)
      PROVE  /\ flat[n].at # "trailer"
             /\ flat[n].member \in DOMAIN members
             /\ flat[n].at = "head" => n = start[flat[n].member] + 1
  <2>1. PICK i \in 1..Len(seqs) : \E k \in 1..Len(seqs[i]) : n = start[i] + k
    BY <1>4 DEF Layout, Placed
  <2>2. PICK k \in 1..Len(seqs[i]) : n = start[i] + k
    BY <2>1
  <2>3. flat[n] = seqs[i][k]
    BY <1>4, <2>2 DEF Layout, Placed
  <2>4. i \in DOMAIN members /\ seqs[i] = Blocks(members[i], i)
    BY <1>2
  <2>5. flat[n].member = i /\ (flat[n].at = "head" => k = 1)
    <3>1. members[i] \in Member /\ i \in Nat /\ k \in 1..Len(Blocks(members[i], i))
      BY <1>1, <2>2, <2>4
    <3>2. /\ Blocks(members[i], i)[k].member = i
          /\ Blocks(members[i], i)[k].at = "head" => k = 1
      BY <3>1, BlocksType
    <3>3. QED
      BY <2>3, <2>4, <3>2
  <2>6. flat[n] \in Block
    BY <1>3
  <2>7. QED
    BY <2>2, <2>4, <2>5, <2>6 DEF Block
<1>6. t \in Seq([at: {"trailer"}, member: {0}]) /\ Len(t) = 1
        /\ t[1] = [at |-> "trailer", member |-> 0]
  OBVIOUS
<1> DEFINE S == Block \cup {[at |-> "trailer", member |-> 0]}
<1>7. flat \in Seq(S) /\ t \in Seq(S)
  <2>1. \A n \in 1..Len(flat) : flat[n] \in S
    BY <1>3
  <2>2. QED
    BY <1>3, <2>1
<1> HIDE DEF flat, seqs, t, S
<1>8. /\ A = flat \o t
      /\ Len(flat) \in Nat /\ Len(A) = Len(flat) + 1
      /\ \A n \in 1..Len(flat) : A[n] = flat[n]
      /\ A[Len(flat) + 1] = t[1]
  <2>1. A = flat \o t
    BY DEF ArchiveOf, flat, seqs, t
  <2>2. /\ Len(flat) \in Nat /\ Len(flat \o t) = Len(flat) + Len(t)
        /\ \A n \in 1..Len(flat) : (flat \o t)[n] = flat[n]
        /\ \A j \in 1..Len(t) : (flat \o t)[Len(flat) + j] = t[j]
    BY <1>7, ConcatParts
  <2>3. 1 \in 1..Len(t)
    BY <1>6
  <2>4. QED
    BY <1>6, <2>1, <2>2, <2>3
<1> HIDE DEF A
<1>9. ASSUME NEW n \in 1..Len(A), n # Len(A)
      PROVE  n \in 1..Len(flat) /\ A[n] = flat[n]
  BY <1>8, <1>9
<1>10. A[Len(A)].at = "trailer"
  BY <1>6, <1>8
<1>11. \A n \in 1..Len(A) :
         /\ A[n].at = "trailer" => n = Len(A)
         /\ A[n].at = "head" => A[n].member \in DOMAIN members /\ n = start[A[n].member] + 1
  BY <1>5, <1>9, <1>10
<1>12. \A n1, n2 \in 1..Len(A) :
         A[n1].at = "head" /\ A[n2].at = "head" /\ A[n1].member = A[n2].member => n1 = n2
  BY <1>11
<1>13. QED
  BY <1>8, <1>11, <1>12 DEF A

-----------------------------------------------------------------------------
(* Types, and what the extractor knows of the member it is at. *)

(* The header of a member went through the pipe. *)
Sent(i) ==
  \E n \in 1..sent : Archive[n].at = "head" /\ Archive[n].member = i

PlaceInv ==
  /\ TypeOK
  /\ sent <= scenario.stored
  /\ current \in {0} \cup DOMAIN scenario.members
  /\ extractor = "body" =>
       /\ current \in DOMAIN scenario.members
       /\ scenario.members[current].kind = "file"
       /\ Sent(current)
  /\ ret = "none" <=> extractor # "returned"

(* What is left of old blocks after k new ones were written over them. *)
Rest(old, k) == IF old > k THEN old - k ELSE 0

(* A path is as it was, or a directory that had to be there was created. *)
Untouched(n) ==
  LET b == scenario.before[n]
  IN /\ ws[n].kind = b.kind \/ (b.kind = "absent" /\ ws[n].kind = "dir")
     /\ ws[n].new = 0 /\ ws[n].old = b.old

InProgress(i) == extractor = "body" /\ current = i

(* How far a member of the archive is that the workspace does not hinder. *)
Extracted(i) ==
  LET m == scenario.members[i]
      e == ws[m.name]
  IN /\ e.kind = m.kind
     /\ m.kind = "file" =>
          /\ e.old = Rest(scenario.before[m.name].old, e.new)
          /\ IF InProgress(i) THEN e.new < m.size ELSE e.new = m.size

MembersInv ==
  ret # "error" =>
    \A i \in DOMAIN scenario.members :
      Fresh(scenario.members[i]) =>
        IF Sent(i) THEN Extracted(i) ELSE Untouched(scenario.members[i].name)

LEMMA ScenarioFacts ==
  ASSUME scenario \in Scenarios
  PROVE  /\ scenario.members \in Seq(Member)
         /\ \A i \in DOMAIN scenario.members :
              i \in Nat \ {0} /\ scenario.members[i] \in Member /\ scenario.members[i].name \in Name
                /\ scenario.members[i].size \in Nat
         /\ \A i, j \in DOMAIN scenario.members :
              scenario.members[i].name = scenario.members[j].name => i = j
         /\ scenario.before \in [Name -> Entry]
         /\ \A n \in Name :
              /\ scenario.before[n].new = 0
              /\ scenario.before[n].kind # "file" => scenario.before[n].old = 0
         /\ scenario.stored \in Nat /\ scenario.stored <= Len(Archive)
         /\ scenario.preserve \in BOOLEAN
<1>1. /\ scenario.members \in Walk /\ scenario.before \in Workspace
      /\ scenario.stored \in Nat /\ scenario.preserve \in BOOLEAN
      /\ scenario.stored <= Len(Archive)
  BY GetPipeAssumption DEF Scenario, Archive
<1>2. scenario.members \in Seq(Member)
  BY <1>1 DEF Walk
<1>3. \A i \in DOMAIN scenario.members : i \in Nat \ {0} /\ scenario.members[i] \in Member
  BY <1>2
<1>4. QED
  BY <1>1, <1>2, <1>3 DEF Walk, Workspace, Member

-----------------------------------------------------------------------------
(* What the file operations of Extract do to a workspace. *)

SameContent(e, f) == e.kind = f.kind /\ e.new = f.new /\ e.old = f.old

LEMMA TouchedEffect ==
  ASSUME NEW w \in [Name -> Entry], NEW n \in Name
  PROVE  /\ Touched(w, n) \in [Name -> Entry]
         /\ \A x \in Name : SameContent(Touched(w, n)[x], w[x])
<1>1. n # Root => Parent[n] \in Name
  BY GetPipeAssumption
<1>2. QED
  BY <1>1 DEF Touched, SameContent, Entry

LEMMA CreatedEffect ==
  ASSUME NEW w \in [Name -> Entry], NEW n \in Name, NEW kind \in Kind
  PROVE  /\ Created(w, n, kind) \in [Name -> Entry]
         /\ Created(w, n, kind)[n] = [kind |-> kind, new |-> 0, old |-> 0, timed |-> FALSE]
         /\ \A x \in Name \ {n} : SameContent(Created(w, n, kind)[x], w[x])
<1>1. /\ Touched(w, n) \in [Name -> Entry]
      /\ \A x \in Name : SameContent(Touched(w, n)[x], w[x])
  BY TouchedEffect
<1>2. [kind |-> kind, new |-> 0, old |-> 0, timed |-> FALSE] \in Entry
  BY DEF Entry
<1>3. QED
  BY <1>1, <1>2 DEF Created

LEMMA WithParentEffect ==
  ASSUME NEW w \in [Name -> Entry], NEW n \in Name
  PROVE  /\ WithParent(w, n) \in [Name -> Entry]
         /\ SameContent(WithParent(w, n)[n], w[n])
         /\ \A x \in Name :
              \/ SameContent(WithParent(w, n)[x], w[x])
              \/ /\ n # Root /\ x = Parent[n]
                 /\ w[x].kind = "absent"
                 /\ WithParent(w, n)[x].kind = "dir"
                 /\ WithParent(w, n)[x].new = 0
                 /\ WithParent(w, n)[x].old = 0
<1>1. n # Root => Parent[n] \in Name /\ Parent[n] # n
  BY GetPipeAssumption
<1>2. CASE n # Root /\ w[Parent[n]].kind = "absent"
  <2>1. "dir" \in Kind /\ WithParent(w, n) = Created(w, Parent[n], "dir")
    BY <1>2 DEF WithParent, Kind
  <2>2. /\ Created(w, Parent[n], "dir") \in [Name -> Entry]
        /\ Created(w, Parent[n], "dir")[Parent[n]] = [kind |-> "dir", new |-> 0, old |-> 0, timed |-> FALSE]
        /\ \A x \in Name \ {Parent[n]} : SameContent(Created(w, Parent[n], "dir")[x], w[x])
    BY <1>1, <1>2, <2>1, CreatedEffect
  <2>3. QED
    BY <1>1, <1>2, <2>1, <2>2
<1>3. CASE ~ (n # Root /\ w[Parent[n]].kind = "absent")
  BY <1>3 DEF WithParent, SameContent
<1>4. QED
  BY <1>2, <1>3

LEMMA OpenEffect ==
  ASSUME NEW w \in [Name -> Entry], NEW n \in Name
  PROVE  /\ Open(w, n) \in [Name -> Entry]
         /\ Open(w, n)[n].new = 0
         /\ w[n].kind = "absent" => Open(w, n)[n].kind = "file" /\ Open(w, n)[n].old = 0
         /\ w[n].kind # "absent" =>
              Open(w, n)[n].kind = w[n].kind /\ Open(w, n)[n].old = w[n].new + w[n].old
         /\ \A x \in Name \ {n} : SameContent(Open(w, n)[x], w[x])
<1>1. CASE w[n].kind = "absent"
  <2>1. "file" \in Kind /\ Open(w, n) = Created(w, n, "file")
    BY <1>1 DEF Open, Kind
  <2>2. /\ Created(w, n, "file") \in [Name -> Entry]
        /\ Created(w, n, "file")[n] = [kind |-> "file", new |-> 0, old |-> 0, timed |-> FALSE]
        /\ \A x \in Name \ {n} : SameContent(Created(w, n, "file")[x], w[x])
    BY <2>1, CreatedEffect
  <2>3. QED
    BY <1>1, <2>1, <2>2
<1>2. CASE w[n].kind # "absent"
  <2> DEFINE e == [kind |-> w[n].kind, new |-> 0, old |-> w[n].new + w[n].old,
                   timed |-> w[n].timed]
  <2>1. w[n] \in Entry /\ w[n].new + w[n].old \in Nat
    BY DEF Entry
  <2>2. e \in Entry
    BY <2>1 DEF Entry
  <2>3. Open(w, n) = [w EXCEPT ![n] = e]
    <3>1. Open(w, n) = [w EXCEPT ![n].new = 0, ![n].old = w[n].new + w[n].old]
      BY <1>2 DEF Open
    <3>2. PICK k \in Kind, a \in Nat, b \in Nat, t \in BOOLEAN :
            w[n] = [kind |-> k, new |-> a, old |-> b, timed |-> t]
      BY <2>1 DEF Entry
    <3>3. [w EXCEPT ![n].new = 0]
            = [w EXCEPT ![n] = [kind |-> k, new |-> 0, old |-> b, timed |-> t]]
      <4>1. [[kind |-> k, new |-> a, old |-> b, timed |-> t] EXCEPT !.new = 0]
              = [kind |-> k, new |-> 0, old |-> b, timed |-> t]
        OBVIOUS
      <4>2. QED
        BY <3>2, <4>1
    <3>4. QED
      BY <3>1, <3>2, <3>3
  <2>4. QED
    BY <1>2, <2>2, <2>3 DEF SameContent
<1>3. QED
  BY <1>1, <1>2

LEMMA StampEffect ==
  ASSUME NEW w \in [Name -> Entry], NEW n \in Name, scenario \in Scenarios
  PROVE  /\ Stamp(w, n) \in [Name -> Entry]
         /\ scenario.preserve => Stamp(w, n)[n].timed
         /\ \A x \in Name : SameContent(Stamp(w, n)[x], w[x])
BY ScenarioFacts DEF Stamp, Entry, SameContent

LEMMA OpenedName ==
  ASSUME ws \in [Name -> Entry], NEW n \in Name
  PROVE  /\ Opened(n) \in Name
         /\ Opened(n) \in {n, Elsewhere}
         /\ ws[n].kind # "link" => Opened(n) = n
BY GetPipeAssumption DEF Opened

LEMMA StampMadeEffect ==
  ASSUME scenario \in Scenarios, ws \in [Name -> Entry], NEW w \in [Name -> Entry], NEW m \in Member
  PROVE  /\ StampMade(w, m) \in [Name -> Entry]
         /\ \A x \in Name : SameContent(StampMade(w, m)[x], w[x])
<1>1. m.name \in Name /\ Opened(m.name) \in Name
  BY OpenedName DEF Member
<1>2. \A x \in Name : SameContent(w[x], w[x])
  BY DEF SameContent
<1>3. \/ StampMade(w, m) = w
      \/ StampMade(w, m) = Stamp(w, m.name)
      \/ StampMade(w, m) = Stamp(w, Opened(m.name))
  BY DEF StampMade
<1>4. QED
  BY <1>1, <1>2, <1>3, StampEffect

(***************************************************************************)
(* A member is made: its own path becomes what it has to be, a regular     *)
(* file keeps its old blocks, and of the other paths only the directory    *)
(* around it may appear, or what a link points to change.                  *)
(***************************************************************************)
LEMMA MadeEffect ==
  ASSUME ws \in [Name -> Entry], NEW m \in Member, Possible(m)
  PROVE  /\ Made(m) \in [Name -> Entry]
         /\ m.kind \in {"dir", "link"} => Made(m)[m.name].kind = m.kind
         /\ m.kind = "file" /\ ws[m.name].kind # "link" =>
              /\ Made(m)[m.name].kind = "file"
              /\ Made(m)[m.name].new = 0
              /\ Made(m)[m.name].old =
                   IF ws[m.name].kind = "absent" THEN 0 ELSE ws[m.name].new + ws[m.name].old
         /\ \A x \in Name \ {m.name, Elsewhere} :
              \/ SameContent(Made(m)[x], ws[x])
              \/ /\ ws[x].kind = "absent"
                 /\ Made(m)[x].kind = "dir"
                 /\ Made(m)[x].new = 0 /\ Made(m)[x].old = 0
<1> DEFINE w == WithParent(ws, m.name)
<1>1. m.name \in Name /\ m.kind \in {"dir", "file", "link"}
  BY DEF Member, Possible
<1>2. /\ w \in [Name -> Entry]
      /\ SameContent(w[m.name], ws[m.name])
      /\ \A x \in Name :
           \/ SameContent(w[x], ws[x])
           \/ ws[x].kind = "absent" /\ w[x].kind = "dir" /\ w[x].new = 0 /\ w[x].old = 0
  BY <1>1, WithParentEffect
<1> HIDE DEF w
<1>3. ASSUME NEW v \in [Name -> Entry], Made(m) = v,
             \A x \in Name \ {m.name, Elsewhere} : SameContent(v[x], w[x])
      PROVE  \A x \in Name \ {m.name, Elsewhere} :
               \/ SameContent(Made(m)[x], ws[x])
               \/ /\ ws[x].kind = "absent"
                  /\ Made(m)[x].kind = "dir"
                  /\ Made(m)[x].new = 0 /\ Made(m)[x].old = 0
  BY <1>2, <1>3 DEF SameContent
<1>4. CASE m.kind = "dir"
  <2>1. Made(m) = IF w[m.name].kind = "dir" THEN w ELSE Created(w, m.name, "dir")
    BY <1>4 DEF Made, w
  <2>2. CASE w[m.name].kind = "dir"
    BY <1>1, <1>2, <1>3, <1>4, <2>1, <2>2 DEF SameContent
  <2>3. CASE w[m.name].kind # "dir"
    <3>1. "dir" \in Kind
      BY DEF Kind
    <3>2. /\ Made(m) \in [Name -> Entry]
          /\ Made(m)[m.name].kind = "dir"
          /\ \A x \in Name \ {m.name} : SameContent(Made(m)[x], w[x])
      <4>1. /\ Created(w, m.name, "dir") \in [Name -> Entry]
            /\ Created(w, m.name, "dir")[m.name]
                 = [kind |-> "dir", new |-> 0, old |-> 0, timed |-> FALSE]
            /\ \A x \in Name \ {m.name} : SameContent(Created(w, m.name, "dir")[x], w[x])
        BY <1>1, <1>2, <2>1, <2>3, <3>1, CreatedEffect
      <4>2. QED
        BY <1>1, <1>2, <2>1, <2>3, <3>1, <4>1
    <3>3. QED
      BY <1>3, <1>4, <3>2
  <2>4. QED
    BY <2>2, <2>3
<1>5. CASE m.kind = "file"
  <2>1. Made(m) = Open(w, Opened(m.name))
    BY <1>5 DEF Made, w
  <2>2. Opened(m.name) \in Name /\ Opened(m.name) \in {m.name, Elsewhere}
    BY <1>1, OpenedName
  <2>3. ws[Opened(m.name)].kind \in {"absent", "file"}
    BY <1>5 DEF Possible
  <2>4. /\ Made(m) \in [Name -> Entry]
        /\ \A x \in Name \ {m.name, Elsewhere} : SameContent(Made(m)[x], w[x])
    BY <1>2, <2>1, <2>2, OpenEffect
  <2>5. ASSUME ws[m.name].kind # "link"
        PROVE  /\ Made(m)[m.name].kind = "file"
               /\ Made(m)[m.name].new = 0
               /\ Made(m)[m.name].old =
                    IF ws[m.name].kind = "absent" THEN 0 ELSE ws[m.name].new + ws[m.name].old
    <3>1. Opened(m.name) = m.name /\ ws[m.name].kind \in {"absent", "file"}
      BY <1>1, <2>3, <2>5, OpenedName
    <3>2. w[m.name].kind = ws[m.name].kind /\ w[m.name].new = ws[m.name].new
            /\ w[m.name].old = ws[m.name].old
      BY <1>2 DEF SameContent
    <3>3. QED
      BY <1>1, <1>2, <2>1, <3>1, <3>2, OpenEffect
  <2>6. QED
    BY <1>3, <1>5, <2>4, <2>5
<1>6. CASE m.kind = "link"
  <2>1. Made(m) = Created(w, m.name, "link") /\ "link" \in Kind
    BY <1>6 DEF Made, w, Kind
  <2>2. /\ Made(m) \in [Name -> Entry]
        /\ Made(m)[m.name].kind = "link"
        /\ \A x \in Name \ {m.name} : SameContent(Made(m)[x], w[x])
    <3>1. /\ Created(w, m.name, "link") \in [Name -> Entry]
          /\ Created(w, m.name, "link")[m.name]
               = [kind |-> "link", new |-> 0, old |-> 0, timed |-> FALSE]
          /\ \A x \in Name \ {m.name} : SameContent(Created(w, m.name, "link")[x], w[x])
      BY <1>1, <1>2, <2>1, CreatedEffect
    <3>2. QED
      BY <1>1, <1>2, <2>1, <3>1
  <2>3. QED
    BY <1>3, <1>6, <2>2
<1>7. QED
  BY <1>1, <1>4, <1>5, <1>6

LEMMA RemovedEffect ==
  ASSUME NEW w \in [Name -> Entry], NEW n \in Name
  PROVE  /\ Removed(w, n) \in [Name -> Entry]
         /\ \A x \in Name \ {n} : SameContent(Removed(w, n)[x], w[x])
<1>1. Removed(w, n) = Created(w, n, "absent") /\ "absent" \in Kind
  BY DEF Removed, Created, Kind
<1>2. QED
  BY <1>1, CreatedEffect

(***************************************************************************)
(* A member that fails disturbs no more than making it would have: its own *)
(* path, the directory around it, what a link in its place points to.      *)
(***************************************************************************)
LEMMA HalfMadeEffect ==
  ASSUME ws \in [Name -> Entry], NEW m \in Member, HalfMade(m)
  PROVE  /\ ws' \in [Name -> Entry]
         /\ \A x \in Name :
              \/ SameContent(ws'[x], ws[x])
              \/ m.kind # "refused" /\ x = m.name
              \/ m.kind = "file" /\ x = Opened(m.name)
              \/ /\ m.kind # "refused" /\ m.name # Root /\ x = Parent[m.name]
                 /\ ws[x].kind = "absent"
<1> DEFINE w == WithParent(ws, m.name)
<1>1. m.name \in Name /\ \A x \in Name : SameContent(ws[x], ws[x])
  BY DEF Member, SameContent
<1>2. /\ w \in [Name -> Entry]
      /\ \A x \in Name : \/ SameContent(w[x], ws[x])
                         \/ m.name # Root /\ x = Parent[m.name] /\ ws[x].kind = "absent"
  BY <1>1, WithParentEffect
<1> HIDE DEF w
<1>3. CASE UNCHANGED ws
  BY <1>1, <1>3
<1>4. CASE m.kind # "refused" /\ ws' = w
  BY <1>2, <1>4
<1>5. CASE m.kind = "file" /\ Possible(m) /\ ws' = Made(m)
  <2>1. ws' \in [Name -> Entry] /\ Opened(m.name) \in Name
    BY <1>1, <1>5, MadeEffect, OpenedName
  <2>2. ws' = Open(w, Opened(m.name))
    BY <1>5 DEF Made, w
  <2>3. \A x \in Name \ {Opened(m.name)} : SameContent(ws'[x], w[x])
    BY <1>2, <2>1, <2>2, OpenEffect
  <2>4. QED
    BY <1>2, <1>5, <2>1, <2>3 DEF SameContent
<1>6. CASE m.kind = "link" /\ ws' = Removed(w, m.name)
  <2>1. /\ ws' \in [Name -> Entry]
        /\ \A x \in Name \ {m.name} : SameContent(ws'[x], w[x])
    BY <1>1, <1>2, <1>6, RemovedEffect
  <2>2. QED
    BY <1>2, <1>6, <2>1 DEF SameContent
<1>7. QED
  BY <1>3, <1>4, <1>5, <1>6 DEF HalfMade, w

-----------------------------------------------------------------------------
(* Reading a block. *)

LEMMA ArchiveFacts ==
  ASSUME scenario \in Scenarios
  PROVE  /\ Len(Archive) \in Nat
         /\ \A n \in 1..Len(Archive) :
              /\ Archive[n].at = "trailer" => n = Len(Archive)
              /\ Archive[n].at = "head" => Archive[n].member \in DOMAIN scenario.members
         /\ \A n1, n2 \in 1..Len(Archive) :
              /\ Archive[n1].at = "head" /\ Archive[n2].at = "head"
              /\ Archive[n1].member = Archive[n2].member
              => n1 = n2
BY ScenarioFacts, ArchiveShape DEF Archive

(* A header is new when it is read; another block changes no one's being sent. *)
LEMMA SentNext ==
  ASSUME PlaceInv, NEW at, Next1(at)
  PROVE  /\ scenario' = scenario /\ Archive' = Archive
         /\ sent' = sent + 1 /\ sent' \in Nat /\ sent' <= scenario.stored
         /\ at # "head" => \A i : Sent(i)' <=> Sent(i)
         /\ at = "head" =>
              /\ Archive[sent + 1].member \in DOMAIN scenario.members
              /\ ~ Sent(Archive[sent + 1].member)
              /\ \A i : Sent(i)' <=> Sent(i) \/ i = Archive[sent + 1].member
<1>1. scenario' = scenario /\ Archive' = Archive
  BY DEF Next1, Archive
<1>2. /\ sent \in Nat /\ scenario \in Scenarios /\ sent < scenario.stored
      /\ sent' = sent + 1 /\ Archive[sent + 1].at = at
  BY DEF PlaceInv, TypeOK, Next1
<1>3. scenario.stored \in Nat /\ scenario.stored <= Len(Archive) /\ Len(Archive) \in Nat
  BY <1>2, ScenarioFacts, ArchiveFacts
<1>4. sent + 1 \in 1..Len(Archive) /\ sent' \in Nat /\ sent' <= scenario.stored
  BY <1>2, <1>3
<1>5. \A n \in Nat : n \in 1..sent' <=> n \in 1..sent \/ n = sent + 1
  BY <1>2
<1>6. \A i : Sent(i)' <=> Sent(i) \/ (at = "head" /\ i = Archive[sent + 1].member)
  BY <1>1, <1>2, <1>4, <1>5 DEF Sent
<1>7. ASSUME at = "head", Sent(Archive[sent + 1].member) PROVE FALSE
  <2>1. PICK n \in 1..sent :
          Archive[n].at = "head" /\ Archive[n].member = Archive[sent + 1].member
    BY <1>7 DEF Sent
  <2>2. n \in 1..Len(Archive) /\ n # sent + 1
    BY <1>2, <1>3, <2>1
  <2>3. QED
    BY <1>2, <1>4, <1>7, <2>1, <2>2, ArchiveFacts
<1>8. at = "head" => Archive[sent + 1].member \in DOMAIN scenario.members
  BY <1>2, <1>4, ArchiveFacts
<1>9. QED
  BY <1>1, <1>2, <1>4, <1>6, <1>7, <1>8

(* What a call of Next1 leaves to the extractor. *)
LEMMA FailPlace ==
  ASSUME PlaceInv, Fail, UNCHANGED <<scenario, backend, get, writer>>, ws' \in [Name -> Entry],
         sent' \in Nat, sent' <= scenario.stored,
         current' \in {0} \cup DOMAIN scenario.members
  PROVE  PlaceInv' /\ MembersInv'
<1>1. current' \in Nat
  BY ScenarioFacts DEF PlaceInv, TypeOK
<1>2. QED
  BY <1>1 DEF PlaceInv, TypeOK, Fail, MembersInv

LEMMA ReadHeaderMembers ==
  ASSUME PlaceInv, MembersInv, ReadHeader
  PROVE  PlaceInv' /\ MembersInv'
<1>0. PICK c : c = Archive[sent + 1].member
  OBVIOUS
<1> DEFINE m == scenario.members[c]
<1>1. /\ scenario' = scenario /\ sent' \in Nat /\ sent' <= scenario.stored
      /\ c \in DOMAIN scenario.members /\ ~ Sent(c)
      /\ \A i : Sent(i)' <=> Sent(i) \/ i = c
  BY <1>0, SentNext DEF ReadHeader
<1>2. /\ scenario \in Scenarios /\ ws \in [Name -> Entry]
      /\ UNCHANGED <<backend, get, writer>> /\ extractor = "header" /\ current' = c
  BY <1>0 DEF PlaceInv, TypeOK, ReadHeader, Next1
<1>3. m \in Member /\ m.name \in Name /\ m.size \in Nat
  BY <1>1, <1>2, ScenarioFacts
<1>4. CASE Fail /\ HalfMade(m)
  <2>1. ws' \in [Name -> Entry]
    BY <1>2, <1>3, <1>4, HalfMadeEffect
  <2>2. QED
    BY <1>1, <1>2, <1>4, <2>1, FailPlace
<1>5. CASE /\ Possible(m)
           /\ ws' = StampMade(Made(m), m)
           /\ extractor' = IF m.kind = "file" /\ m.size > 0 THEN "body" ELSE "header"
           /\ UNCHANGED <<reader, ret>>
  <2>1. /\ Made(m) \in [Name -> Entry]
        /\ m.kind \in {"dir", "link"} => Made(m)[m.name].kind = m.kind
        /\ m.kind = "file" /\ ws[m.name].kind # "link" =>
             /\ Made(m)[m.name].kind = "file"
             /\ Made(m)[m.name].new = 0
             /\ Made(m)[m.name].old =
                  IF ws[m.name].kind = "absent" THEN 0 ELSE ws[m.name].new + ws[m.name].old
        /\ \A x \in Name \ {m.name, Elsewhere} :
             \/ SameContent(Made(m)[x], ws[x])
             \/ /\ ws[x].kind = "absent"
                /\ Made(m)[x].kind = "dir"
                /\ Made(m)[x].new = 0 /\ Made(m)[x].old = 0
    BY <1>2, <1>3, <1>5, MadeEffect
  <2>2. /\ ws' \in [Name -> Entry]
        /\ \A x \in Name : SameContent(ws'[x], Made(m)[x])
    BY <1>2, <1>3, <1>5, <2>1, StampMadeEffect
  <2>3. PlaceInv'
    <3>1. extractor' \in {"header", "body"} /\ (extractor' = "body" => m.kind = "file")
      BY <1>5
    <3>2. Sent(c)' /\ current' \in Nat
      BY <1>1, <1>2, ScenarioFacts
    <3>3. QED
      BY <1>1, <1>2, <1>5, <2>2, <3>1, <3>2 DEF PlaceInv, TypeOK
  <2>4. ASSUME ret # "error", NEW i \in DOMAIN scenario.members, Fresh(scenario.members[i])
        PROVE  IF Sent(i)' THEN Extracted(i)' ELSE Untouched(scenario.members[i].name)'
    <3> DEFINE x == scenario.members[i].name
    <3>1. /\ x \in Name /\ x # Elsewhere /\ scenario.members[i].kind # "absent"
          /\ scenario.before[x] \in Entry
      BY <1>2, <2>4, ScenarioFacts DEF Fresh, Member
    <3>2. IF Sent(i) THEN Extracted(i) ELSE Untouched(x)
      BY <2>4 DEF MembersInv
    <3>3. CASE i # c
      <4>1. x # m.name
        BY <1>1, <1>2, <3>3, ScenarioFacts
      <4>2. \/ SameContent(ws'[x], ws[x])
            \/ /\ ws[x].kind = "absent"
               /\ ws'[x].kind = "dir" /\ ws'[x].new = 0 /\ ws'[x].old = 0
        <5>1. \/ SameContent(Made(m)[x], ws[x])
              \/ /\ ws[x].kind = "absent"
                 /\ Made(m)[x].kind = "dir"
                 /\ Made(m)[x].new = 0 /\ Made(m)[x].old = 0
          BY <2>1, <3>1, <4>1
        <5>2. SameContent(ws'[x], Made(m)[x])
          BY <2>2, <3>1
        <5>3. QED
          BY <5>1, <5>2 DEF SameContent
      <4>3. Sent(i)' <=> Sent(i)
        BY <1>1, <3>3
      <4>4. CASE Sent(i)
        <5>1. SameContent(ws'[x], ws[x])
          BY <3>1, <3>2, <4>2, <4>4 DEF Extracted
        <5>2. ~ InProgress(i) /\ ~ InProgress(i)'
          BY <1>2, <3>3 DEF InProgress
        <5>3. QED
          BY <1>1, <3>2, <4>3, <4>4, <5>1, <5>2 DEF Extracted, SameContent
      <4>5. CASE ~ Sent(i)
        <5>1. Untouched(x)'
          BY <1>1, <1>2, <3>1, <3>2, <4>2, <4>5, ScenarioFacts DEF Untouched, SameContent
        <5>2. QED
          BY <4>3, <4>5, <5>1
      <4>6. QED
        BY <4>4, <4>5
    <3>4. CASE i = c
      <4>1. Sent(i)' /\ Untouched(x) /\ x = m.name
        BY <1>1, <3>2, <3>4
      <4>2. m.kind \in {"dir", "link", "file"}
        BY <1>3, <1>5 DEF Possible, Member
      <4>3. scenario.before[x].kind \in {"absent", m.kind}
        BY <2>4, <3>4 DEF Fresh
      <4>4. CASE m.kind # "file"
        <5>1. ws'[x].kind = m.kind
          BY <2>1, <2>2, <3>1, <4>1, <4>2, <4>4 DEF SameContent
        <5>2. QED
          BY <1>1, <3>4, <4>1, <4>4, <5>1 DEF Extracted
      <4>5. CASE m.kind = "file"
        <5>1. ws[x].kind # "link" /\ ws[x].new = 0 /\ ws[x].old = scenario.before[x].old
          BY <4>1, <4>3, <4>5 DEF Untouched
        <5>2. ws[x].kind = "absent" => scenario.before[x].old = 0
          BY <1>2, <3>1, <4>1, <4>3, <4>5, ScenarioFacts DEF Untouched
        <5>3. scenario.before[x].old \in Nat
          BY <3>1 DEF Entry
        <5>4. /\ ws'[x].kind = "file" /\ ws'[x].new = 0
              /\ ws'[x].old = scenario.before[x].old
          <6>1. SameContent(ws'[x], Made(m)[x])
            BY <2>2, <3>1
          <6>2. /\ Made(m)[x].kind = "file" /\ Made(m)[x].new = 0
                /\ Made(m)[x].old = IF ws[x].kind = "absent" THEN 0 ELSE ws[x].new + ws[x].old
            BY <2>1, <4>1, <4>5, <5>1
          <6>3. (IF ws[x].kind = "absent" THEN 0 ELSE ws[x].new + ws[x].old)
                  = scenario.before[x].old
            BY <5>1, <5>2, <5>3
          <6>4. QED
            BY <6>1, <6>2, <6>3 DEF SameContent
        <5>5. ws'[x].old = Rest(scenario.before[x].old, 0)
          BY <5>3, <5>4 DEF Rest
        <5>6. IF InProgress(i)' THEN 0 < m.size ELSE m.size = 0
          BY <1>2, <1>3, <1>5, <3>4, <4>5 DEF InProgress
        <5>7. QED
          BY <1>1, <3>4, <4>1, <4>5, <5>4, <5>5, <5>6 DEF Extracted
      <4>6. QED
        BY <4>4, <4>5
    <3>5. QED
      BY <3>3, <3>4
  <2>5. ret' = ret
    BY <1>5
  <2>6. QED
    BY <1>1, <2>3, <2>4, <2>5 DEF MembersInv, Fresh
<1>6. QED
  BY <1>0, <1>2, <1>4, <1>5 DEF ReadHeader

LEMMA FilledEffect ==
  ASSUME NEW w \in [Name -> Entry], NEW f \in Name
  PROVE  /\ [w EXCEPT ![f] = Filled(@)] \in [Name -> Entry]
         /\ [w EXCEPT ![f] = Filled(@)][f].kind = w[f].kind
         /\ [w EXCEPT ![f] = Filled(@)][f].new = w[f].new + 1
         /\ [w EXCEPT ![f] = Filled(@)][f].old = IF w[f].old > 0 THEN w[f].old - 1 ELSE 0
         /\ \A x \in Name \ {f} : SameContent([w EXCEPT ![f] = Filled(@)][x], w[x])
<1>1. PICK k \in Kind, a \in Nat, b \in Nat, t \in BOOLEAN :
        w[f] = [kind |-> k, new |-> a, old |-> b, timed |-> t]
  BY DEF Entry
<1> DEFINE e == [kind |-> k, new |-> a + 1, old |-> IF b > 0 THEN b - 1 ELSE 0, timed |-> FALSE]
<1>2. Filled([kind |-> k, new |-> a, old |-> b, timed |-> t]) = e
  <2> DEFINE o == IF b > 0 THEN b - 1 ELSE 0
  <2>1. [[kind |-> k, new |-> a, old |-> b, timed |-> t] EXCEPT !.new = a + 1]
          = [kind |-> k, new |-> a + 1, old |-> b, timed |-> t]
    OBVIOUS
  <2> HIDE DEF o
  <2>2. [[kind |-> k, new |-> a + 1, old |-> b, timed |-> t] EXCEPT !.old = o]
          = [kind |-> k, new |-> a + 1, old |-> o, timed |-> t]
    OBVIOUS
  <2> DEFINE no == FALSE
  <2> HIDE DEF no
  <2>3. [[kind |-> k, new |-> a + 1, old |-> o, timed |-> t] EXCEPT !.timed = no]
          = [kind |-> k, new |-> a + 1, old |-> o, timed |-> no]
    OBVIOUS
  <2>4. Filled([kind |-> k, new |-> a, old |-> b, timed |-> t])
          = [[[[kind |-> k, new |-> a, old |-> b, timed |-> t] EXCEPT !.new = a + 1]
                EXCEPT !.old = o] EXCEPT !.timed = no]
    BY DEF Filled, o, no
  <2>5. QED
    BY <2>1, <2>2, <2>3, <2>4 DEF o, no
<1>3. Filled(w[f]) = e
  BY <1>1, <1>2
<1>4. e \in Entry
  BY DEF Entry
<1>5. [w EXCEPT ![f] = Filled(@)] = [w EXCEPT ![f] = e]
  BY <1>3
<1>6. /\ e.kind = w[f].kind /\ e.new = w[f].new + 1
      /\ e.old = IF w[f].old > 0 THEN w[f].old - 1 ELSE 0
  BY <1>1
<1> HIDE DEF e
<1>7. /\ [w EXCEPT ![f] = e] \in [Name -> Entry]
      /\ [w EXCEPT ![f] = e][f] = e
      /\ \A x \in Name \ {f} : [w EXCEPT ![f] = e][x] = w[x]
  BY <1>4
<1>8. QED
  BY <1>5, <1>6, <1>7 DEF SameContent

LEMMA ReadBodyMembers ==
  ASSUME PlaceInv, MembersInv, ReadBody
  PROVE  PlaceInv' /\ MembersInv'
<1> DEFINE m == scenario.members[current]
           f == Opened(m.name)
           w == [ws EXCEPT ![f] = Filled(@)]
<1>1. /\ scenario' = scenario /\ sent' \in Nat /\ sent' <= scenario.stored
      /\ \A i : Sent(i)' <=> Sent(i)
  BY SentNext DEF ReadBody
<1>2. /\ scenario \in Scenarios /\ ws \in [Name -> Entry]
      /\ UNCHANGED <<backend, get, writer, current>> /\ extractor = "body"
      /\ current \in DOMAIN scenario.members /\ m.kind = "file" /\ Sent(current)
  BY DEF PlaceInv, TypeOK, ReadBody, Next1
<1>3. m \in Member /\ m.name \in Name /\ m.size \in Nat
  BY <1>2, ScenarioFacts
<1>4. f \in Name /\ f \in {m.name, Elsewhere} /\ (ws[m.name].kind # "link" => f = m.name)
  BY <1>2, <1>3, OpenedName
<1>5. /\ w \in [Name -> Entry]
      /\ w[f].kind = ws[f].kind
      /\ w[f].new = ws[f].new + 1
      /\ w[f].old = IF ws[f].old > 0 THEN ws[f].old - 1 ELSE 0
      /\ \A x \in Name \ {f} : SameContent(w[x], ws[x])
  BY <1>2, <1>4, FilledEffect
<1> HIDE DEF w
<1>6. \/ Fail /\ ws' \in {ws, w}
      \/ /\ ws' = IF w[f].new = m.size THEN Stamp(w, f) ELSE w
         /\ extractor' = IF w[f].new = m.size THEN "header" ELSE "body"
         /\ UNCHANGED <<reader, ret>>
  BY DEF ReadBody, w
<1>7. CASE Fail /\ ws' \in {ws, w}
  BY <1>1, <1>2, <1>5, <1>7, FailPlace
<1>8. CASE /\ ws' = IF w[f].new = m.size THEN Stamp(w, f) ELSE w
           /\ extractor' = IF w[f].new = m.size THEN "header" ELSE "body"
           /\ UNCHANGED <<reader, ret>>
  <2>1. ws' \in [Name -> Entry] /\ \A x \in Name : SameContent(ws'[x], w[x])
    <3>1. \A x \in Name : SameContent(w[x], w[x])
      BY DEF SameContent
    <3>2. /\ Stamp(w, f) \in [Name -> Entry]
          /\ \A x \in Name : SameContent(Stamp(w, f)[x], w[x])
      BY <1>2, <1>4, <1>5, StampEffect
    <3>3. QED
      BY <1>5, <1>8, <3>1, <3>2
  <2>2. PlaceInv'
    BY <1>1, <1>2, <1>8, <2>1 DEF PlaceInv, TypeOK
  <2>3. ASSUME ret # "error", NEW i \in DOMAIN scenario.members, Fresh(scenario.members[i])
        PROVE  IF Sent(i)' THEN Extracted(i)' ELSE Untouched(scenario.members[i].name)'
    <3> DEFINE x == scenario.members[i].name
    <3>1. x \in Name /\ x # Elsewhere /\ scenario.before[x] \in Entry
      BY <1>2, <2>3, ScenarioFacts DEF Fresh
    <3>2. IF Sent(i) THEN Extracted(i) ELSE Untouched(x)
      BY <2>3 DEF MembersInv
    <3>3. CASE i # current
      <4>1. x # m.name
        BY <1>2, <3>3, ScenarioFacts
      <4>2. SameContent(ws'[x], ws[x])
        BY <1>4, <1>5, <2>1, <3>1, <4>1 DEF SameContent
      <4>3. ~ InProgress(i) /\ ~ InProgress(i)'
        BY <1>2, <3>3 DEF InProgress
      <4>4. QED
        BY <1>1, <3>2, <4>2, <4>3 DEF Extracted, Untouched, SameContent
    <3>4. CASE i = current
      <4>1. Extracted(i) /\ InProgress(i) /\ x = m.name
        BY <1>2, <3>2, <3>4 DEF InProgress
      <4>2. /\ ws[x].kind = "file" /\ ws[x].new < m.size
            /\ ws[x].old = Rest(scenario.before[x].old, ws[x].new)
        BY <1>2, <3>4, <4>1 DEF Extracted
      <4>3. f = x
        BY <1>4, <4>1, <4>2
      <4>4. /\ ws'[x].kind = "file" /\ ws'[x].new = ws[x].new + 1
            /\ ws'[x].old = IF ws[x].old > 0 THEN ws[x].old - 1 ELSE 0
        BY <1>5, <2>1, <3>1, <4>2, <4>3 DEF SameContent
      <4>5. ws[x].new \in Nat /\ scenario.before[x].old \in Nat
        BY <1>2, <3>1 DEF Entry
      <4>6. ws'[x].old = Rest(scenario.before[x].old, ws'[x].new)
        BY <4>2, <4>4, <4>5 DEF Rest
      <4>7. IF InProgress(i)' THEN ws'[x].new < m.size ELSE ws'[x].new = m.size
        BY <1>2, <1>3, <1>5, <1>8, <3>4, <4>2, <4>3, <4>4, <4>5 DEF InProgress
      <4>8. QED
        BY <1>1, <1>2, <3>4, <4>4, <4>6, <4>7 DEF Extracted
    <3>5. QED
      BY <3>3, <3>4
  <2>4. QED
    BY <1>1, <1>8, <2>2, <2>3 DEF MembersInv, Fresh
<1>9. QED
  BY <1>6, <1>7, <1>8

(* Steps that send no block leave every member and every path as it is. *)
LEMMA IdleMembers ==
  ASSUME PlaceInv, MembersInv, UNCHANGED <<scenario, sent, current, ws>>,
         backend' \in {"open", "copy", "failed", "done"},
         get' \in {"wait", "nil", "error"}, writer' \in {"open", "eof", "error"},
         \/ UNCHANGED <<extractor, reader, ret>>
         \/ extractor = "header" /\ extractor' = "finish" /\ UNCHANGED <<reader, ret>>
  PROVE  PlaceInv' /\ MembersInv'
<1>1. \A i : Sent(i)' <=> Sent(i)
  BY DEF Sent, Archive
<1>2. PlaceInv'
  BY <1>1 DEF PlaceInv, TypeOK
<1>3. \A i : InProgress(i)' <=> InProgress(i)
  BY DEF InProgress
<1>4. MembersInv'
  BY <1>1, <1>3 DEF MembersInv, Fresh, Extracted, Untouched
<1>5. QED
  BY <1>2, <1>4

LEMMA ReadTrailerMembers ==
  ASSUME PlaceInv, MembersInv, ReadTrailer
  PROVE  PlaceInv' /\ MembersInv'
<1>1. /\ scenario' = scenario /\ sent' \in Nat /\ sent' <= scenario.stored
      /\ \A i : Sent(i)' <=> Sent(i)
  BY SentNext DEF ReadTrailer
<1>2. /\ UNCHANGED <<backend, get, writer, reader, current, ws, ret>>
      /\ extractor = "header" /\ extractor' = "finish"
  BY DEF ReadTrailer, Next1
<1>3. PlaceInv'
  BY <1>1, <1>2 DEF PlaceInv, TypeOK
<1>4. \A i : InProgress(i)' <=> InProgress(i)
  BY <1>2 DEF InProgress
<1>5. MembersInv'
  BY <1>1, <1>2, <1>4 DEF MembersInv, Fresh, Extracted, Untouched
<1>6. QED
  BY <1>3, <1>5

(* The directories that are stamped at the end keep what they are. *)
LEMMA FinishMembers ==
  ASSUME PlaceInv, MembersInv, Finish
  PROVE  /\ PlaceInv' /\ MembersInv'
         /\ scenario.preserve => \A n \in ExtractedDirs' : ws'[n].timed
<1>1. /\ UNCHANGED <<scenario, current, backend, sent, get, writer>>
      /\ extractor = "finish" /\ extractor' = "returned" /\ ret' = "ok" /\ reader' = "closed"
  BY DEF Finish, getVars
<1>2. scenario \in Scenarios /\ ws \in [Name -> Entry]
  BY DEF PlaceInv, TypeOK
<1>3. ws' = [n \in Name |-> IF n \in ExtractedDirs THEN Stamp(ws, n)[n] ELSE ws[n]]
  BY DEF Finish, DirsStamped
<1>4. \A n \in Name : /\ Stamp(ws, n)[n] \in Entry /\ SameContent(Stamp(ws, n)[n], ws[n])
                      /\ scenario.preserve => Stamp(ws, n)[n].timed
  BY <1>2, StampEffect
<1>5. ws' \in [Name -> Entry] /\ \A n \in Name : SameContent(ws'[n], ws[n])
  BY <1>2, <1>3, <1>4 DEF SameContent
<1>6. ExtractedDirs' = ExtractedDirs /\ ExtractedDirs \subseteq Name
  <2>1. 1..current \subseteq DOMAIN scenario.members
    <3>1. /\ scenario.members \in Seq(Member)
          /\ current \in {0} \cup DOMAIN scenario.members
      BY <1>2, ScenarioFacts DEF PlaceInv
    <3>2. QED
      BY <3>1
  <2>2. \A i \in 1..current : scenario.members[i].name \in Name
    BY <1>2, <2>1, ScenarioFacts
  <2>3. QED
    BY <1>1, <2>2 DEF ExtractedDirs
<1>7. scenario.preserve => \A n \in ExtractedDirs' : ws'[n].timed
  BY <1>3, <1>4, <1>6
<1>8. \A i : (Sent(i)' <=> Sent(i)) /\ ~ InProgress(i) /\ ~ InProgress(i)'
  BY <1>1 DEF Sent, Archive, InProgress
<1>9. PlaceInv'
  BY <1>1, <1>5 DEF PlaceInv, TypeOK
<1>10. ASSUME NEW i \in DOMAIN scenario.members, Fresh(scenario.members[i]), ret # "error"
       PROVE  IF Sent(i)' THEN Extracted(i)' ELSE Untouched(scenario.members[i].name)'
  <2>1. SameContent(ws'[scenario.members[i].name], ws[scenario.members[i].name])
    BY <1>2, <1>5, ScenarioFacts
  <2>2. IF Sent(i) THEN Extracted(i) ELSE Untouched(scenario.members[i].name)
    BY <1>10 DEF MembersInv
  <2>3. QED
    BY <1>1, <1>8, <2>1, <2>2 DEF Extracted, Untouched, SameContent
<1>11. MembersInv'
  <2>1. ret = "none"
    BY <1>1 DEF PlaceInv
  <2>2. QED
    BY <1>1, <1>10, <2>1 DEF MembersInv, Fresh
<1>12. QED
  BY <1>7, <1>9, <1>11

-----------------------------------------------------------------------------
(* The invariant of the extraction. *)

TimedInv ==
  ret = "ok" /\ scenario.preserve => \A n \in ExtractedDirs : ws[n].timed

ExtractInv == PlaceInv /\ MembersInv /\ TimedInv

LEMMA InitExtract == Init => ExtractInv
<1> SUFFICES ASSUME Init PROVE ExtractInv
  OBVIOUS
<1>1. /\ scenario \in Scenarios /\ sent = 0 /\ ws = scenario.before /\ ret = "none"
      /\ extractor = "header" /\ current = 0
  BY DEF Init
<1>2. PlaceInv
  BY <1>1, ScenarioFacts DEF Init, PlaceInv, TypeOK
<1>3. \A i : ~ Sent(i)
  BY <1>1 DEF Sent
<1>4. \A i \in DOMAIN scenario.members : Untouched(scenario.members[i].name)
  BY <1>1, ScenarioFacts DEF Untouched
<1>5. QED
  BY <1>1, <1>2, <1>3, <1>4 DEF ExtractInv, MembersInv, TimedInv

LEMMA NextExtract == ExtractInv /\ [Next]_vars => ExtractInv'
<1> SUFFICES ASSUME ExtractInv, [Next]_vars PROVE ExtractInv'
  OBVIOUS
<1>0. PlaceInv /\ MembersInv /\ TimedInv
  BY DEF ExtractInv
<1>1. ASSUME UNCHANGED <<scenario, current, ws, ret>> PROVE TimedInv'
  BY <1>0, <1>1 DEF TimedInv, ExtractedDirs
<1>2. ASSUME ret' # "ok" PROVE TimedInv'
  BY <1>2 DEF TimedInv
<1>3. CASE Request \/ Goroutine \/ GetTimesOut \/ UNCHANGED vars
  <2>1. /\ UNCHANGED <<scenario, sent>> /\ UNCHANGED extractVars
        /\ backend' \in {"open", "copy", "failed", "done"}
        /\ get' \in {"wait", "nil", "error"} /\ writer' \in {"open", "eof", "error"}
    BY <1>0, <1>3 DEF PlaceInv, TypeOK, Request, Goroutine, GetOpens, GetFails, GetRefused,
       CopyEnds, GetReturns, CloseWriter, Closing, GetTimesOut, vars, extractVars
  <2>2. UNCHANGED <<extractor, reader, current, ws, ret>>
    BY <2>1 DEF extractVars
  <2>3. QED
    BY <1>0, <1>1, <2>1, <2>2, IdleMembers DEF ExtractInv
<1>4. CASE Reading
  <2>1. PlaceInv' /\ MembersInv'
    BY <1>0, <1>4, ReadHeaderMembers, ReadBodyMembers, ReadTrailerMembers DEF Reading
  <2>2. extractor # "returned"
    BY <1>4 DEF Reading, ReadHeader, ReadBody, ReadTrailer
  <2>3. ret' # "ok"
    BY <1>0, <1>4, <2>2 DEF PlaceInv, Reading, ReadHeader, ReadBody, ReadTrailer, Fail
  <2>4. QED
    BY <1>2, <2>1, <2>3 DEF ExtractInv
<1>5. CASE ReadEOF \/ ReadError
  <2>1. /\ UNCHANGED <<scenario, sent, current, ws>> /\ UNCHANGED <<backend, get, writer>>
        /\ extractor \in {"header", "body"}
    BY <1>5 DEF ReadEOF, ReadError, getVars
  <2>2. \/ Fail
        \/ extractor = "header" /\ extractor' = "finish" /\ UNCHANGED <<reader, ret>>
    BY <1>5 DEF ReadEOF, ReadError
  <2>3. CASE Fail
    <3>1. PlaceInv' /\ MembersInv'
      BY <1>0, <2>1, <2>3, FailPlace DEF PlaceInv, TypeOK
    <3>2. QED
      BY <1>2, <2>3, <3>1 DEF Fail, ExtractInv
  <2>4. CASE extractor = "header" /\ extractor' = "finish" /\ UNCHANGED <<reader, ret>>
    <3>1. /\ backend' \in {"open", "copy", "failed", "done"}
          /\ get' \in {"wait", "nil", "error"} /\ writer' \in {"open", "eof", "error"}
      BY <1>0, <2>1 DEF PlaceInv, TypeOK
    <3>2. PlaceInv' /\ MembersInv'
      BY <1>0, <2>1, <2>4, <3>1, IdleMembers
    <3>3. QED
      BY <1>1, <2>1, <2>4, <3>2 DEF ExtractInv
  <2>5. QED
    BY <2>2, <2>3, <2>4
<1>6. CASE Finish
  <2>1. /\ PlaceInv' /\ MembersInv' /\ scenario' = scenario
        /\ scenario.preserve => \A n \in ExtractedDirs' : ws'[n].timed
    BY <1>0, <1>6, FinishMembers DEF Finish
  <2>2. TimedInv'
    BY <2>1 DEF TimedInv
  <2>3. QED
    BY <2>1, <2>2 DEF ExtractInv
<1>7. QED
  BY <1>3, <1>4, <1>5, <1>6 DEF Next, Extractor

(* Every value of the download and of the extraction stays in its type. *)
THEOREM SpecTypeOK == Spec => []TypeOK
<1>1. ExtractInv => TypeOK
  BY DEF ExtractInv, PlaceInv
<1>2. QED
  BY <1>1, InitExtract, NextExtract, PTL DEF Spec

(***************************************************************************)
(* A success of restore() means that every member of which the object has  *)
(* the header, and that the workspace did not hinder, is extracted as a    *)
(* whole, at its own path: whatever failed at the other end of the pipe    *)
(* would have been seen.                                                   *)
(***************************************************************************)
THEOREM SpecSuccessRestoresMembers == Spec => []SuccessRestoresMembers
<1>1. ASSUME CopyInv, ExtractInv, ret = "ok" PROVE SuccessRestoresMembers
  <2>1. /\ scenario \in Scenarios /\ sent \in Nat /\ sent <= scenario.stored
        /\ extractor = "returned" /\ ws \in [Name -> Entry]
    BY <1>1 DEF ExtractInv, PlaceInv, TypeOK, CopyInv
  <2>2. scenario.stored \in Nat /\ scenario.stored <= Len(Archive) /\ Len(Archive) \in Nat
    BY <2>1, ScenarioFacts, ArchiveFacts
  <2>3. sent = scenario.stored
    <3>1. CASE sent > 0 /\ Archive[sent].at = "trailer"
      <4>1. sent \in 1..Len(Archive)
        BY <2>1, <2>2, <3>1
      <4>2. sent = Len(Archive)
        BY <2>1, <3>1, <4>1, ArchiveFacts
      <4>3. QED
        BY <2>1, <2>2, <4>2
    <3>2. CASE writer = "eof"
      BY <1>1, <3>2 DEF CopyInv
    <3>3. QED
      BY <1>1, <3>1, <3>2 DEF CopyInv, Ended
  <2>4. ASSUME NEW i \in DOMAIN scenario.members,
               \E n \in 1..scenario.stored : Archive[n] = [at |-> "head", member |-> i],
               Fresh(scenario.members[i])
        PROVE  LET m == scenario.members[i]
               IN /\ ws[m.name].kind = m.kind
                  /\ m.kind = "file" => ws[m.name].new = m.size /\ ws[m.name].old = Excess(m)
    <3> DEFINE m == scenario.members[i]
    <3>1. Sent(i)
      BY <2>3, <2>4 DEF Sent
    <3>2. Extracted(i) /\ ~ InProgress(i)
      BY <1>1, <2>1, <2>4, <3>1 DEF ExtractInv, MembersInv, InProgress
    <3>3. QED
      BY <3>2 DEF Extracted, Rest, Excess
  <2>5. QED
    BY <2>4 DEF SuccessRestoresMembers
<1>2. CopyInv /\ ExtractInv => SuccessRestoresMembers
  BY <1>1 DEF SuccessRestoresMembers
<1>3. QED
  BY <1>2, InitCopy, NextCopy, InitExtract, NextExtract, PTL DEF Spec

(***************************************************************************)
(* The times of the directories survive what is created in them: they are  *)
(* set when nothing is left to be extracted.                               *)
(***************************************************************************)
THEOREM SpecDirectoriesKeepTheirTimes == Spec => []DirectoriesKeepTheirTimes
<1>1. ExtractInv => DirectoriesKeepTheirTimes
  BY DEF ExtractInv, TimedInv, DirectoriesKeepTheirTimes
<1>2. QED
  BY <1>1, InitExtract, NextExtract, PTL DEF Spec

-----------------------------------------------------------------------------
(* What a restore may change. *)

(***************************************************************************)
(* Until something fails no path disappears, and a symbolic link was there *)
(* before or is a member of the archive: what is written through a link is *)
(* known from the start.                                                   *)
(***************************************************************************)
LinkMember(n) ==
  \E i \in DOMAIN scenario.members :
    scenario.members[i].kind = "link" /\ scenario.members[i].name = n

KindInv ==
  ret = "none" =>
    \A n \in Name : /\ ws[n].kind = "absent" => Was(n, "absent")
                    /\ ws[n].kind = "link" => Was(n, "link") \/ LinkMember(n)

(* The paths that making a member changes, and what they become. *)
LEMMA MadeChanges ==
  ASSUME ws \in [Name -> Entry], NEW m \in Member, Possible(m), NEW x \in Name
  PROVE  \/ SameContent(Made(m)[x], ws[x])
         \/ x = m.name /\ m.kind \in {"dir", "link"} /\ Made(m)[x].kind = m.kind
         \/ x = Opened(m.name) /\ m.kind = "file" /\ Made(m)[x].kind \in {"file", ws[x].kind}
         \/ /\ m.name # Root /\ x = Parent[m.name]
            /\ ws[x].kind = "absent" /\ Made(m)[x].kind = "dir"
<1> DEFINE w == WithParent(ws, m.name)
<1>1. m.name \in Name /\ m.kind \in {"dir", "file", "link"}
  BY DEF Member, Possible
<1>2. /\ w \in [Name -> Entry]
      /\ \/ SameContent(w[x], ws[x])
         \/ m.name # Root /\ x = Parent[m.name] /\ ws[x].kind = "absent" /\ w[x].kind = "dir"
  BY <1>1, WithParentEffect
<1> HIDE DEF w
<1>3. CASE m.kind \in {"dir", "link"}
  <2>1. \/ Made(m) = w
        \/ Made(m) = Created(w, m.name, m.kind) /\ m.kind \in Kind
    BY <1>3 DEF Made, w, Kind
  <2>2. CASE Made(m) = w
    BY <1>2, <2>2
  <2>3. CASE Made(m) = Created(w, m.name, m.kind) /\ m.kind \in Kind
    <3>1. /\ Made(m)[m.name] = [kind |-> m.kind, new |-> 0, old |-> 0, timed |-> FALSE]
          /\ \A y \in Name \ {m.name} : SameContent(Made(m)[y], w[y])
      BY <1>1, <1>2, <2>3, CreatedEffect
    <3>2. CASE x = m.name
      BY <1>3, <3>1, <3>2
    <3>3. CASE x # m.name
      BY <1>2, <3>1, <3>3 DEF SameContent
    <3>4. QED
      BY <3>2, <3>3
  <2>4. QED
    BY <2>1, <2>2, <2>3
<1>4. CASE m.kind = "file"
  <2>1. Made(m) = Open(w, Opened(m.name)) /\ Opened(m.name) \in Name
    BY <1>1, <1>4, OpenedName DEF Made, w
  <2>2. /\ Made(m)[Opened(m.name)].kind \in {"file", w[Opened(m.name)].kind}
        /\ \A y \in Name \ {Opened(m.name)} : SameContent(Made(m)[y], w[y])
    BY <1>2, <2>1, OpenEffect
  <2>3. CASE x = Opened(m.name)
    <3>1. ws[x].kind \in {"absent", "file"}
      BY <1>4, <2>3 DEF Possible
    <3>2. CASE w[x].kind = ws[x].kind
      BY <1>4, <2>2, <2>3, <3>2
    <3>3. CASE w[x].kind # ws[x].kind
      BY <1>2, <1>4, <2>2, <2>3, <3>3 DEF SameContent
    <3>4. QED
      BY <3>2, <3>3
  <2>4. CASE x # Opened(m.name)
    BY <1>2, <2>2, <2>4 DEF SameContent
  <2>5. QED
    BY <2>3, <2>4
<1>5. QED
  BY <1>1, <1>3, <1>4

(* A header that is read is that of a member the object lists. *)
LEMMA ReadHeaderMember ==
  ASSUME PlaceInv, ReadHeader
  PROVE  \E i \in DOMAIN scenario.members :
           /\ \E n \in 1..scenario.stored : Archive[n].at = "head" /\ Archive[n].member = i
           /\ \/ /\ Possible(scenario.members[i])
                 /\ ws' = StampMade(Made(scenario.members[i]), scenario.members[i])
                 /\ UNCHANGED <<reader, ret>>
              \/ Fail /\ HalfMade(scenario.members[i])
<1> DEFINE c == Archive[sent + 1].member
<1>1. c \in DOMAIN scenario.members /\ sent + 1 \in Nat /\ sent + 1 <= scenario.stored
  BY SentNext DEF ReadHeader
<1>2. sent + 1 \in 1..scenario.stored /\ Archive[sent + 1].at = "head"
  BY <1>1, ScenarioFacts DEF ReadHeader, Next1, PlaceInv, TypeOK
<1>3. current' = c /\ scenario' = scenario
  BY DEF ReadHeader, Next1
<1>4. \/ /\ Possible(scenario.members[c])
         /\ ws' = StampMade(Made(scenario.members[c]), scenario.members[c])
         /\ UNCHANGED <<reader, ret>>
      \/ Fail /\ HalfMade(scenario.members[c])
  BY <1>3 DEF ReadHeader
<1>5. QED
  BY <1>1, <1>2, <1>4

(* The kinds of paths change only when a header is read. *)
LEMMA SameKinds ==
  ASSUME KindInv, scenario' = scenario, ret' = "none" => ret = "none",
         \A n \in Name : ws'[n].kind = ws[n].kind
  PROVE  KindInv'
BY DEF KindInv, Was, LinkMember

LEMMA ReadHeaderKinds ==
  ASSUME PlaceInv, KindInv, ReadHeader
  PROVE  KindInv'
<1>1. scenario' = scenario /\ scenario \in Scenarios /\ ws \in [Name -> Entry]
  BY DEF PlaceInv, TypeOK, ReadHeader, Next1
<1>2. PICK i \in DOMAIN scenario.members :
        \/ /\ Possible(scenario.members[i])
           /\ ws' = StampMade(Made(scenario.members[i]), scenario.members[i])
           /\ UNCHANGED ret
        \/ Fail
  BY ReadHeaderMember
<1> DEFINE m == scenario.members[i]
<1>3. CASE Fail
  BY <1>3 DEF KindInv, Fail
<1>4. CASE Possible(m) /\ ws' = StampMade(Made(m), m) /\ UNCHANGED ret
  <2>1. m \in Member /\ m.name \in Name
    BY <1>1, ScenarioFacts
  <2>2. Made(m) \in [Name -> Entry]
    BY <1>1, <1>4, <2>1, MadeEffect
  <2>3. \A n \in Name : SameContent(ws'[n], Made(m)[n])
    BY <1>1, <1>4, <2>1, <2>2, StampMadeEffect
  <2>4. ASSUME NEW n \in Name, ret = "none"
        PROVE  /\ ws'[n].kind = "absent" => Was(n, "absent")
               /\ ws'[n].kind = "link" => Was(n, "link") \/ LinkMember(n)
    <3>1. ws'[n].kind = Made(m)[n].kind
      BY <2>3 DEF SameContent
    <3>2. \/ Made(m)[n].kind = ws[n].kind
          \/ n = m.name /\ m.kind \in {"dir", "link"} /\ Made(m)[n].kind = m.kind
          \/ Made(m)[n].kind \in {"file", "dir"}
      BY <1>1, <1>4, <2>1, MadeChanges DEF SameContent
    <3>3. n = m.name /\ m.kind = "link" => LinkMember(n)
      BY DEF LinkMember
    <3>4. QED
      BY <2>4, <3>1, <3>2, <3>3 DEF KindInv
  <2>5. QED
    BY <1>1, <1>4, <2>4 DEF KindInv, Was, LinkMember
<1>5. QED
  BY <1>2, <1>3, <1>4

LEMMA ReadBodyContent ==
  ASSUME PlaceInv, ReadBody
  PROVE  LET f == Opened(scenario.members[current].name)
         IN /\ f \in Name /\ ws'[f].kind = ws[f].kind
            /\ \A n \in Name \ {f} : SameContent(ws'[n], ws[n])
<1> DEFINE m == scenario.members[current]
           f == Opened(m.name)
           w == [ws EXCEPT ![f] = Filled(@)]
<1>1. /\ scenario \in Scenarios /\ ws \in [Name -> Entry]
      /\ current \in DOMAIN scenario.members
  BY DEF PlaceInv, TypeOK, ReadBody
<1>2. m.name \in Name /\ f \in Name
  BY <1>1, ScenarioFacts, OpenedName
<1>3. /\ w \in [Name -> Entry]
      /\ w[f].kind = ws[f].kind
      /\ \A n \in Name \ {f} : SameContent(w[n], ws[n])
  BY <1>1, <1>2, FilledEffect
<1> HIDE DEF w
<1>4. ws' = ws \/ ws' = w \/ ws' = Stamp(w, f)
  BY DEF ReadBody, w
<1>5. \A n \in Name : SameContent(Stamp(w, f)[n], w[n])
  BY <1>1, <1>2, <1>3, StampEffect
<1>6. QED
  BY <1>2, <1>3, <1>4, <1>5 DEF SameContent

LEMMA FinishContent ==
  ASSUME PlaceInv, Finish
  PROVE  \A n \in Name : SameContent(ws'[n], ws[n])
<1>1. scenario \in Scenarios /\ ws \in [Name -> Entry]
  BY DEF PlaceInv, TypeOK
<1>2. \A n \in Name : SameContent(Stamp(ws, n)[n], ws[n])
  BY <1>1, StampEffect
<1>3. QED
  BY <1>2 DEF Finish, DirsStamped, SameContent

LEMMA InitKinds == Init => KindInv
BY DEF Init, KindInv, Was

LEMMA NextKinds == PlaceInv /\ KindInv /\ [Next]_vars => KindInv'
<1> SUFFICES ASSUME PlaceInv, KindInv, [Next]_vars PROVE KindInv'
  OBVIOUS
<1>0. ret' = "none" => ret = "none"
  BY DEF Next, Request, Goroutine, Reading, Extractor, GetOpens, GetFails, GetRefused, CopyEnds,
     GetReturns, CloseWriter, GetTimesOut, ReadHeader, ReadBody, ReadTrailer, ReadEOF, ReadError,
     Finish, Fail, extractVars, vars
<1>1. CASE UNCHANGED <<scenario, ws>>
  BY <1>0, <1>1, SameKinds
<1>2. CASE ReadHeader
  BY <1>2, ReadHeaderKinds
<1>3. CASE ReadBody
  <2>1. scenario' = scenario /\ \A n \in Name : ws'[n].kind = ws[n].kind
    BY <1>3, ReadBodyContent DEF ReadBody, Next1, SameContent
  <2>2. QED
    BY <1>0, <2>1, SameKinds
<1>4. CASE Finish
  <2>1. scenario' = scenario /\ \A n \in Name : ws'[n].kind = ws[n].kind
    BY <1>4, FinishContent DEF Finish, SameContent
  <2>2. QED
    BY <1>0, <2>1, SameKinds
<1>5. QED
  BY <1>1, <1>2, <1>3, <1>4 DEF Next, Request, Goroutine, Reading, Extractor, GetOpens,
     GetFails, GetRefused, CopyEnds, GetReturns, CloseWriter, GetTimesOut, ReadTrailer, Next1,
     ReadEOF, ReadError, extractVars, vars

-----------------------------------------------------------------------------
(* The download implements its contract. *)

(* What a listed member leads to. *)
LEMMA ListedReach ==
  ASSUME scenario \in Scenarios, ws \in [Name -> Entry], KindInv, ret = "none",
         NEW i \in DOMAIN scenario.members, scenario.members[i].kind # "refused",
         \E n \in 1..scenario.stored : Archive[n].at = "head" /\ Archive[n].member = i
  PROVE  LET m == scenario.members[i]
         IN /\ m.name \in reach
            /\ m.name # Root /\ ws[Parent[m.name]].kind = "absent" => Parent[m.name] \in reach
            /\ m.kind = "file" => Opened(m.name) \in reach
<1> DEFINE m == scenario.members[i]
<1>1. m \in Listed
  BY DEF Listed
<1>2. m.name \in Name /\ (m.name # Root => Parent[m.name] \in Name)
  BY ScenarioFacts, GetPipeAssumption
<1>3. m.name \in reach
  BY <1>1 DEF reach
<1>4. ASSUME m.name # Root, ws[Parent[m.name]].kind = "absent" PROVE Parent[m.name] \in reach
  <2>1. Was(Parent[m.name], "absent")
    BY <1>2, <1>4 DEF KindInv
  <2>2. QED
    BY <1>1, <1>4, <2>1 DEF reach
<1>5. ASSUME m.kind = "file" PROVE Opened(m.name) \in reach
  <2>1. CASE ws[m.name].kind # "link"
    BY <1>3, <2>1 DEF Opened
  <2>2. CASE ws[m.name].kind = "link"
    <3>1. ~ LinkMember(m.name)
      BY <1>5, ScenarioFacts DEF LinkMember
    <3>2. Was(m.name, "link") /\ Opened(m.name) = Elsewhere
      BY <1>2, <2>2, <3>1 DEF KindInv, Opened
    <3>3. QED
      BY <1>1, <1>5, <3>2 DEF reach
  <2>3. QED
    BY <2>1, <2>2
<1>6. QED
  BY <1>3, <1>4, <1>5

(***************************************************************************)
(* A block that is read changes nothing beyond the reach of the object,    *)
(* also when it fails.                                                     *)
(***************************************************************************)
LEMMA ReadingInReach ==
  ASSUME PlaceInv, KindInv, Reading
  PROVE  \A n \in Name \ reach : SameContent(ws'[n], ws[n])
<1>1. /\ scenario \in Scenarios /\ ws \in [Name -> Entry] /\ ret = "none"
      /\ \A n \in Name : SameContent(ws[n], ws[n])
  BY DEF PlaceInv, TypeOK, SameContent, Reading, ReadHeader, ReadBody, ReadTrailer
<1>2. CASE ReadHeader
  <2>1. PICK i \in DOMAIN scenario.members :
          /\ \E n \in 1..scenario.stored : Archive[n].at = "head" /\ Archive[n].member = i
          /\ \/ /\ Possible(scenario.members[i])
                /\ ws' = StampMade(Made(scenario.members[i]), scenario.members[i])
             \/ HalfMade(scenario.members[i])
    BY <1>2, ReadHeaderMember
  <2> DEFINE m == scenario.members[i]
  <2>2. CASE HalfMade(m)
    <3>1. m \in Member
      BY <1>1, ScenarioFacts
    <3>2. CASE m.kind = "refused"
      BY <1>1, <2>2, <3>1, <3>2, HalfMadeEffect
    <3>3. CASE m.kind # "refused"
      <4>1. /\ m.name \in reach
            /\ m.name # Root /\ ws[Parent[m.name]].kind = "absent" => Parent[m.name] \in reach
            /\ m.kind = "file" => Opened(m.name) \in reach
        BY <1>1, <2>1, <3>3, ListedReach
      <4>2. QED
        BY <1>1, <2>2, <3>1, <4>1, HalfMadeEffect
    <3>4. QED
      BY <3>2, <3>3
  <2>3. CASE Possible(m) /\ ws' = StampMade(Made(m), m)
    <3>1. m \in Member /\ m.kind # "refused"
      BY <1>1, <2>3, ScenarioFacts DEF Possible
    <3>2. Made(m) \in [Name -> Entry]
      BY <1>1, <2>3, <3>1, MadeEffect
    <3>3. \A n \in Name : SameContent(ws'[n], Made(m)[n])
      BY <1>1, <2>3, <3>1, <3>2, StampMadeEffect
    <3>4. /\ m.name \in reach
          /\ m.name # Root /\ ws[Parent[m.name]].kind = "absent" => Parent[m.name] \in reach
          /\ m.kind = "file" => Opened(m.name) \in reach
      BY <1>1, <2>1, <3>1, ListedReach
    <3>5. \A n \in Name \ reach : SameContent(Made(m)[n], ws[n])
      BY <1>1, <2>3, <3>1, <3>4, MadeChanges
    <3>6. QED
      BY <3>3, <3>5 DEF SameContent
  <2>4. QED
    BY <2>1, <2>2, <2>3
<1>3. CASE ReadBody
  <2>1. /\ current \in DOMAIN scenario.members /\ scenario.members[current].kind = "file"
        /\ \E n \in 1..scenario.stored : Archive[n].at = "head" /\ Archive[n].member = current
    <3>1. /\ current \in DOMAIN scenario.members /\ scenario.members[current].kind = "file"
          /\ \E n \in 1..sent : Archive[n].at = "head" /\ Archive[n].member = current
      BY <1>3 DEF PlaceInv, ReadBody, Sent
    <3>2. 1..sent \subseteq 1..scenario.stored
      BY <1>1, ScenarioFacts DEF PlaceInv, TypeOK
    <3>3. QED
      BY <3>1, <3>2
  <2>2. Opened(scenario.members[current].name) \in reach
    BY <1>1, <2>1, ListedReach
  <2>3. QED
    BY <1>3, <2>2, ReadBodyContent
<1>4. CASE ReadTrailer
  BY <1>1, <1>4 DEF ReadTrailer
<1>5. QED
  BY <1>2, <1>3, <1>4 DEF Reading

LEMMA SameReach ==
  ASSUME scenario' = scenario
  PROVE  reach' = reach
BY DEF reach, Listed, Was, Archive

LEMMA SameComplete ==
  ASSUME UNCHANGED <<scenario, sent>>
  PROVE  complete' = complete
BY DEF complete, Archive

LEMMA SameEntries ==
  ASSUME \A n \in Name : SameContent(ws'[n], ws[n])
  PROVE  content' = content
BY DEF content, SameContent

(* When nothing is left to be extracted, all of the object was read. *)
LEMMA FinishComplete ==
  ASSUME CopyInv, PlaceInv, extractor = "finish"
  PROVE  complete
<1>1. /\ scenario \in Scenarios /\ sent \in Nat /\ sent <= scenario.stored
      /\ scenario.stored \in Nat /\ scenario.stored <= Len(Archive) /\ Len(Archive) \in Nat
  BY ScenarioFacts, ArchiveFacts DEF PlaceInv, TypeOK
<1>2. CASE sent > 0 /\ Archive[sent].at = "trailer"
  <2>1. sent \in 1..Len(Archive)
    BY <1>1, <1>2
  <2>2. sent = Len(Archive)
    BY <1>1, <1>2, <2>1, ArchiveFacts
  <2>3. QED
    BY <1>1, <1>2, <2>2 DEF complete
<1>3. CASE EndsWell /\ writer = "eof"
  BY <1>3 DEF CopyInv, EndsWell, complete
<1>4. QED
  BY <1>2, <1>3 DEF CopyInv, Ended

LEMMA StepImplements ==
  ASSUME CopyInv, PlaceInv, KindInv, [Next]_vars
  PROVE  [Contract!Next]_<<ret, complete, reach, content>>
<1>1. scenario' = scenario /\ reach' = reach
  <2>1. scenario' = scenario
    BY DEF Next, Request, Goroutine, Reading, Extractor, GetOpens, GetFails, GetRefused,
       CopyEnds, GetReturns, CloseWriter, GetTimesOut, ReadHeader, ReadBody, ReadTrailer,
       Next1, ReadEOF, ReadError, Finish, vars
  <2>2. QED
    BY <2>1, SameReach
<1>2. ASSUME ws' = ws PROVE content' = content
  BY <1>2 DEF content
<1>3. ASSUME Fail PROVE ret' = "error"
  BY <1>3 DEF Fail
<1>4. CASE Request \/ Goroutine \/ GetTimesOut \/ UNCHANGED vars
  <2>1. UNCHANGED <<sent, ws, ret>>
    BY <1>4 DEF Request, Goroutine, GetOpens, GetFails, GetRefused, CopyEnds, GetReturns,
       CloseWriter, GetTimesOut, extractVars, vars
  <2>2. QED
    BY <1>1, <1>2, <2>1, SameComplete
<1>5. CASE Reading
  <2>1. ret = "none" /\ ~ complete
    BY <1>5 DEF Reading, ReadHeader, ReadBody, ReadTrailer, Next1, PlaceInv, TypeOK, complete
  <2>2. ret' = ret \/ ret' = "error"
    BY <1>5 DEF Reading, ReadHeader, ReadBody, ReadTrailer, Fail
  <2>3. \A n \in Name \ reach : content'[n] = content[n]
    BY <1>5, ReadingInReach DEF content, SameContent
  <2>4. QED
    BY <1>1, <2>1, <2>2, <2>3
       DEF Contract!Next, Contract!Extract, Contract!Fail, Contract!Read
<1>6. CASE ReadEOF \/ ReadError
  <2>1. /\ UNCHANGED <<sent, ws>> /\ ret = "none"
        /\ ret' = ret \/ ret' = "error"
    BY <1>6 DEF ReadEOF, ReadError, Fail, getVars, PlaceInv
  <2>2. complete' = complete /\ content' = content
    BY <1>1, <1>2, <2>1, SameComplete
  <2>3. QED
    BY <1>1, <2>1, <2>2 DEF Contract!Next, Contract!Fail, Contract!Read
<1>7. CASE Finish
  <2>1. extractor = "finish" /\ sent' = sent /\ ret = "none" /\ ret' = "ok"
    BY <1>7 DEF Finish, getVars, PlaceInv
  <2>2. complete /\ complete' = complete
    BY <1>1, <2>1, FinishComplete, SameComplete
  <2>3. content' = content
    BY <1>7, FinishContent, SameEntries
  <2>4. QED
    BY <1>1, <2>1, <2>2, <2>3 DEF Contract!Next, Contract!Succeed
<1>8. QED
  BY <1>4, <1>5, <1>6, <1>7 DEF Next, Extractor

(* The reach of an object is in the workspace. *)
LEMMA ReachType ==
  ASSUME scenario \in Scenarios
  PROVE  reach \subseteq Name
<1>1. \A m \in Listed : m.name \in Name
  BY ScenarioFacts DEF Listed
<1>2. QED
  BY <1>1, GetPipeAssumption DEF reach

(***************************************************************************)
(* The pipe, storage.Get, the backend and Extract together implement the   *)
(* download that Restore relies on: whatever fails and whatever was in the *)
(* workspace, a restore leaves alone what its object does not lead to.     *)
(***************************************************************************)
THEOREM SpecImplementsDownload == Spec => ImplementsDownload
<1>1. Init => Contract!Init
  BY ReachType DEF Init, Contract!Init
<1>2. ExtractInv => PlaceInv
  BY DEF ExtractInv
<1>3. QED
  BY <1>1, <1>2, InitCopy, NextCopy, InitExtract, NextExtract, InitKinds, NextKinds,
     StepImplements, PTL
     DEF Spec, ImplementsDownload, Contract!Spec, Contract!vars
=============================================================================
