---------------------------- MODULE HarnessProofs ----------------------------
(***************************************************************************)
(* Proofs about Harness, for any number of saves, restores, workers and    *)
(* failing requests.  Only the checksum of the manifest makes a restore    *)
(* from parts safe, as part objects are shared by all saves of the key     *)
(* (HInv); a save follows each of its parts from the buffer to the list of *)
(* the manifest (UploadInv), so the manifest is complete, and what a       *)
(* worker reports as stored is stored unless another save ran (SavedInv).  *)
(***************************************************************************)
EXTENDS Harness, SequenceLemmas, FiniteSetTheorems, TLAPS

(* The sum of a manifest is that of one save. *)
Sums(m) == m.kind = "manifest" /\ \E u \in Upload : m.checksum = Content(u)

CombineInv ==
  /\ object.kind = "manifest" => Sums(object)
  /\ \A d \in Download :
       /\ get[d] = "parts" => Sums(manifest[d])
       /\ get[d] = "combined" => \E u \in Upload : written[d] = Content(u)

(* The domains of what the calls assign to. *)
GetDomain ==
  /\ DOMAIN get = Download
  /\ DOMAIN manifest = Download
  /\ DOMAIN written = Download

HInv == GetDomain /\ CombineInv

LEMMA InitH == Init => HInv
BY DEF Init, StoreInit, PutInit, GetInit, NoObject, HInv, GetDomain, CombineInv

(* What is stored is what was there, plain bytes, or a manifest of a save. *)
LEMMA PutStores ==
  ASSUME NEW u \in Upload, PutCallStep(u)
  PROVE  /\ scenario' = scenario
         /\ \/ object' = object
            \/ object'.kind = "plain"
            \/ Sums(object')
<1>1. CASE PutMarker(u) \/ ReadFails(u) \/ Refuse(u) \/ Initiate(u) \/ CollectPart(u)
  BY <1>1 DEF PutMarker, ReadFails, Refuse, Initiate, CollectPart, storeVars
<1>2. CASE PutPlain(u)
  BY <1>2 DEF PutPlain, StoreObject, Plain
<1>3. CASE Complete(u)
  <2>1. /\ scenario' = scenario
        /\ object' \in {object, Manifest(Sorted(completed[u]), Content(u))}
    BY <1>3 DEF Complete, StoreObject
  <2>2. Sums(Manifest(Sorted(completed[u]), Content(u)))
    BY DEF Manifest, Sums
  <2>3. QED
    BY <2>1, <2>2
<1>4. QED
  BY <1>1, <1>2, <1>3 DEF PutCallStep

LEMMA WorkersStore ==
  ASSUME NEW u \in Upload, DistributorStep(u) \/ \E w \in scenario.workers : PutWorkerStep(u, w)
  PROVE  scenario' = scenario /\ object' = object
<1>1. CASE DistributorStep(u)
  BY <1>1 DEF DistributorStep, CutPart, CloseJobs, storeVars
<1>2. ASSUME NEW w \in scenario.workers, PutWorkerStep(u, w)
      PROVE  scenario' = scenario /\ object' = object
  BY <1>2 DEF PutWorkerStep, TakeJob, WorkerEnds, AskPartLink, TestPartErr, PutPart, SendResult, storeVars
<1>3. QED
  BY <1>1, <1>2

LEMMA PutKeeps ==
  ASSUME HInv, PutNext, UNCHANGED getVars
  PROVE  HInv'
<1>1. /\ scenario' = scenario
      /\ object' = object \/ object'.kind = "plain" \/ Sums(object')
  BY PutStores, WorkersStore DEF PutNext
<1>2. \A u \in Upload : Content(u)' = Content(u)
  BY <1>1 DEF Content
<1>3. \A m : Sums(m) => Sums(m)'
  BY <1>2 DEF Sums
<1>4. UNCHANGED <<get, manifest, written>>
  BY DEF getVars
<1>5. object'.kind = "manifest" => Sums(object)'
  <2>1. CASE object' = object
    BY <1>2, <2>1 DEF HInv, CombineInv, Sums
  <2>2. CASE object'.kind = "plain"
    BY <2>2
  <2>3. CASE Sums(object')
    BY <1>2, <2>3 DEF Sums
  <2>4. QED
    BY <1>1, <2>1, <2>2, <2>3
<1>6. QED
  BY <1>2, <1>4, <1>5 DEF HInv, GetDomain, CombineInv, Sums

(* The workers of a restore write nothing and return nothing. *)
LEMMA FetcherKeeps ==
  ASSUME NEW d \in Download, NEW w \in scenario.workers, FetcherStep(d, w)
  PROVE  UNCHANGED <<scenario, object, get, manifest, written>>
BY DEF FetcherStep, TakePart, FetcherEnds, AskFetchLink, TestFetchErr, FetchPart, SendPart, storeVars

LEMMA CallKeeps ==
  ASSUME HInv, NEW d \in Download, GetCallStep(d)
  PROVE  HInv'
<1>1. UNCHANGED <<scenario, object>>
  BY DEF GetCallStep, GetFails, DecodeManifest, DecodeFails, CopyAgain, PlacePart, Combine, storeVars
<1>2. \A u \in Upload : Content(u)' = Content(u)
  BY <1>1 DEF Content
<1>3. /\ DOMAIN get' = Download /\ DOMAIN manifest' = Download /\ DOMAIN written' = Download
      /\ \A e \in Download \ {d} : get'[e] = get[e] /\ manifest'[e] = manifest[e] /\ written'[e] = written[e]
  BY DEF GetCallStep, GetFails, DecodeManifest, DecodeFails, CopyAgain, PlacePart, Combine,
         GetReturns, HInv, GetDomain
<1>4. /\ get'[d] = "parts" => Sums(manifest'[d])
      /\ get'[d] = "combined" => \E u \in Upload : written'[d] = Content(u)
  <2>1. CASE GetFails(d) \/ DecodeFails(d) \/ CopyAgain(d)
    BY <2>1 DEF GetFails, DecodeFails, CopyAgain, GetReturns, HInv, GetDomain
  <2>2. CASE DecodeManifest(d)
    <3>1. get'[d] = "parts" /\ manifest'[d] = object /\ object.kind = "manifest"
      BY <2>2 DEF DecodeManifest, GetReturns, HInv, GetDomain
    <3>2. QED
      BY <3>1 DEF HInv, CombineInv
  <2>3. CASE PlacePart(d)
    <3>1. get[d] = "parts" /\ get'[d] \in {"parts", "error"} /\ manifest' = manifest
      BY <2>3 DEF PlacePart, GetReturns, HInv, GetDomain
    <3>2. QED
      BY <3>1 DEF HInv, CombineInv
  <2>4. CASE Combine(d)
    <3>1. Sums(manifest[d])
      BY <2>4 DEF Combine, HInv, CombineInv
    <3>2. get'[d] \in {"combined", "error"}
      BY <2>4 DEF Combine, GetReturns, HInv, GetDomain
    <3>3. get'[d] = "combined" => Intact(d) /\ written'[d] = FlattenSeq(downloaded[d])
      BY <2>4 DEF Combine, GetReturns, HInv, GetDomain
    <3>4. QED
      BY <3>1, <3>2, <3>3 DEF Intact, Sums
  <2>5. QED
    BY <2>1, <2>2, <2>3, <2>4 DEF GetCallStep
<1>5. QED
  BY <1>1, <1>2, <1>3, <1>4 DEF HInv, GetDomain, CombineInv, Sums

LEMMA NextH == HInv /\ [Next]_vars => HInv'
<1> SUFFICES ASSUME HInv, [Next]_vars PROVE HInv'
  OBVIOUS
<1>1. ASSUME UNCHANGED <<scenario, object, get, manifest, written>> PROVE HInv'
  BY <1>1 DEF HInv, GetDomain, CombineInv, Sums, Content
<1>2. CASE PutNext /\ UNCHANGED getVars
  BY <1>2, PutKeeps
<1>3. CASE GetNext
  BY <1>1, <1>3, CallKeeps, FetcherKeeps DEF GetNext
<1>4. CASE UNCHANGED vars
  BY <1>1, <1>4 DEF vars, storeVars, getVars
<1>5. QED
  BY <1>2, <1>3, <1>4 DEF Next

(***************************************************************************)
(* Parts of different saves are never restored together, whichever saves   *)
(* overwrote whose part objects while they were downloaded.                *)
(***************************************************************************)
THEOREM SpecCombinedIsOneUpload == Spec => []CombinedIsOneUpload
<1>1. HInv => CombinedIsOneUpload
  BY DEF HInv, CombineInv, CombinedIsOneUpload
<1>2. QED
  BY <1>1, InitH, NextH, PTL DEF Spec

-----------------------------------------------------------------------------
(***************************************************************************)
(* Where the parts of an upload are.  Part n of upload u is what lies      *)
(* between the ends of n - 1 and of n whole chunks.                        *)
(***************************************************************************)
End(u, n) == IF n * scenario.chunk < scenario.size[u]
               THEN n * scenario.chunk ELSE scenario.size[u]

Piece(u, a, b) == [k \in 1..(b - a) |-> <<u, a + k>>]

Part(u, n) == Piece(u, End(u, n - 1), End(u, n))

(* N parts are the whole upload, and one less would not be. *)
Whole(u, N) ==
  /\ N \in Nat
  /\ scenario.size[u] <= N * scenario.chunk
  /\ N * scenario.chunk < scenario.size[u] + scenario.chunk

WorkerState == [at: {"ended", "idle", "link", "test", "request", "send"},
                number: Nat, bytes: Seq(Bytes), tries: 0..(MaxTries - 1),
                link: BOOLEAN, failed: BOOLEAN]

Job    == [number: Nat, bytes: Seq(Bytes)]
Result == [number: Nat, failed: BOOLEAN]

PutTypes(u) ==
  /\ put[u] \in {"unused", "start", "parts", "ok", "error"}
  /\ cut[u] \in Nat
  /\ left[u] \in Seq(Bytes)
  /\ jobs[u] \in Seq(Job)
  /\ closed[u] \in BOOLEAN
  /\ worker[u] \in [scenario.workers -> WorkerState]
  /\ results[u] \in Seq(Result)
  /\ completed[u] \in Seq(Nat)

(* What has been cut off, and the jobs that no worker has taken. *)
Given(u) == cut[u] - Len(jobs[u])

CutInv(u) ==
  /\ left[u] = Piece(u, End(u, cut[u]), scenario.size[u])
  /\ cut[u] > 0 => scenario.chunk > 0 /\ (cut[u] - 1) * scenario.chunk < scenario.size[u]
  /\ Len(jobs[u]) <= cut[u]
  /\ \A k \in 1..Len(jobs[u]) :
       /\ jobs[u][k].number = Given(u) + k
       /\ jobs[u][k].bytes = Part(u, Given(u) + k)

(* A part that was given is in the hand of a worker, reported, or listed. *)
Busy(s) == s.at \in {"link", "test", "request", "send"}

InHand(u, n)   == \E w \in scenario.workers : Busy(worker[u][w]) /\ worker[u][w].number = n
Reported(u, n) == \E k \in 1..Len(results[u]) : results[u][k].number = n
Listed(u, n)   == \E k \in 1..Len(completed[u]) : completed[u][k] = n

HeldOnce(u) ==
  /\ \A n \in Nat : InHand(u, n) \/ Reported(u, n) \/ Listed(u, n) => n \in 1..Given(u)
  /\ \A n \in Nat : /\ ~ (InHand(u, n) /\ Reported(u, n))
                    /\ ~ (InHand(u, n) /\ Listed(u, n))
                    /\ ~ (Reported(u, n) /\ Listed(u, n))
  /\ \A v, w \in scenario.workers :
       Busy(worker[u][v]) /\ Busy(worker[u][w]) /\ worker[u][v].number = worker[u][w].number
         => v = w
  /\ \A j, k \in 1..Len(results[u]) : results[u][j].number = results[u][k].number => j = k
  /\ \A j, k \in 1..Len(completed[u]) : completed[u][j] = completed[u][k] => j = k

HeldInv(u) ==
  /\ HeldOnce(u)
  /\ put[u] = "parts" =>
       \A n \in 1..Given(u) : InHand(u, n) \/ Reported(u, n) \/ Listed(u, n)
  /\ \A w \in scenario.workers : Busy(worker[u][w]) =>
       worker[u][w].bytes = Part(u, worker[u][w].number)

(* How far the call and its goroutines are. *)
AllEnded(u) == closed[u] /\ \A w \in scenario.workers : worker[u][w].at = "ended"

PhaseInv(u) ==
  /\ put[u] \in {"unused", "start"} =>
       /\ AllEnded(u) /\ cut[u] = 0 /\ jobs[u] = <<>> /\ results[u] = <<>> /\ completed[u] = <<>>
  /\ put[u] = "ok" => AllEnded(u)
  /\ put[u] = "parts" \/ ~ closed[u] => scenario.chunk > 0
  /\ put[u] = "parts" =>
       /\ closed[u] => left[u] = <<>>
       /\ \A w \in scenario.workers :
            worker[u][w].at = "ended" => closed[u] /\ jobs[u] = <<>>

UploadInv(u) == PutTypes(u) /\ CutInv(u) /\ HeldInv(u) /\ PhaseInv(u)

(* Nobody else has written anything. *)
Alone(u) == \A v \in Upload \ {u} : put[v] \in {"unused", "start"}

(* A worker, or what it reported, says that part n is stored. *)
Done(u, n) ==
  \/ \E w \in scenario.workers :
       worker[u][w].at = "send" /\ ~ worker[u][w].failed /\ worker[u][w].number = n
  \/ \E k \in 1..Len(results[u]) : ~ results[u][k].failed /\ results[u][k].number = n
  \/ Listed(u, n)

Stored(u, n) == n \in 1..Len(parts) /\ parts[n] = Part(u, n)

(* The manifest of an upload of N parts. *)
ManifestOf(u, N) == Manifest([k \in 1..N |-> k], Content(u))

SavedInv(u) ==
  Alone(u) =>
    /\ \A n \in Nat : Done(u, n) => Stored(u, n)
    /\ put[u] = "ok" /\ u \notin scenario.dir =>
         \/ object = Plain(Content(u))
         \/ \E N \in Nat : /\ Whole(u, N)
                           /\ object = ManifestOf(u, N)
                           /\ \A n \in 1..N : Stored(u, n)

ObjectInv ==
  \/ object = NoObject
  \/ object.kind = "plain" /\ object.bytes \in Seq(Bytes)
  \/ \E u \in Upload : \E N \in Nat : Whole(u, N) /\ object = ManifestOf(u, N)

PutInv ==
  /\ scenario \in Scenarios
  /\ parts \in Seq(Seq(Bytes))
  /\ ObjectInv
  /\ put \in [Upload -> {"unused", "start", "parts", "ok", "error"}]
  /\ DOMAIN cut = Upload /\ DOMAIN left = Upload /\ DOMAIN jobs = Upload
  /\ DOMAIN closed = Upload /\ DOMAIN worker = Upload
  /\ DOMAIN results = Upload /\ DOMAIN completed = Upload
  /\ \A u \in Upload : UploadInv(u) /\ SavedInv(u)

-----------------------------------------------------------------------------
(* The lengths and the pieces of an upload. *)

LEMMA ScenarioTypes ==
  ASSUME scenario \in Scenarios
  PROVE  /\ scenario.chunk \in Nat /\ scenario.threshold \in Nat
         /\ \A u \in Upload : scenario.size[u] \in Nat
         /\ scenario.workers # {}
         /\ MaxTries \in Nat /\ MaxTries > 0
BY HarnessAssumption DEF Scenario

LEMMA Multiples ==
  ASSUME NEW c \in Nat, NEW n \in Nat
  PROVE  /\ n * c \in Nat /\ (n + 1) * c = n * c + c /\ 0 * c = 0
         /\ n > 0 => (n - 1) * c \in Nat /\ n * c = (n - 1) * c + c
<1>1. n * c \in Nat /\ (n + 1) * c = n * c + c /\ 0 * c = 0
  OBVIOUS
<1>2. ASSUME n > 0 PROVE (n - 1) * c \in Nat /\ n * c = (n - 1) * c + c
  <2>1. PICK k \in Nat : n = k + 1
    <3>1. n - 1 \in Nat /\ n = (n - 1) + 1
      BY <1>2
    <3>2. QED
      BY <3>1
  <2>2. n - 1 = k /\ k * c \in Nat /\ (k + 1) * c = k * c + c
    BY <2>1
  <2>3. QED
    BY <2>1, <2>2
<1>3. QED
  BY <1>1, <1>2

LEMMA EndFacts ==
  ASSUME scenario \in Scenarios, NEW u \in Upload, NEW n \in Nat
  PROVE  /\ End(u, n) \in Nat /\ End(u, n + 1) \in Nat
         /\ End(u, n) <= End(u, n + 1) /\ End(u, n + 1) <= scenario.size[u]
         /\ End(u, 0) = 0
         /\ n * scenario.chunk < scenario.size[u] => End(u, n) = n * scenario.chunk
         /\ End(u, n) < scenario.size[u] =>
              /\ n * scenario.chunk < scenario.size[u]
              /\ End(u, n + 1) = IF scenario.size[u] - End(u, n) < scenario.chunk
                                   THEN scenario.size[u] ELSE End(u, n) + scenario.chunk
<1>1. scenario.chunk \in Nat /\ scenario.size[u] \in Nat
  BY ScenarioTypes
<1>2. PICK p \in Nat : p = n * scenario.chunk
  BY <1>1, Multiples
<1>3. (n + 1) * scenario.chunk = p + scenario.chunk /\ 0 * scenario.chunk = 0
  BY <1>1, <1>2, Multiples
<1>4. End(u, n) = IF p < scenario.size[u] THEN p ELSE scenario.size[u]
  BY <1>2 DEF End
<1>5. End(u, n + 1) = IF p + scenario.chunk < scenario.size[u]
                        THEN p + scenario.chunk ELSE scenario.size[u]
  BY <1>3 DEF End
<1>6. End(u, 0) = 0
  BY <1>1, <1>3 DEF End
<1>7. QED
  BY <1>1, <1>2, <1>4, <1>5, <1>6

LEMMA PieceFacts ==
  ASSUME NEW u \in Upload, NEW a \in Nat, NEW b \in Nat, a <= b
  PROVE  /\ Piece(u, a, b) \in Seq(Bytes)
         /\ Len(Piece(u, a, b)) = b - a
         /\ DOMAIN Piece(u, a, b) = 1..(b - a)
         /\ \A k \in 1..(b - a) : Piece(u, a, b)[k] = <<u, a + k>>
<1>1. b - a \in Nat
  OBVIOUS
<1>2. \A k \in 1..(b - a) : <<u, a + k>> \in Bytes
  BY DEF Bytes
<1>3. Piece(u, a, b) \in [1..(b - a) -> Bytes]
  BY <1>2 DEF Piece
<1>4. QED
  BY <1>1, <1>3, FunctionIsSeq DEF Piece

LEMMA ContentIsPiece ==
  ASSUME scenario \in Scenarios, NEW u \in Upload
  PROVE  Content(u) = Piece(u, 0, scenario.size[u])
<1>1. scenario.size[u] \in Nat
  BY ScenarioTypes
<1>2. QED
  BY <1>1 DEF Content, Piece

(* A piece is cut where another one ends. *)
LEMMA PieceCut ==
  ASSUME NEW u \in Upload, NEW a \in Nat, NEW b \in Nat, NEW c \in Nat, a <= b, b <= c
  PROVE  /\ SubSeq(Piece(u, a, c), 1, b - a) = Piece(u, a, b)
         /\ SubSeq(Piece(u, a, c), (b - a) + 1, c - a) = Piece(u, b, c)
<1> DEFINE s == Piece(u, a, c)
<1>1. /\ s \in Seq(Bytes) /\ Len(s) = c - a
      /\ \A k \in 1..(c - a) : s[k] = <<u, a + k>>
  <2>1. a <= c
    OBVIOUS
  <2>2. QED
    BY <2>1, PieceFacts
<1> HIDE DEF s
<1>2. SubSeq(s, 1, b - a) = [k \in 1..(b - a) |-> s[k]]
  BY <1>1
<1>3. [k \in 1..(b - a) |-> s[k]] = Piece(u, a, b)
  BY <1>1 DEF Piece
<1>4. SubSeq(s, (b - a) + 1, c - a) = [k \in 1..(c - b) |-> s[(b - a) + k]]
  BY <1>1
<1>5. [k \in 1..(c - b) |-> s[(b - a) + k]] = Piece(u, b, c)
  BY <1>1 DEF Piece
<1>6. QED
  BY <1>2, <1>3, <1>4, <1>5 DEF s

-----------------------------------------------------------------------------
(* What a step leaves alone. *)

PutDomains ==
  /\ DOMAIN put = Upload /\ DOMAIN cut = Upload /\ DOMAIN left = Upload
  /\ DOMAIN jobs = Upload /\ DOMAIN closed = Upload /\ DOMAIN worker = Upload
  /\ DOMAIN results = Upload /\ DOMAIN completed = Upload

SamePart(u) ==
  /\ scenario' = scenario
  /\ put'[u] = put[u] /\ cut'[u] = cut[u] /\ left'[u] = left[u] /\ jobs'[u] = jobs[u]
  /\ closed'[u] = closed[u] /\ worker'[u] = worker[u]
  /\ results'[u] = results[u] /\ completed'[u] = completed[u]

LEMMA PiecesStay ==
  ASSUME scenario' = scenario
  PROVE  /\ \A u, n : End(u, n)' = End(u, n) /\ Part(u, n)' = Part(u, n)
         /\ \A u : Content(u)' = Content(u)
         /\ \A u, N : Whole(u, N)' <=> Whole(u, N)
         /\ \A u, N : ManifestOf(u, N)' = ManifestOf(u, N)
BY DEF End, Part, Piece, Content, Whole, ManifestOf

LEMMA HolderStays ==
  ASSUME NEW u \in Upload, scenario' = scenario, worker'[u] = worker[u],
         results'[u] = results[u], completed'[u] = completed[u]
  PROVE  \A n : /\ InHand(u, n)' <=> InHand(u, n)
                /\ Reported(u, n)' <=> Reported(u, n)
                /\ Listed(u, n)' <=> Listed(u, n)
                /\ Done(u, n)' <=> Done(u, n)
BY DEF InHand, Reported, Listed, Done

LEMMA HeldStays ==
  ASSUME NEW u \in Upload, HeldInv(u), scenario' = scenario, Given(u)' = Given(u),
         worker'[u] = worker[u], results'[u] = results[u], completed'[u] = completed[u],
         put'[u] = "parts" => put[u] = "parts"
  PROVE  HeldInv(u)'
<1>1. \A n : /\ InHand(u, n)' <=> InHand(u, n)
             /\ Reported(u, n)' <=> Reported(u, n)
             /\ Listed(u, n)' <=> Listed(u, n)
  BY HolderStays
<1>2. HeldOnce(u)'
  BY <1>1 DEF HeldInv, HeldOnce
<1>3. QED
  BY <1>1, <1>2, PiecesStay DEF HeldInv

LEMMA CutStays ==
  ASSUME NEW u \in Upload, CutInv(u), scenario' = scenario, cut'[u] = cut[u],
         left'[u] = left[u], jobs'[u] = jobs[u]
  PROVE  CutInv(u)' /\ Given(u)' = Given(u)
<1>1. Given(u)' = Given(u)
  BY DEF Given
<1>2. End(u, cut[u])' = End(u, cut[u])
  BY DEF End
<1>3. \A n : Part(u, n)' = Part(u, n)
  BY PiecesStay
<1>4. QED
  BY <1>1, <1>2, <1>3 DEF CutInv

LEMMA UploadStays ==
  ASSUME NEW u \in Upload, UploadInv(u), SamePart(u)
  PROVE  UploadInv(u)'
<1>1. Given(u)' = Given(u)
  BY DEF Given, SamePart
<1>2. PutTypes(u)'
  BY DEF UploadInv, PutTypes, SamePart
<1>3. CutInv(u)'
  BY CutStays DEF UploadInv, SamePart
<1>4. HeldInv(u)'
  BY <1>1, HeldStays DEF UploadInv, SamePart
<1>5. PhaseInv(u)'
  BY DEF UploadInv, PhaseInv, AllEnded, SamePart
<1>6. QED
  BY <1>2, <1>3, <1>4, <1>5 DEF UploadInv

-----------------------------------------------------------------------------
(* The distributor. *)

LEMMA ChunkIsPart ==
  ASSUME scenario \in Scenarios, NEW u \in Upload, UploadInv(u), scenario.chunk > 0, left[u] # <<>>
  PROVE  /\ Chunk(u) = Part(u, cut[u] + 1) /\ Chunk(u) \in Seq(Bytes)
         /\ SubSeq(left[u], Len(Chunk(u)) + 1, Len(left[u]))
              = Piece(u, End(u, cut[u] + 1), scenario.size[u])
         /\ cut[u] * scenario.chunk < scenario.size[u]
<1> DEFINE e == End(u, cut[u])
           f == End(u, cut[u] + 1)
           z == scenario.size[u]
<1>1. cut[u] \in Nat /\ scenario.chunk \in Nat /\ z \in Nat
  BY ScenarioTypes DEF UploadInv, PutTypes
<1>2. e \in Nat /\ f \in Nat /\ e <= f /\ f <= z
  BY <1>1, EndFacts
<1>3. left[u] = Piece(u, e, z)
  BY DEF UploadInv, CutInv
<1>4. Len(left[u]) = z - e /\ e < z
  <2>1. Len(left[u]) = z - e /\ DOMAIN left[u] = 1..(z - e) /\ left[u] \in Seq(Bytes)
    <3>1. e <= z
      BY <1>1, <1>2
    <3>2. QED
      BY <1>1, <1>2, <1>3, <3>1, PieceFacts
  <2>2. e # z
    BY <1>1, <2>1
  <2>3. QED
    BY <1>1, <1>2, <2>1, <2>2
<1>5. /\ cut[u] * scenario.chunk < z
      /\ f = IF z - e < scenario.chunk THEN z ELSE e + scenario.chunk
  BY <1>1, <1>4, EndFacts
<1>6. (IF Len(left[u]) < scenario.chunk THEN Len(left[u]) ELSE scenario.chunk) = f - e
  BY <1>1, <1>2, <1>4, <1>5
<1>7. Chunk(u) = SubSeq(Piece(u, e, z), 1, f - e)
  BY <1>3, <1>6 DEF Chunk
<1> HIDE DEF e, f, z
<1>8. Chunk(u) = Piece(u, e, f)
  BY <1>1, <1>2, <1>7, PieceCut
<1>9. Len(Chunk(u)) = f - e /\ Chunk(u) \in Seq(Bytes)
  BY <1>2, <1>8, PieceFacts
<1>10. SubSeq(left[u], Len(Chunk(u)) + 1, Len(left[u])) = Piece(u, f, z)
  <2>1. SubSeq(Piece(u, e, z), (f - e) + 1, z - e) = Piece(u, f, z)
    <3>1. \A a, b, c \in Nat : a <= b /\ b <= c =>
            SubSeq(Piece(u, a, c), (b - a) + 1, c - a) = Piece(u, b, c)
      BY PieceCut
    <3>2. QED
      BY <1>1, <1>2, <3>1
  <2>2. QED
    BY <1>3, <1>4, <1>9, <2>1
<1>11. Part(u, cut[u] + 1) = Piece(u, e, f)
  <2>1. (cut[u] + 1) - 1 = cut[u]
    BY <1>1
  <2>2. QED
    BY <2>1 DEF Part, e, f
<1>12. QED
  BY <1>5, <1>8, <1>9, <1>10, <1>11 DEF f, z

LEMMA CutPartKeeps ==
  ASSUME scenario \in Scenarios, PutDomains, NEW u \in Upload, UploadInv(u), CutPart(u)
  PROVE  UploadInv(u)'
<1>0. PICK c : c = cut[u]
  OBVIOUS
<1> DEFINE job == [number |-> c + 1, bytes |-> Chunk(u)]
<1>1. /\ ~ closed[u] /\ left[u] # <<>>
      /\ jobs'[u] = Append(jobs[u], job)
      /\ left'[u] = SubSeq(left[u], Len(Chunk(u)) + 1, Len(left[u]))
      /\ cut'[u] = c + 1
      /\ scenario' = scenario
      /\ UNCHANGED <<put, closed, worker, results, completed>>
  BY <1>0 DEF CutPart, PutDomains, storeVars
<1>2. scenario.chunk > 0
  BY <1>1 DEF UploadInv, PhaseInv
<1>3. /\ Chunk(u) = Part(u, c + 1) /\ Chunk(u) \in Seq(Bytes)
      /\ left'[u] = Piece(u, End(u, c + 1), scenario.size[u])
      /\ c * scenario.chunk < scenario.size[u]
  BY <1>0, <1>1, <1>2, ChunkIsPart
<1>4. c \in Nat /\ scenario.size[u] \in Nat /\ jobs[u] \in Seq(Job) /\ job \in Job
  BY <1>0, <1>3, ScenarioTypes DEF UploadInv, PutTypes, Job
<1>5. /\ jobs'[u] \in Seq(Job) /\ Len(jobs'[u]) = Len(jobs[u]) + 1 /\ Len(jobs[u]) \in Nat
      /\ \A k \in 1..Len(jobs[u]) : jobs'[u][k] = jobs[u][k]
      /\ jobs'[u][Len(jobs[u]) + 1] = job
  BY <1>1, <1>4
<1>6. Len(jobs[u]) <= c
  BY <1>0 DEF UploadInv, CutInv
<1>7. Given(u)' = Given(u) /\ Given(u) \in Nat
  <2>1. Given(u)' = (c + 1) - (Len(jobs[u]) + 1)
    BY <1>1, <1>5 DEF Given
  <2>2. Given(u) = c - Len(jobs[u])
    BY <1>0 DEF Given
  <2>3. c \in Nat /\ Len(jobs[u]) \in Nat
    BY <1>4, <1>5
  <2>4. QED
    BY <1>6, <2>1, <2>2, <2>3
<1>8. PutTypes(u)'
  <2>1. left'[u] \in Seq(Bytes)
    <3>1. /\ End(u, c + 1) \in Nat /\ End(u, c + 1) <= scenario.size[u]
          /\ scenario.size[u] \in Nat
      BY <1>4, EndFacts
    <3>2. Piece(u, End(u, c + 1), scenario.size[u]) \in Seq(Bytes)
      BY <3>1, PieceFacts
    <3>3. QED
      BY <1>3, <3>2
  <2>2. QED
    BY <1>1, <1>4, <1>5, <2>1 DEF UploadInv, PutTypes
<1>9. CutInv(u)'
  <2>1. \A k \in 1..Len(jobs'[u]) :
          /\ jobs'[u][k].number = Given(u) + k
          /\ jobs'[u][k].bytes = Part(u, Given(u) + k)
    <3>1. Given(u) + (Len(jobs[u]) + 1) = c + 1
      BY <1>0, <1>4, <1>5 DEF Given
    <3>2. \A k \in 1..Len(jobs'[u]) : k \in 1..Len(jobs[u]) \/ k = Len(jobs[u]) + 1
      BY <1>5
    <3>3. /\ job.number = c + 1 /\ job.bytes = Part(u, c + 1)
      BY <1>3
    <3>4. QED
      BY <1>5, <3>1, <3>2, <3>3 DEF UploadInv, CutInv
  <2>2. (c + 1) - 1 = c
    BY <1>4
  <2>3. left'[u] = Piece(u, End(u, cut[u])', scenario'.size[u])
    <3>1. End(u, cut[u])' = End(u, c + 1)
      BY <1>1 DEF End
    <3>2. QED
      BY <1>1, <1>3, <3>1
  <2>4. Len(jobs'[u]) <= cut'[u]
    BY <1>1, <1>4, <1>5, <1>6
  <2>5. (cut'[u] - 1) * scenario'.chunk < scenario'.size[u]
    BY <1>1, <1>3, <2>2
  <2>6. Given(u)' = cut'[u] - Len(jobs'[u])
    BY DEF Given
  <2>7. \A k : Part(u, Given(u) + k)' = Part(u, Given(u) + k)
    BY <1>1, <1>7, PiecesStay
  <2>8. QED
    BY <1>1, <1>2, <1>7, <2>1, <2>3, <2>4, <2>5, <2>7 DEF CutInv
<1>10. HeldInv(u)'
  BY <1>1, <1>7, HeldStays DEF UploadInv
<1>11. PhaseInv(u)'
  BY <1>1, <1>2 DEF UploadInv, PhaseInv, AllEnded
<1>12. QED
  BY <1>8, <1>9, <1>10, <1>11 DEF UploadInv

LEMMA CloseJobsKeeps ==
  ASSUME PutDomains, NEW u \in Upload, UploadInv(u), CloseJobs(u)
  PROVE  UploadInv(u)'
<1>1. /\ ~ closed[u] /\ left[u] = <<>> /\ closed'[u] = TRUE
      /\ scenario' = scenario
      /\ UNCHANGED <<put, left, cut, jobs, worker, results, completed>>
  BY DEF CloseJobs, AllCut, PutDomains, storeVars
<1>2. Given(u)' = Given(u)
  BY <1>1 DEF Given
<1>3. PutTypes(u)'
  BY <1>1 DEF UploadInv, PutTypes
<1>4. CutInv(u)'
  BY <1>1, CutStays DEF UploadInv
<1>5. HeldInv(u)'
  BY <1>1, <1>2, HeldStays DEF UploadInv
<1>6. PhaseInv(u)'
  BY <1>1 DEF UploadInv, PhaseInv, AllEnded
<1>7. QED
  BY <1>3, <1>4, <1>5, <1>6 DEF UploadInv

-----------------------------------------------------------------------------
(* The workers. *)

LEMMA SetWorkerEffect ==
  ASSUME PutDomains, NEW u \in Upload, NEW w \in scenario.workers, NEW s \in WorkerState,
         worker[u] \in [scenario.workers -> WorkerState], SetWorker(u, w, s)
  PROVE  /\ worker'[u] \in [scenario.workers -> WorkerState]
         /\ worker'[u][w] = s
         /\ \A v \in scenario.workers \ {w} : worker'[u][v] = worker[u][v]
BY DEF SetWorker, PutDomains

LEMMA Worker0Type ==
  ASSUME scenario \in Scenarios
  PROVE  \A at \in {"ended", "idle", "link"} : Worker0(at) \in WorkerState
<1>1. 0 \in 0..(MaxTries - 1)
  BY ScenarioTypes
<1>2. QED
  BY <1>1 DEF Worker0, WorkerState

(* The same workers have the same parts. *)
LEMMA HeldMoves ==
  ASSUME NEW u \in Upload, HeldInv(u), scenario' = scenario, Given(u)' = Given(u),
         \A v \in scenario.workers :
           /\ Busy(worker'[u][v]) <=> Busy(worker[u][v])
           /\ Busy(worker[u][v]) => /\ worker'[u][v].number = worker[u][v].number
                                    /\ worker'[u][v].bytes = worker[u][v].bytes,
         results'[u] = results[u], completed'[u] = completed[u], put'[u] = put[u]
  PROVE  HeldInv(u)'
<1>1. \A n : /\ InHand(u, n)' <=> InHand(u, n)
             /\ Reported(u, n)' <=> Reported(u, n)
             /\ Listed(u, n)' <=> Listed(u, n)
  BY DEF InHand, Reported, Listed
<1>2. HeldOnce(u)'
  BY <1>1 DEF HeldInv, HeldOnce
<1>3. \A v \in scenario.workers : Busy(worker'[u][v]) =>
        worker'[u][v].bytes = Part(u, worker'[u][v].number)
  BY DEF HeldInv
<1>4. \A n : Part(u, n)' = Part(u, n)
  BY PiecesStay
<1>5. \A v \in scenario.workers : Busy(worker'[u][v]) =>
        worker'[u][v].bytes = Part(u, worker[u][v].number)'
  BY <1>3, <1>4
<1>6. QED
  BY <1>1, <1>2, <1>5 DEF HeldInv

LEMMA WorkerEndsKeeps ==
  ASSUME scenario \in Scenarios, PutDomains, NEW u \in Upload, UploadInv(u),
         NEW w \in scenario.workers, WorkerEnds(u, w)
  PROVE  UploadInv(u)'
<1>1. /\ worker[u][w].at = "idle" /\ closed[u] /\ jobs[u] = <<>>
      /\ SetWorker(u, w, Worker0("ended"))
      /\ scenario' = scenario
      /\ UNCHANGED <<put, left, cut, jobs, closed, results, completed>>
  BY DEF WorkerEnds, storeVars
<1>2. Worker0("ended") \in WorkerState /\ ~ Busy(Worker0("ended"))
        /\ Worker0("ended").at = "ended"
  BY Worker0Type DEF Worker0, Busy
<1>3. /\ worker'[u] \in [scenario.workers -> WorkerState]
      /\ worker'[u][w] = Worker0("ended")
      /\ \A v \in scenario.workers \ {w} : worker'[u][v] = worker[u][v]
  BY <1>1, <1>2, SetWorkerEffect DEF UploadInv, PutTypes
<1>4. ~ Busy(worker[u][w])
  BY <1>1 DEF Busy
<1>5. Given(u)' = Given(u)
  BY <1>1 DEF Given
<1>6. HeldInv(u)'
  <2>1. \A v \in scenario.workers :
           /\ Busy(worker'[u][v]) <=> Busy(worker[u][v])
           /\ Busy(worker[u][v]) => /\ worker'[u][v].number = worker[u][v].number
                                    /\ worker'[u][v].bytes = worker[u][v].bytes
    BY <1>2, <1>3, <1>4
  <2>2. HeldInv(u) /\ results'[u] = results[u] /\ completed'[u] = completed[u] /\ put'[u] = put[u]
    BY <1>1 DEF UploadInv
  <2>3. QED
    BY <1>1, <1>5, <2>1, <2>2, HeldMoves
<1>7. PutTypes(u)'
  BY <1>1, <1>3 DEF UploadInv, PutTypes
<1>8. CutInv(u)'
  BY <1>1, CutStays DEF UploadInv
<1>9. PhaseInv(u)'
  BY <1>1, <1>2, <1>3 DEF UploadInv, PhaseInv, AllEnded
<1>10. QED
  BY <1>6, <1>7, <1>8, <1>9 DEF UploadInv

LEMMA TakeJobKeeps ==
  ASSUME scenario \in Scenarios, PutDomains, NEW u \in Upload, UploadInv(u),
         NEW w \in scenario.workers, TakeJob(u, w)
  PROVE  UploadInv(u)'
<1>0. PICK g : g = Given(u)
  OBVIOUS
<1> DEFINE s == [Worker0("link") EXCEPT !.number = Head(jobs[u]).number,
                                        !.bytes = Head(jobs[u]).bytes]
<1>1. /\ worker[u][w].at = "idle" /\ jobs[u] # <<>>
      /\ SetWorker(u, w, s)
      /\ jobs'[u] = Tail(jobs[u])
      /\ scenario' = scenario
      /\ UNCHANGED <<put, left, cut, closed, results, completed>>
  BY DEF TakeJob, storeVars, PutDomains
<1>2. /\ jobs[u] \in Seq(Job) /\ Len(jobs[u]) > 0 /\ Len(jobs[u]) \in Nat
      /\ Head(jobs[u]) = jobs[u][1] /\ jobs[u][1] \in Job
      /\ jobs'[u] \in Seq(Job) /\ Len(jobs'[u]) = Len(jobs[u]) - 1
      /\ \A k \in 1..(Len(jobs[u]) - 1) : jobs'[u][k] = jobs[u][k + 1]
  BY <1>1 DEF UploadInv, PutTypes
<1>3. /\ cut[u] \in Nat /\ Len(jobs[u]) <= cut[u] /\ g = cut[u] - Len(jobs[u]) /\ g \in Nat
  BY <1>0, <1>2 DEF UploadInv, PutTypes, CutInv, Given
<1>4. Given(u)' = g + 1
  BY <1>1, <1>2, <1>3 DEF Given
<1>5. jobs[u][1].number = g + 1 /\ jobs[u][1].bytes = Part(u, g + 1)
  BY <1>0, <1>2 DEF UploadInv, CutInv
<1>6. /\ s \in WorkerState /\ s.at = "link" /\ s.number = g + 1 /\ s.bytes = Part(u, g + 1)
      /\ ~ (s.at = "send")
  <2>1. Worker0("link") \in WorkerState /\ Worker0("link").at = "link"
    BY Worker0Type DEF Worker0
  <2>2. jobs[u][1].number \in Nat /\ jobs[u][1].bytes \in Seq(Bytes)
    BY <1>2 DEF Job
  <2>3. s = [at |-> "link", number |-> jobs[u][1].number, bytes |-> jobs[u][1].bytes,
             tries |-> 0, link |-> FALSE, failed |-> FALSE]
    <3> DEFINE no == FALSE
    <3> HIDE DEF no
    <3>1. PICK n, b : n = Head(jobs[u]).number /\ b = Head(jobs[u]).bytes
      OBVIOUS
    <3>2. [[at |-> "link", number |-> 0, bytes |-> <<>>, tries |-> 0, link |-> no, failed |-> no]
             EXCEPT !.number = n]
            = [at |-> "link", number |-> n, bytes |-> <<>>, tries |-> 0, link |-> no, failed |-> no]
      OBVIOUS
    <3>3. [[at |-> "link", number |-> n, bytes |-> <<>>, tries |-> 0, link |-> no, failed |-> no]
             EXCEPT !.bytes = b]
            = [at |-> "link", number |-> n, bytes |-> b, tries |-> 0, link |-> no, failed |-> no]
      OBVIOUS
    <3>4. Worker0("link")
            = [at |-> "link", number |-> 0, bytes |-> <<>>, tries |-> 0, link |-> no, failed |-> no]
      BY DEF Worker0, no
    <3>5. s = [[Worker0("link") EXCEPT !.number = n] EXCEPT !.bytes = b]
      BY <3>1
    <3>6. n = jobs[u][1].number /\ b = jobs[u][1].bytes
      BY <1>2, <3>1
    <3>7. QED
      BY <3>2, <3>3, <3>4, <3>5, <3>6 DEF no
  <2>4. 0 \in 0..(MaxTries - 1)
    BY ScenarioTypes
  <2>5. QED
    BY <1>5, <2>2, <2>3, <2>4 DEF WorkerState
<1> HIDE DEF s
<1>7. /\ worker'[u] \in [scenario.workers -> WorkerState]
      /\ worker'[u][w] = s
      /\ \A v \in scenario.workers \ {w} : worker'[u][v] = worker[u][v]
  BY <1>1, <1>6, SetWorkerEffect DEF UploadInv, PutTypes
<1>8. ~ Busy(worker[u][w]) /\ Busy(worker'[u][w])
  BY <1>1, <1>6, <1>7 DEF Busy
<1>9. PutTypes(u)'
  BY <1>1, <1>2, <1>7 DEF UploadInv, PutTypes
<1>10. CutInv(u)'
  <2>1. ASSUME NEW k \in 1..Len(jobs'[u])
        PROVE  jobs'[u][k].number = (g + 1) + k /\ jobs'[u][k].bytes = Part(u, (g + 1) + k)
    <3>1. k + 1 \in 1..Len(jobs[u]) /\ k \in 1..(Len(jobs[u]) - 1) /\ g + (k + 1) = (g + 1) + k
      BY <1>2, <1>3
    <3>2. jobs[u][k + 1].number = g + (k + 1) /\ jobs[u][k + 1].bytes = Part(u, g + (k + 1))
      BY <1>0, <3>1 DEF UploadInv, CutInv
    <3>3. QED
      BY <1>2, <3>1, <3>2
  <2>2. \A k : Part(u, (g + 1) + k)' = Part(u, (g + 1) + k)
    BY <1>1, PiecesStay
  <2>3. left'[u] = Piece(u, End(u, cut[u])', scenario'.size[u])
    <3>1. End(u, cut[u])' = End(u, cut[u])
      BY <1>1 DEF End
    <3>2. QED
      BY <1>1, <3>1 DEF UploadInv, CutInv
  <2>4. Len(jobs'[u]) <= cut'[u]
    BY <1>1, <1>2, <1>3
  <2>5. QED
    BY <1>1, <1>4, <2>1, <2>2, <2>3, <2>4 DEF UploadInv, CutInv
<1>11. \A n \in Nat : n \in 1..(g + 1) <=> n \in 1..g \/ n = g + 1
  BY <1>3
<1>12. /\ \A n : InHand(u, n)' <=> InHand(u, n) \/ n = g + 1
       /\ \A n : Reported(u, n)' <=> Reported(u, n)
       /\ \A n : Listed(u, n)' <=> Listed(u, n)
  BY <1>1, <1>6, <1>7, <1>8 DEF InHand, Reported, Listed
<1>13. /\ ~ InHand(u, g + 1) /\ ~ Reported(u, g + 1) /\ ~ Listed(u, g + 1)
  <2>1. g + 1 \in Nat /\ g + 1 \notin 1..g
    BY <1>3
  <2>2. QED
    BY <1>0, <2>1 DEF UploadInv, HeldInv, HeldOnce
<1>14. HeldOnce(u)'
  <2>1. \A n \in Nat : InHand(u, n)' \/ Reported(u, n)' \/ Listed(u, n)' => n \in 1..(g + 1)
    BY <1>0, <1>11, <1>12 DEF UploadInv, HeldInv, HeldOnce
  <2>2. \A n \in Nat : /\ ~ (InHand(u, n)' /\ Reported(u, n)')
                       /\ ~ (InHand(u, n)' /\ Listed(u, n)')
                       /\ ~ (Reported(u, n)' /\ Listed(u, n)')
    BY <1>12, <1>13 DEF UploadInv, HeldInv, HeldOnce
  <2>3. ASSUME NEW v \in scenario.workers, NEW x \in scenario.workers,
               Busy(worker'[u][v]), Busy(worker'[u][x]),
               worker'[u][v].number = worker'[u][x].number
        PROVE  v = x
    <3>1. CASE v # w /\ x # w
      BY <1>7, <2>3, <3>1 DEF UploadInv, HeldInv, HeldOnce
    <3>2. CASE v = w /\ x # w
      BY <1>6, <1>7, <1>13, <2>3, <3>2 DEF InHand
    <3>3. CASE v # w /\ x = w
      BY <1>6, <1>7, <1>13, <2>3, <3>3 DEF InHand
    <3>4. QED
      BY <3>1, <3>2, <3>3
  <2>4. QED
    BY <1>1, <1>4, <2>1, <2>2, <2>3 DEF UploadInv, HeldInv, HeldOnce
<1>15. HeldInv(u)'
  <2>1. put'[u] = "parts" =>
          \A n \in 1..(g + 1) : InHand(u, n)' \/ Reported(u, n)' \/ Listed(u, n)'
    BY <1>0, <1>1, <1>3, <1>11, <1>12 DEF UploadInv, HeldInv
  <2>2. \A v \in scenario.workers : Busy(worker'[u][v]) =>
          worker'[u][v].bytes = Part(u, worker'[u][v].number)
    BY <1>6, <1>7 DEF UploadInv, HeldInv
  <2>3. \A n : Part(u, n)' = Part(u, n)
    BY <1>1, PiecesStay
  <2>4. \A v \in scenario.workers : Busy(worker'[u][v]) =>
          worker'[u][v].bytes = Part(u, worker[u][v].number)'
    BY <2>2, <2>3
  <2>5. QED
    BY <1>1, <1>4, <1>14, <2>1, <2>4 DEF HeldInv
<1>16. PhaseInv(u)'
  <2>1. ~ AllEnded(u)
    BY <1>1 DEF AllEnded
  <2>2. put'[u] = "parts" => \A v \in scenario.workers : worker'[u][v].at # "ended"
    BY <1>1, <1>6, <1>7 DEF UploadInv, PhaseInv
  <2>3. QED
    BY <1>1, <2>1, <2>2 DEF UploadInv, PhaseInv
<1>17. QED
  BY <1>9, <1>10, <1>15, <1>16 DEF UploadInv

(* A worker that has a part keeps it, whatever its request comes to. *)
SamePartOf(s, t) == t \in WorkerState /\ t.number = s.number /\ t.bytes = s.bytes

LEMMA StateChanges ==
  ASSUME NEW s \in WorkerState, NEW at \in {"link", "test", "request", "send"},
         NEW ok \in BOOLEAN
  PROVE  /\ SamePartOf(s, [s EXCEPT !.at = at]) /\ [s EXCEPT !.at = at].at = at
         /\ SamePartOf(s, [s EXCEPT !.at = at, !.failed = ok])
         /\ [s EXCEPT !.at = at, !.failed = ok].at = at
         /\ [s EXCEPT !.at = at, !.failed = ok].failed = ok
<1>1. PICK a, n, b, t, l, f :
        /\ s = [at |-> a, number |-> n, bytes |-> b, tries |-> t, link |-> l, failed |-> f]
        /\ n \in Nat /\ b \in Seq(Bytes) /\ t \in 0..(MaxTries - 1)
        /\ l \in BOOLEAN /\ f \in BOOLEAN
  BY DEF WorkerState
<1> DEFINE r == [at |-> at, number |-> n, bytes |-> b, tries |-> t, link |-> l, failed |-> f]
<1>2. [s EXCEPT !.at = at] = r
  BY <1>1
<1>4. [r EXCEPT !.failed = ok]
        = [at |-> at, number |-> n, bytes |-> b, tries |-> t, link |-> l, failed |-> ok]
  OBVIOUS
<1>6. SamePartOf(s, r) /\ r.at = at
  BY <1>1 DEF SamePartOf, WorkerState
<1>8. /\ SamePartOf(s, [r EXCEPT !.failed = ok])
      /\ [r EXCEPT !.failed = ok].at = at
      /\ [r EXCEPT !.failed = ok].failed = ok
  BY <1>1, <1>4 DEF SamePartOf, WorkerState
<1> HIDE DEF r
<1>9. QED
  BY <1>2, <1>6, <1>8

LEMMA LinkChange ==
  ASSUME NEW s \in WorkerState, NEW ok \in BOOLEAN
  PROVE  /\ SamePartOf(s, [s EXCEPT !.at = "test", !.link = ok])
         /\ [s EXCEPT !.at = "test", !.link = ok].at = "test"
<1>1. PICK a, n, b, t, l, f :
        /\ s = [at |-> a, number |-> n, bytes |-> b, tries |-> t, link |-> l, failed |-> f]
        /\ n \in Nat /\ b \in Seq(Bytes) /\ t \in 0..(MaxTries - 1)
        /\ f \in BOOLEAN
  BY DEF WorkerState
<1> DEFINE r == [at |-> "test", number |-> n, bytes |-> b, tries |-> t, link |-> l, failed |-> f]
<1>2. [s EXCEPT !.at = "test"] = r
  BY <1>1
<1>3. [r EXCEPT !.link = ok]
        = [at |-> "test", number |-> n, bytes |-> b, tries |-> t, link |-> ok, failed |-> f]
  OBVIOUS
<1>4. /\ SamePartOf(s, [r EXCEPT !.link = ok])
      /\ [r EXCEPT !.link = ok].at = "test"
  BY <1>1, <1>3 DEF SamePartOf, WorkerState
<1> HIDE DEF r
<1>5. QED
  BY <1>2, <1>4

LEMMA TriesChange ==
  ASSUME NEW s \in WorkerState, NEW at \in {"link", "test", "request", "send"},
         NEW u \in 0..(MaxTries - 1)
  PROVE  /\ SamePartOf(s, [s EXCEPT !.at = at, !.tries = u])
         /\ [s EXCEPT !.at = at, !.tries = u].at = at
<1>1. PICK a, n, b, t, l, f :
        /\ s = [at |-> a, number |-> n, bytes |-> b, tries |-> t, link |-> l, failed |-> f]
        /\ n \in Nat /\ b \in Seq(Bytes)
        /\ l \in BOOLEAN /\ f \in BOOLEAN
  BY DEF WorkerState
<1> DEFINE r == [at |-> at, number |-> n, bytes |-> b, tries |-> t, link |-> l, failed |-> f]
<1>2. [s EXCEPT !.at = at] = r
  BY <1>1
<1>3. [r EXCEPT !.tries = u]
        = [at |-> at, number |-> n, bytes |-> b, tries |-> u, link |-> l, failed |-> f]
  OBVIOUS
<1>4. /\ SamePartOf(s, [r EXCEPT !.tries = u])
      /\ [r EXCEPT !.tries = u].at = at
  BY <1>1, <1>3 DEF SamePartOf, WorkerState
<1> HIDE DEF r
<1>5. QED
  BY <1>2, <1>4

LEMMA AgainEffect ==
  ASSUME scenario \in Scenarios, NEW s \in WorkerState
  PROVE  /\ SamePartOf(s, Again(s))
         /\ Again(s).at \in {"link", "send"}
         /\ Again(s).at = "send" => Again(s).failed
<1>1. CASE TriesLeft(s)
  <2>1. s.tries \in 0..(MaxTries - 1) /\ MaxTries \in Nat
    BY ScenarioTypes DEF WorkerState
  <2>2. s.tries + 1 \in 0..(MaxTries - 1)
    BY <1>1, <2>1 DEF TriesLeft
  <2>3. PICK t \in 0..(MaxTries - 1) : t = s.tries + 1
    BY <2>2
  <2>4. Again(s) = [s EXCEPT !.at = "link", !.tries = t]
    BY <1>1, <2>3 DEF Again
  <2>5. /\ SamePartOf(s, [s EXCEPT !.at = "link", !.tries = t])
        /\ [s EXCEPT !.at = "link", !.tries = t].at = "link"
    BY TriesChange
  <2>6. QED
    BY <2>4, <2>5
<1>2. CASE ~ TriesLeft(s)
  <2>1. Again(s) = [s EXCEPT !.at = "send", !.failed = TRUE]
    BY <1>2 DEF Again
  <2>2. /\ SamePartOf(s, [s EXCEPT !.at = "send", !.failed = TRUE])
        /\ [s EXCEPT !.at = "send", !.failed = TRUE].at = "send"
        /\ [s EXCEPT !.at = "send", !.failed = TRUE].failed
    <3>1. TRUE \in BOOLEAN /\ "send" \in {"link", "test", "request", "send"}
      OBVIOUS
    <3>2. QED
      BY <3>1, StateChanges
  <2>3. QED
    BY <2>1, <2>2
<1>3. QED
  BY <1>1, <1>2

(* What the requests of a worker are for the rest of the upload. *)
GoesOn(u, w, t) ==
  /\ SetWorker(u, w, t)
  /\ SamePartOf(worker[u][w], t)
  /\ Busy(worker[u][w]) /\ Busy(t) /\ worker[u][w].at # "send"
  /\ UNCHANGED <<scenario, object, put, left, cut, jobs, closed, results, completed>>
  /\ parts' \in {parts, PartsWith(worker[u][w].number, worker[u][w].bytes)}
  /\ t.at = "send" /\ ~ t.failed => parts' = PartsWith(worker[u][w].number, worker[u][w].bytes)

LEMMA WorkerGoesOn ==
  ASSUME scenario \in Scenarios, NEW u \in Upload, UploadInv(u), NEW w \in scenario.workers,
         AskPartLink(u, w) \/ TestPartErr(u, w) \/ PutPart(u, w)
  PROVE  \E t : GoesOn(u, w, t)
<1> DEFINE s == worker[u][w]
<1>0. s \in WorkerState
  BY DEF UploadInv, PutTypes
<1>1. CASE AskPartLink(u, w)
  <2>1. PICK ok \in BOOLEAN : SetWorker(u, w, [s EXCEPT !.at = "test", !.link = ok])
    BY <1>1 DEF AskPartLink
  <2>2. /\ s.at = "link"
        /\ UNCHANGED <<scenario, object, parts, put, left, cut, jobs, closed, results, completed>>
    BY <1>1 DEF AskPartLink
  <2>3. /\ SamePartOf(s, [s EXCEPT !.at = "test", !.link = ok])
        /\ [s EXCEPT !.at = "test", !.link = ok].at = "test"
    BY <1>0, LinkChange
  <2>4. GoesOn(u, w, [s EXCEPT !.at = "test", !.link = ok])
    BY <2>1, <2>2, <2>3 DEF GoesOn, Busy
  <2>5. QED
    BY <2>4
<1>2. CASE TestPartErr(u, w)
  <2>1. /\ s.at = "test"
        /\ UNCHANGED <<scenario, object, parts, put, left, cut, jobs, closed, results, completed>>
    BY <1>2 DEF TestPartErr, storeVars
  <2>2. CASE partErr[u]
    <3>1. SetWorker(u, w, Again(s))
      BY <1>2, <2>2 DEF TestPartErr
    <3>2. GoesOn(u, w, Again(s))
      BY <1>0, <2>1, <3>1, AgainEffect DEF GoesOn, Busy
    <3>3. QED
      BY <3>2
  <2>3. CASE ~ partErr[u]
    <3>1. SetWorker(u, w, [s EXCEPT !.at = "request"])
      BY <1>2, <2>3 DEF TestPartErr
    <3>2. /\ SamePartOf(s, [s EXCEPT !.at = "request"])
          /\ [s EXCEPT !.at = "request"].at = "request"
      <4>1. "request" \in {"link", "test", "request", "send"} /\ TRUE \in BOOLEAN
        OBVIOUS
      <4>2. QED
        BY <1>0, <4>1, StateChanges
    <3>3. GoesOn(u, w, [s EXCEPT !.at = "request"])
      BY <2>1, <3>1, <3>2 DEF GoesOn, Busy
    <3>4. QED
      BY <3>3
  <2>4. QED
    BY <2>2, <2>3
<1>3. CASE PutPart(u, w)
  <2>1. /\ s.at = "request"
        /\ UNCHANGED <<scenario, object, put, left, cut, jobs, closed, results, completed>>
    BY <1>3 DEF PutPart, storeVars
  <2>2. \/ SetWorker(u, w, Again(s)) /\ parts' \in {parts, PartsWith(s.number, s.bytes)}
        \/ SetWorker(u, w, [s EXCEPT !.at = "send"]) /\ parts' = PartsWith(s.number, s.bytes)
    <3>1. CASE SetWorker(u, w, Again(s)) /\ UNCHANGED storeVars
      BY <3>1 DEF storeVars
    <3>2. CASE \E out \in PutOutcome :
                 /\ parts' = IF out.stored THEN PartsWith(s.number, s.bytes) ELSE parts
                 /\ SetWorker(u, w, IF out.ok THEN [s EXCEPT !.at = "send"] ELSE Again(s))
      <4>1. PICK out \in PutOutcome :
              /\ parts' = IF out.stored THEN PartsWith(s.number, s.bytes) ELSE parts
              /\ SetWorker(u, w, IF out.ok THEN [s EXCEPT !.at = "send"] ELSE Again(s))
        BY <3>2
      <4>2. out.ok => out.stored
        BY DEF PutOutcome
      <4>3. CASE out.ok
        BY <4>1, <4>2, <4>3
      <4>4. CASE ~ out.ok
        BY <4>1, <4>4
      <4>5. QED
        BY <4>3, <4>4
    <3>3. QED
      BY <1>3, <3>1, <3>2 DEF PutPart
  <2>3. CASE SetWorker(u, w, Again(s)) /\ parts' \in {parts, PartsWith(s.number, s.bytes)}
    <3>1. GoesOn(u, w, Again(s))
      BY <1>0, <2>1, <2>3, AgainEffect DEF GoesOn, Busy
    <3>2. QED
      BY <3>1
  <2>4. CASE SetWorker(u, w, [s EXCEPT !.at = "send"]) /\ parts' = PartsWith(s.number, s.bytes)
    <3>1. /\ SamePartOf(s, [s EXCEPT !.at = "send"])
          /\ [s EXCEPT !.at = "send"].at = "send"
      <4>1. "send" \in {"link", "test", "request", "send"} /\ TRUE \in BOOLEAN
        OBVIOUS
      <4>2. QED
        BY <1>0, <4>1, StateChanges
    <3>2. GoesOn(u, w, [s EXCEPT !.at = "send"])
      BY <2>1, <2>4, <3>1 DEF GoesOn, Busy
    <3>3. QED
      BY <3>2
  <2>5. QED
    BY <2>2, <2>3, <2>4
<1>4. QED
  BY <1>1, <1>2, <1>3

LEMMA GoesOnKeeps ==
  ASSUME PutDomains, NEW u \in Upload, UploadInv(u), NEW w \in scenario.workers,
         NEW t, GoesOn(u, w, t)
  PROVE  UploadInv(u)'
<1>1. /\ worker'[u] \in [scenario.workers -> WorkerState]
      /\ worker'[u][w] = t
      /\ \A v \in scenario.workers \ {w} : worker'[u][v] = worker[u][v]
  BY SetWorkerEffect DEF GoesOn, SamePartOf, UploadInv, PutTypes
<1>2. UNCHANGED <<scenario, put, left, cut, jobs, closed, results, completed>>
  BY DEF GoesOn
<1>3. CutInv(u)' /\ Given(u)' = Given(u)
  BY <1>2, CutStays DEF UploadInv
<1>4. HeldInv(u)'
  <2>1. \A v \in scenario.workers :
           /\ Busy(worker'[u][v]) <=> Busy(worker[u][v])
           /\ Busy(worker[u][v]) => /\ worker'[u][v].number = worker[u][v].number
                                    /\ worker'[u][v].bytes = worker[u][v].bytes
    BY <1>1 DEF GoesOn, SamePartOf
  <2>2. HeldInv(u) /\ results'[u] = results[u] /\ completed'[u] = completed[u] /\ put'[u] = put[u]
    BY <1>2 DEF UploadInv
  <2>3. QED
    BY <1>2, <1>3, <2>1, <2>2, HeldMoves
<1>5. PutTypes(u)'
  BY <1>1, <1>2 DEF UploadInv, PutTypes
<1>6. PhaseInv(u)'
  <2>1. ~ AllEnded(u) /\ t.at # "ended"
    BY DEF GoesOn, Busy, AllEnded
  <2>2. QED
    BY <1>1, <1>2, <2>1 DEF UploadInv, PhaseInv
<1>7. QED
  BY <1>3, <1>4, <1>5, <1>6 DEF UploadInv

LEMMA SendResultKeeps ==
  ASSUME scenario \in Scenarios, PutDomains, NEW u \in Upload, UploadInv(u),
         NEW w \in scenario.workers, SendResult(u, w)
  PROVE  UploadInv(u)'
<1>0. PICK n0 : n0 = worker[u][w].number
  OBVIOUS
<1> DEFINE r == [number |-> worker[u][w].number, failed |-> worker[u][w].failed]
<1>1. /\ worker[u][w].at = "send"
      /\ SetWorker(u, w, Worker0("idle"))
      /\ results'[u] = Append(results[u], r)
      /\ UNCHANGED <<scenario, put, left, cut, jobs, closed, completed>>
  BY DEF SendResult, storeVars, PutDomains
<1>2. worker[u][w] \in WorkerState /\ results[u] \in Seq(Result)
  BY DEF UploadInv, PutTypes
<1>3. r \in Result /\ r.number = n0 /\ n0 \in Nat
  BY <1>0, <1>2 DEF WorkerState, Result
<1> HIDE DEF r
<1>4. /\ results'[u] \in Seq(Result) /\ Len(results[u]) \in Nat
      /\ Len(results'[u]) = Len(results[u]) + 1
      /\ \A k \in 1..Len(results[u]) : results'[u][k] = results[u][k]
      /\ results'[u][Len(results[u]) + 1] = r
  BY <1>1, <1>2, <1>3
<1>5. /\ worker'[u] \in [scenario.workers -> WorkerState]
      /\ worker'[u][w] = Worker0("idle") /\ Worker0("idle").at = "idle"
      /\ \A v \in scenario.workers \ {w} : worker'[u][v] = worker[u][v]
  <2>1. Worker0("idle") \in WorkerState /\ Worker0("idle").at = "idle"
    BY Worker0Type DEF Worker0
  <2>2. QED
    BY <1>1, <2>1, SetWorkerEffect DEF UploadInv, PutTypes
<1>6. Busy(worker[u][w]) /\ ~ Busy(worker'[u][w])
  BY <1>1, <1>5 DEF Busy
<1>7. CutInv(u)' /\ Given(u)' = Given(u)
  BY <1>1, CutStays DEF UploadInv
<1>8. PutTypes(u)'
  BY <1>1, <1>4, <1>5 DEF UploadInv, PutTypes
<1>9. PhaseInv(u)'
  <2>1. ~ AllEnded(u)
    BY <1>1 DEF AllEnded
  <2>2. QED
    BY <1>1, <1>5, <2>1 DEF UploadInv, PhaseInv
<1>10. \A n : InHand(u, n)' <=> InHand(u, n) /\ n # n0
  <2>1. ASSUME NEW n, InHand(u, n)' PROVE InHand(u, n) /\ n # n0
    <3>1. PICK v \in scenario.workers : Busy(worker'[u][v]) /\ worker'[u][v].number = n
      BY <1>1, <2>1 DEF InHand
    <3>2. v # w /\ Busy(worker[u][v]) /\ worker[u][v].number = n
      BY <1>5, <1>6, <3>1
    <3>3. QED
      BY <1>0, <1>6, <3>2 DEF InHand, UploadInv, HeldInv, HeldOnce
  <2>2. ASSUME NEW n, InHand(u, n), n # n0 PROVE InHand(u, n)'
    BY <1>0, <1>1, <1>5, <2>2 DEF InHand
  <2>3. QED
    BY <2>1, <2>2
<1>11. \A n : Reported(u, n)' <=> Reported(u, n) \/ n = n0
  <2>1. \A k \in 1..Len(results'[u]) : k \in 1..Len(results[u]) \/ k = Len(results[u]) + 1
    BY <1>4
  <2>2. 1..Len(results[u]) \subseteq 1..Len(results'[u])
          /\ Len(results[u]) + 1 \in 1..Len(results'[u])
    BY <1>4
  <2>3. QED
    BY <1>3, <1>4, <2>1, <2>2 DEF Reported
<1>12. \A n : Listed(u, n)' <=> Listed(u, n)
  BY <1>1 DEF Listed
<1>13. InHand(u, n0)
  BY <1>0, <1>6 DEF InHand
<1>14. HeldOnce(u)'
  <2>1. \A n \in Nat : InHand(u, n)' \/ Reported(u, n)' \/ Listed(u, n)' => n \in 1..Given(u)
    BY <1>10, <1>11, <1>12, <1>13 DEF UploadInv, HeldInv, HeldOnce
  <2>2. \A n \in Nat : /\ ~ (InHand(u, n)' /\ Reported(u, n)')
                       /\ ~ (InHand(u, n)' /\ Listed(u, n)')
                       /\ ~ (Reported(u, n)' /\ Listed(u, n)')
    BY <1>10, <1>11, <1>12, <1>13 DEF UploadInv, HeldInv, HeldOnce
  <2>3. \A v, x \in scenario.workers :
          Busy(worker'[u][v]) /\ Busy(worker'[u][x])
            /\ worker'[u][v].number = worker'[u][x].number => v = x
    BY <1>5, <1>6 DEF UploadInv, HeldInv, HeldOnce
  <2>4. ~ Reported(u, n0)
    BY <1>3, <1>13 DEF UploadInv, HeldInv, HeldOnce
  <2>5. ASSUME NEW j \in 1..Len(results'[u]), NEW k \in 1..Len(results'[u]),
               results'[u][j].number = results'[u][k].number
        PROVE  j = k
    <3>1. CASE j \in 1..Len(results[u]) /\ k \in 1..Len(results[u])
      BY <1>4, <2>5, <3>1 DEF UploadInv, HeldInv, HeldOnce
    <3>2. CASE j \in 1..Len(results[u]) /\ k = Len(results[u]) + 1
      BY <1>3, <1>4, <2>4, <2>5, <3>2 DEF Reported
    <3>3. CASE j = Len(results[u]) + 1 /\ k \in 1..Len(results[u])
      BY <1>3, <1>4, <2>4, <2>5, <3>3 DEF Reported
    <3>4. QED
      BY <1>4, <3>1, <3>2, <3>3
  <2>6. QED
    BY <1>1, <1>7, <2>1, <2>2, <2>3, <2>5 DEF UploadInv, HeldInv, HeldOnce
<1>15. HeldInv(u)'
  <2>1. \A v \in scenario.workers : Busy(worker'[u][v]) =>
          worker'[u][v] = worker[u][v] /\ Busy(worker[u][v])
    BY <1>5, <1>6
  <2>2. \A n : Part(u, n)' = Part(u, n)
    BY <1>1, PiecesStay
  <2>3. \A v \in scenario.workers : Busy(worker'[u][v]) =>
          worker'[u][v].bytes = Part(u, worker[u][v].number)'
    BY <2>1, <2>2 DEF UploadInv, HeldInv
  <2>4. put'[u] = "parts" =>
          \A n \in 1..Given(u) : InHand(u, n)' \/ Reported(u, n)' \/ Listed(u, n)'
    BY <1>1, <1>10, <1>11, <1>12 DEF UploadInv, HeldInv
  <2>5. QED
    BY <1>1, <1>7, <1>14, <2>3, <2>4 DEF HeldInv
<1>16. QED
  BY <1>7, <1>8, <1>9, <1>15 DEF UploadInv

-----------------------------------------------------------------------------
(* The function. *)

LEMMA CollectPartKeeps ==
  ASSUME PutDomains, NEW u \in Upload, UploadInv(u), CollectPart(u)
  PROVE  UploadInv(u)'
<1>0. PICK n0 : n0 = results[u][1].number
  OBVIOUS
<1>1. /\ put[u] = "parts" /\ results[u] # <<>>
      /\ results'[u] = Tail(results[u])
      /\ \/ put'[u] = "error" /\ completed'[u] = completed[u]
         \/ put'[u] = "parts" /\ completed'[u] = Append(completed[u], Head(results[u]).number)
      /\ UNCHANGED <<scenario, left, cut, jobs, closed, worker>>
  BY DEF CollectPart, storeVars, PutDomains, Return
<1>2. results[u] \in Seq(Result) /\ completed[u] \in Seq(Nat)
  BY DEF UploadInv, PutTypes
<1>3. /\ Len(results[u]) \in Nat /\ Len(results[u]) > 0
      /\ Head(results[u]) = results[u][1] /\ n0 \in Nat
      /\ results'[u] \in Seq(Result) /\ Len(results'[u]) = Len(results[u]) - 1
      /\ \A k \in 1..(Len(results[u]) - 1) : results'[u][k] = results[u][k + 1]
  <2>1. /\ Len(results[u]) \in Nat /\ Len(results[u]) > 0
        /\ Head(results[u]) = results[u][1] /\ results[u][1] \in Result
        /\ results'[u] \in Seq(Result) /\ Len(results'[u]) = Len(results[u]) - 1
        /\ \A k \in 1..(Len(results[u]) - 1) : results'[u][k] = results[u][k + 1]
    BY <1>1, <1>2, TailParts
  <2>2. QED
    BY <1>0, <2>1 DEF Result
<1>4. \/ put'[u] = "error" /\ completed'[u] = completed[u]
      \/ /\ put'[u] = "parts" /\ completed'[u] \in Seq(Nat)
         /\ Len(completed'[u]) = Len(completed[u]) + 1
         /\ \A k \in 1..Len(completed[u]) : completed'[u][k] = completed[u][k]
         /\ completed'[u][Len(completed[u]) + 1] = n0
  <2>1. Head(results[u]).number = n0
    BY <1>0, <1>3
  <2>2. CASE put'[u] = "parts" /\ completed'[u] = Append(completed[u], n0)
    BY <1>2, <1>3, <2>2, AppendParts
  <2>3. QED
    BY <1>1, <2>1, <2>2
<1>5. CutInv(u)' /\ Given(u)' = Given(u)
  BY <1>1, CutStays DEF UploadInv
<1>6. PutTypes(u)'
  BY <1>1, <1>2, <1>3, <1>4 DEF UploadInv, PutTypes
<1>7. PhaseInv(u)'
  BY <1>1, <1>4 DEF UploadInv, PhaseInv, AllEnded
<1>8. Reported(u, n0)
  BY <1>0, <1>3 DEF Reported
<1>9. ~ InHand(u, n0) /\ ~ Listed(u, n0) /\ n0 \in 1..Given(u)
  BY <1>3, <1>8 DEF UploadInv, HeldInv, HeldOnce
<1>10. \A n : Reported(u, n)' <=> Reported(u, n) /\ n # n0
  <2>1. ASSUME NEW n, Reported(u, n)' PROVE Reported(u, n) /\ n # n0
    <3>1. PICK k \in 1..Len(results'[u]) : results'[u][k].number = n
      BY <2>1 DEF Reported
    <3>2. k + 1 \in 1..Len(results[u]) /\ k + 1 # 1 /\ 1 \in 1..Len(results[u])
            /\ results[u][k + 1].number = n
      BY <1>3, <3>1
    <3>3. QED
      BY <1>0, <3>2 DEF Reported, UploadInv, HeldInv, HeldOnce
  <2>2. ASSUME NEW n, Reported(u, n), n # n0 PROVE Reported(u, n)'
    <3>1. PICK k \in 1..Len(results[u]) : results[u][k].number = n
      BY <2>2 DEF Reported
    <3>2. k - 1 \in 1..Len(results'[u]) /\ k = (k - 1) + 1 /\ k - 1 \in 1..(Len(results[u]) - 1)
      <4>1. k # 1
        BY <1>0, <2>2, <3>1
      <4>2. Len(results[u]) \in Nat /\ k \in 1..Len(results[u])
        BY <1>3, <3>1
      <4>3. Len(results'[u]) = Len(results[u]) - 1
        BY <1>3
      <4>4. QED
        BY <4>1, <4>2, <4>3
    <3>3. results'[u][k - 1].number = n
      BY <1>3, <3>1, <3>2
    <3>4. QED
      BY <3>2, <3>3 DEF Reported
  <2>3. QED
    BY <2>1, <2>2
<1>11. /\ \A n : Listed(u, n)' => Listed(u, n) \/ n = n0
       /\ put'[u] = "parts" => \A n : Listed(u, n) \/ n = n0 => Listed(u, n)'
  <2>1. CASE completed'[u] = completed[u] /\ put'[u] = "error"
    BY <2>1 DEF Listed
  <2>2. CASE /\ Len(completed'[u]) = Len(completed[u]) + 1
             /\ \A k \in 1..Len(completed[u]) : completed'[u][k] = completed[u][k]
             /\ completed'[u][Len(completed[u]) + 1] = n0
    <3>1. Len(completed[u]) \in Nat
      BY <1>2
    <3>2. \A k \in 1..Len(completed'[u]) : k \in 1..Len(completed[u]) \/ k = Len(completed[u]) + 1
      BY <2>2, <3>1
    <3>3. 1..Len(completed[u]) \subseteq 1..Len(completed'[u])
            /\ Len(completed[u]) + 1 \in 1..Len(completed'[u])
      BY <2>2, <3>1
    <3>4. QED
      BY <2>2, <3>2, <3>3 DEF Listed
  <2>3. QED
    BY <1>4, <2>1, <2>2
<1>12. \A n : InHand(u, n)' <=> InHand(u, n)
  BY <1>1 DEF InHand
<1>13. HeldOnce(u)'
  <2>1. \A n \in Nat : InHand(u, n)' \/ Reported(u, n)' \/ Listed(u, n)' => n \in 1..Given(u)
    BY <1>9, <1>10, <1>11, <1>12 DEF UploadInv, HeldInv, HeldOnce
  <2>2. \A n \in Nat : /\ ~ (InHand(u, n)' /\ Reported(u, n)')
                       /\ ~ (InHand(u, n)' /\ Listed(u, n)')
                       /\ ~ (Reported(u, n)' /\ Listed(u, n)')
    BY <1>9, <1>10, <1>11, <1>12 DEF UploadInv, HeldInv, HeldOnce
  <2>3. ASSUME NEW j \in 1..Len(results'[u]), NEW k \in 1..Len(results'[u]),
               results'[u][j].number = results'[u][k].number
        PROVE  j = k
    <3>1. /\ j + 1 \in 1..Len(results[u]) /\ k + 1 \in 1..Len(results[u])
          /\ results[u][j + 1].number = results[u][k + 1].number
      <4>1. /\ j \in 1..(Len(results[u]) - 1) /\ j + 1 \in 1..Len(results[u])
            /\ k \in 1..(Len(results[u]) - 1) /\ k + 1 \in 1..Len(results[u])
        BY <1>3
      <4>2. results'[u][j] = results[u][j + 1] /\ results'[u][k] = results[u][k + 1]
        BY <1>3, <4>1
      <4>3. QED
        BY <2>3, <4>1, <4>2
    <3>2. j + 1 = k + 1
      BY <3>1 DEF UploadInv, HeldInv, HeldOnce
    <3>3. QED
      BY <1>3, <3>2
  <2>4. ASSUME NEW j \in 1..Len(completed'[u]), NEW k \in 1..Len(completed'[u]),
               completed'[u][j] = completed'[u][k]
        PROVE  j = k
    <3>1. CASE completed'[u] = completed[u]
      BY <2>4, <3>1 DEF UploadInv, HeldInv, HeldOnce
    <3>2. CASE /\ Len(completed'[u]) = Len(completed[u]) + 1
               /\ \A m \in 1..Len(completed[u]) : completed'[u][m] = completed[u][m]
               /\ completed'[u][Len(completed[u]) + 1] = n0
      <4>1. Len(completed[u]) \in Nat
        BY <1>2
      <4>2. CASE j \in 1..Len(completed[u]) /\ k \in 1..Len(completed[u])
        BY <2>4, <3>2, <4>2 DEF UploadInv, HeldInv, HeldOnce
      <4>3. CASE j \in 1..Len(completed[u]) /\ k = Len(completed[u]) + 1
        BY <1>9, <2>4, <3>2, <4>3 DEF Listed
      <4>4. CASE j = Len(completed[u]) + 1 /\ k \in 1..Len(completed[u])
        BY <1>9, <2>4, <3>2, <4>4 DEF Listed
      <4>5. QED
        BY <3>2, <4>1, <4>2, <4>3, <4>4
    <3>3. QED
      BY <1>4, <3>1, <3>2
  <2>5. QED
    BY <1>1, <1>5, <2>1, <2>2, <2>3, <2>4 DEF UploadInv, HeldInv, HeldOnce
<1>14. HeldInv(u)'
  <2>1. \A n : Part(u, n)' = Part(u, n)
    BY <1>1, PiecesStay
  <2>2. \A v \in scenario.workers : Busy(worker'[u][v]) =>
          worker'[u][v].bytes = Part(u, worker[u][v].number)'
    BY <1>1, <2>1 DEF UploadInv, HeldInv
  <2>3. put'[u] = "parts" =>
          \A n \in 1..Given(u) : InHand(u, n)' \/ Reported(u, n)' \/ Listed(u, n)'
    BY <1>1, <1>10, <1>11, <1>12 DEF UploadInv, HeldInv
  <2>4. QED
    BY <1>1, <1>5, <1>13, <2>2, <2>3 DEF HeldInv
<1>15. QED
  BY <1>5, <1>6, <1>7, <1>14 DEF UploadInv

LEMMA InitiateKeeps ==
  ASSUME scenario \in Scenarios, PutDomains, NEW u \in Upload, UploadInv(u), Initiate(u)
  PROVE  UploadInv(u)'
<1>1. /\ put[u] = "start" /\ scenario.chunk > 0
      /\ \/ /\ put'[u] = "parts" /\ closed'[u] = FALSE
            /\ worker'[u] = [w \in scenario.workers |-> Worker0("idle")]
         \/ put'[u] = "error" /\ closed'[u] = closed[u] /\ worker'[u] = worker[u]
      /\ UNCHANGED <<scenario, left, cut, jobs, results, completed>>
  BY DEF Initiate, Buffering, Accepted, PutDomains, Return
<1>2. /\ AllEnded(u) /\ cut[u] = 0 /\ jobs[u] = <<>> /\ results[u] = <<>> /\ completed[u] = <<>>
  BY <1>1 DEF UploadInv, PhaseInv
<1>3. Worker0("idle") \in WorkerState /\ Worker0("idle").at = "idle"
  BY Worker0Type DEF Worker0
<1>4. \A w \in scenario.workers : ~ Busy(worker[u][w]) /\ ~ Busy(worker'[u][w])
  BY <1>1, <1>2, <1>3 DEF AllEnded, Busy
<1>5. CutInv(u)' /\ Given(u)' = Given(u) /\ Given(u) = 0
  <2>1. CutInv(u)' /\ Given(u)' = Given(u)
    BY <1>1, CutStays DEF UploadInv
  <2>2. Given(u) = 0
    <3>1. jobs[u] \in Seq(Job) /\ jobs[u] = <<>>
      BY <1>2 DEF UploadInv, PutTypes
    <3>2. Len(jobs[u]) = 0
      BY <3>1
    <3>3. cut[u] = 0
      BY <1>2
    <3>4. QED
      BY <3>2, <3>3 DEF Given
  <2>3. QED
    BY <2>1, <2>2
<1>6. PutTypes(u)'
  BY <1>1, <1>3 DEF UploadInv, PutTypes
<1>7. HeldInv(u)'
  <2>1. \A n : ~ InHand(u, n)' /\ ~ Reported(u, n)' /\ ~ Listed(u, n)'
    BY <1>1, <1>2, <1>4 DEF InHand, Reported, Listed
  <2>2. QED
    BY <1>1, <1>2, <1>4, <1>5, <2>1 DEF HeldInv, HeldOnce
<1>8. PhaseInv(u)'
  BY <1>1, <1>3 DEF UploadInv, PhaseInv, AllEnded
<1>9. QED
  BY <1>5, <1>6, <1>7, <1>8 DEF UploadInv

(* A call that returns leaves the goroutines to themselves. *)
LEMMA ReturnKeeps ==
  ASSUME NEW u \in Upload, UploadInv(u), scenario' = scenario, UNCHANGED goroutineVars,
         put'[u] = "error" \/ (put'[u] = "ok" /\ AllEnded(u))
  PROVE  UploadInv(u)'
<1>1. UNCHANGED <<left, cut, jobs, closed, worker, results, completed>>
  BY DEF goroutineVars
<1>2. CutInv(u)' /\ Given(u)' = Given(u)
  BY <1>1, CutStays DEF UploadInv
<1>3. HeldInv(u)'
  BY <1>1, <1>2, HeldStays DEF UploadInv
<1>4. PutTypes(u)'
  BY <1>1 DEF UploadInv, PutTypes
<1>5. PhaseInv(u)'
  BY <1>1 DEF UploadInv, PhaseInv, AllEnded
<1>6. QED
  BY <1>2, <1>3, <1>4, <1>5 DEF UploadInv

-----------------------------------------------------------------------------
(* Sorting the numbers of the parts. *)

(* f numbers the elements of A from 1 to N, each once. *)
Numbers(f, A, N) ==
  /\ f \in [A -> 1..N]
  /\ \A a, b \in A : f[a] = f[b] => a = b
  /\ \A n \in 1..N : \E a \in A : f[a] = n

LEMMA CountOf ==
  ASSUME NEW A, NEW N \in Nat, NEW f, Numbers(f, A, N)
  PROVE  IsFiniteSet(A) /\ Cardinality(A) = N
<1>1. f \in Bijection(A, 1..N)
  BY DEF Numbers, Bijection, Injection, Surjection, IsInjective
<1>2. f \in Injection(A, 1..N) /\ f \in Surjection(A, 1..N)
  BY <1>1 DEF Bijection
<1>3. IsFiniteSet(1..N) /\ Cardinality(1..N) = N
  <2>1. /\ IsFiniteSet(1..N)
        /\ Cardinality(1..N) = IF 1 > N THEN 0 ELSE N - 1 + 1
    BY FS_Interval
  <2>2. QED
    BY <2>1
<1>4. /\ IsFiniteSet(A)
      /\ Cardinality(A) = Cardinality(1..N) <=> f \in Surjection(A, 1..N)
  BY <1>2, <1>3, FS_Injection
<1>5. QED
  BY <1>2, <1>3, <1>4

LEMMA SortedNumbers ==
  ASSUME NEW s \in Seq(Nat), NEW N \in Nat,
         \A k \in 1..Len(s) : s[k] \in 1..N,
         \A j, k \in 1..Len(s) : s[j] = s[k] => j = k,
         \A n \in 1..N : \E k \in 1..Len(s) : s[k] = n
  PROVE  Len(s) = N /\ Sorted(s) = [k \in 1..N |-> k]
<1>1. DOMAIN s = 1..Len(s) /\ Len(s) \in Nat
  OBVIOUS
<1>2. ASSUME NEW m \in 0..N
      PROVE  Cardinality({i \in DOMAIN s : s[i] <= m}) = m
  <2> DEFINE A == {i \in DOMAIN s : s[i] <= m}
             f == [i \in A |-> s[i]]
  <2>1. \A i \in A : s[i] \in 1..m /\ i \in 1..Len(s)
    BY <1>1, <1>2
  <2>2. f \in [A -> 1..m] /\ \A a, b \in A : f[a] = f[b] => a = b
    BY <2>1
  <2>3. \A n \in 1..m : \E a \in A : f[a] = n
    <3>1. ASSUME NEW n \in 1..m PROVE \E a \in A : f[a] = n
      <4>1. n \in 1..N /\ n <= m
        BY <1>2
      <4>2. PICK k \in 1..Len(s) : s[k] = n
        BY <4>1
      <4>3. k \in A
        BY <1>1, <4>1, <4>2
      <4>4. QED
        BY <4>2, <4>3
    <3>2. QED
      BY <3>1
  <2> HIDE DEF A, f
  <2>4. m \in Nat
    BY <1>2
  <2>5. Numbers(f, A, m)
    BY <2>2, <2>3 DEF Numbers
  <2>6. Cardinality(A) = m
    BY <2>4, <2>5, CountOf
  <2>7. QED
    BY <2>6 DEF A
<1>3. Len(s) = N
  <2>1. Cardinality({i \in DOMAIN s : s[i] <= N}) = N
    BY <1>2
  <2>2. {i \in DOMAIN s : s[i] <= N} = 1..Len(s)
    BY <1>1
  <2>3. Cardinality(1..Len(s)) = IF 1 > Len(s) THEN 0 ELSE Len(s) - 1 + 1
    BY <1>1, FS_Interval
  <2>4. Cardinality(1..Len(s)) = Len(s)
    BY <1>1, <2>3
  <2>5. QED
    BY <2>1, <2>2, <2>4
<1>4. ASSUME NEW n \in 1..N
      PROVE  /\ Cardinality({i \in DOMAIN s : s[i] < n}) = n - 1
             /\ Cardinality({i \in DOMAIN s : s[i] <= n}) = n
  <2>1. {i \in DOMAIN s : s[i] < n} = {i \in DOMAIN s : s[i] <= n - 1}
    BY <1>1
  <2>2. n - 1 \in 0..N /\ n \in 0..N
    OBVIOUS
  <2>3. QED
    BY <1>2, <2>1, <2>2
<1>5. Range(s) = 1..N
  <2>1. \A n : n \in Range(s) <=> \E k \in 1..Len(s) : n = s[k]
    BY <1>1 DEF Range
  <2>2. \A n : n \in Range(s) <=> n \in 1..N
    BY <2>1
  <2>3. QED
    BY <2>2
<1>6. ASSUME NEW k \in 1..N
      PROVE  (CHOOSE n \in Range(s) :
                /\ Cardinality({i \in DOMAIN s : s[i] < n}) < k
                /\ Cardinality({i \in DOMAIN s : s[i] <= n}) >= k) = k
  <2> DEFINE lo(n) == Cardinality({i \in DOMAIN s : s[i] < n})
             hi(n) == Cardinality({i \in DOMAIN s : s[i] <= n})
  <2>1. \A n \in 1..N : lo(n) = n - 1 /\ hi(n) = n
    BY <1>4
  <2> HIDE DEF lo, hi
  <2>2. \A n \in 1..N : (lo(n) < k /\ hi(n) >= k) <=> n = k
    BY <2>1
  <2>3. (CHOOSE n \in 1..N : lo(n) < k /\ hi(n) >= k) = k
    BY <2>2
  <2>4. QED
    BY <1>5, <2>3 DEF lo, hi
<1>7. Sorted(s) = [k \in 1..N |->
         CHOOSE n \in Range(s) :
           /\ Cardinality({i \in DOMAIN s : s[i] < n}) < k
           /\ Cardinality({i \in DOMAIN s : s[i] <= n}) >= k]
  BY <1>1, <1>3 DEF Sorted
<1>8. QED
  BY <1>3, <1>6, <1>7
(* All workers have ended and reported: all parts are listed. *)
LEMMA AllListed ==
  ASSUME scenario \in Scenarios, NEW u \in Upload, UploadInv(u),
         put[u] = "parts", WorkersEnded(u), results[u] = <<>>
  PROVE  /\ AllEnded(u) /\ Whole(u, cut[u])
         /\ \A n \in 1..cut[u] : Listed(u, n)
         /\ Sorted(completed[u]) = [k \in 1..cut[u] |-> k]
<1>1. /\ cut[u] \in Nat /\ jobs[u] \in Seq(Job) /\ completed[u] \in Seq(Nat)
      /\ scenario.chunk \in Nat /\ scenario.size[u] \in Nat
  BY ScenarioTypes DEF UploadInv, PutTypes
<1>2. \A w \in scenario.workers : worker[u][w].at = "ended"
  BY DEF WorkersEnded
<1>3. closed[u] /\ jobs[u] = <<>> /\ left[u] = <<>> /\ scenario.chunk > 0
  BY <1>2, ScenarioTypes DEF UploadInv, PhaseInv
<1>4. Given(u) = cut[u]
  <2>1. Len(jobs[u]) = 0
    BY <1>1, <1>3
  <2>2. QED
    BY <1>1, <2>1 DEF Given
<1>5. \A n : ~ InHand(u, n) /\ ~ Reported(u, n)
  BY <1>2 DEF InHand, Reported, Busy
<1>6. \A n \in 1..cut[u] : Listed(u, n)
  BY <1>4, <1>5 DEF UploadInv, HeldInv
<1>7. Whole(u, cut[u])
  <2>1. PICK c \in Nat : c = cut[u]
    BY <1>1
  <2>2. PICK p \in Nat : p = c * scenario.chunk
    BY <1>1, <2>1, Multiples
  <2>3. End(u, c) \in Nat /\ End(u, c) <= scenario.size[u]
        /\ (p < scenario.size[u] => End(u, c) = p)
    <3>1. /\ End(u, c) \in Nat /\ End(u, c + 1) \in Nat
          /\ End(u, c) <= End(u, c + 1) /\ End(u, c + 1) <= scenario.size[u]
          /\ c * scenario.chunk < scenario.size[u] => End(u, c) = c * scenario.chunk
      BY <2>1, EndFacts
    <3>2. QED
      BY <1>1, <2>2, <3>1
  <2>4. Len(Piece(u, End(u, c), scenario.size[u])) = scenario.size[u] - End(u, c)
    BY <1>1, <2>3, PieceFacts
  <2>5. Piece(u, End(u, c), scenario.size[u]) = <<>>
    BY <1>3, <2>1 DEF UploadInv, CutInv
  <2>6. scenario.size[u] <= p
    BY <1>1, <2>2, <2>3, <2>4, <2>5
  <2>7. p < scenario.size[u] + scenario.chunk
    <3>1. CASE c > 0
      <4>1. (c - 1) * scenario.chunk < scenario.size[u]
        BY <2>1, <3>1 DEF UploadInv, CutInv
      <4>2. (c - 1) * scenario.chunk \in Nat /\ p = (c - 1) * scenario.chunk + scenario.chunk
        BY <1>1, <2>2, <3>1, Multiples
      <4>3. PICK q \in Nat : q = (c - 1) * scenario.chunk
        BY <4>2
      <4>4. QED
        BY <1>1, <4>1, <4>2, <4>3
    <3>2. CASE c = 0
      <4>1. p = 0
        BY <1>1, <2>2, <3>2, Multiples
      <4>2. QED
        BY <1>1, <1>3, <4>1
    <3>3. QED
      BY <3>1, <3>2
  <2>8. QED
    BY <2>1, <2>2, <2>6, <2>7 DEF Whole
<1>8. Sorted(completed[u]) = [k \in 1..cut[u] |-> k]
  <2> DEFINE s == completed[u]
  <2>1. \A k \in 1..Len(s) : s[k] \in 1..cut[u]
    <3>1. ASSUME NEW k \in 1..Len(s) PROVE s[k] \in 1..cut[u]
      <4>1. s[k] \in Nat /\ Listed(u, s[k])
        BY <1>1 DEF Listed
      <4>2. QED
        BY <1>4, <4>1 DEF UploadInv, HeldInv, HeldOnce
    <3>2. QED
      BY <3>1
  <2>2. \A j, k \in 1..Len(s) : s[j] = s[k] => j = k
    BY DEF UploadInv, HeldInv, HeldOnce
  <2>3. \A n \in 1..cut[u] : \E k \in 1..Len(s) : s[k] = n
    BY <1>6 DEF Listed
  <2> HIDE DEF s
  <2>4. s \in Seq(Nat)
    BY <1>1 DEF s
  <2>5. QED
    BY <1>1, <2>1, <2>2, <2>3, <2>4, SortedNumbers DEF s
<1>9. QED
  BY <1>2, <1>3, <1>6, <1>7, <1>8 DEF AllEnded

-----------------------------------------------------------------------------
(* The steps of one upload. *)

PutStep(u) ==
  PutCallStep(u) \/ DistributorStep(u) \/ \E w \in scenario.workers : PutWorkerStep(u, w)

LEMMA CompleteKeeps ==
  ASSUME scenario \in Scenarios, PutDomains, NEW u \in Upload, UploadInv(u), Complete(u)
  PROVE  /\ UploadInv(u)'
         /\ Whole(u, cut[u]) /\ \A n \in 1..cut[u] : Listed(u, n)
         /\ object' \in {object, ManifestOf(u, cut[u])}
         /\ put'[u] = "ok" => object' = ManifestOf(u, cut[u])
<1>1. put[u] = "parts" /\ WorkersEnded(u) /\ results[u] = <<>>
  BY DEF Complete
<1>2. /\ AllEnded(u) /\ Whole(u, cut[u]) /\ \A n \in 1..cut[u] : Listed(u, n)
      /\ Sorted(completed[u]) = [k \in 1..cut[u] |-> k]
  BY <1>1, AllListed
<1>3. Manifest(Sorted(completed[u]), Content(u)) = ManifestOf(u, cut[u])
  BY <1>2 DEF ManifestOf
<1>4. StoreObject(u, ManifestOf(u, cut[u])) /\ UNCHANGED goroutineVars
  BY <1>3 DEF Complete
<1>5. PICK out \in PutOutcome :
        /\ object' = IF out.stored THEN ManifestOf(u, cut[u]) ELSE object
        /\ put' = [put EXCEPT ![u] = IF out.ok THEN "ok" ELSE "error"]
        /\ scenario' = scenario
  BY <1>4 DEF StoreObject, Return
<1>6. out.ok => out.stored
  BY DEF PutOutcome
<1>7. put'[u] = "error" \/ (put'[u] = "ok" /\ out.ok)
  BY <1>5 DEF PutDomains
<1>8. UploadInv(u)'
  BY <1>2, <1>4, <1>5, <1>7, ReturnKeeps
<1>9. QED
  BY <1>2, <1>5, <1>6, <1>7, <1>8

LEMMA CallStepKeeps ==
  ASSUME scenario \in Scenarios, PutDomains, NEW u \in Upload, UploadInv(u), PutCallStep(u)
  PROVE  UploadInv(u)' /\ put[u] \in {"start", "parts"} /\ put'[u] \in {"parts", "ok", "error"}
<1>1. CASE PutMarker(u) \/ PutPlain(u) \/ ReadFails(u) \/ Refuse(u)
  <2>1. put[u] = "start" /\ scenario' = scenario /\ UNCHANGED goroutineVars
        /\ put'[u] \in {"ok", "error"}
    BY <1>1 DEF PutMarker, PutPlain, ReadFails, Refuse, StoreObject, Buffering, Return,
       PutDomains, storeVars
  <2>2. AllEnded(u)
    BY <2>1 DEF UploadInv, PhaseInv
  <2>3. QED
    BY <2>1, <2>2, ReturnKeeps
<1>2. CASE Initiate(u)
  BY <1>2, InitiateKeeps DEF Initiate, Buffering, Return, PutDomains
<1>3. CASE CollectPart(u)
  BY <1>3, CollectPartKeeps DEF CollectPart, Return, PutDomains
<1>4. CASE Complete(u)
  BY <1>4, CompleteKeeps DEF Complete, StoreObject, Return, PutDomains
<1>5. QED
  BY <1>1, <1>2, <1>3, <1>4 DEF PutCallStep

LEMMA GoroutineKeeps ==
  ASSUME scenario \in Scenarios, PutDomains, NEW u \in Upload, UploadInv(u),
         DistributorStep(u) \/ \E w \in scenario.workers : PutWorkerStep(u, w)
  PROVE  UploadInv(u)' /\ put[u] \in {"parts", "error"} /\ put'[u] = put[u]
<1>1. UploadInv(u)'
  <2>1. CASE DistributorStep(u)
    BY <2>1, CutPartKeeps, CloseJobsKeeps DEF DistributorStep
  <2>2. ASSUME NEW w \in scenario.workers, PutWorkerStep(u, w) PROVE UploadInv(u)'
    <3>1. CASE TakeJob(u, w) \/ WorkerEnds(u, w) \/ SendResult(u, w)
      BY <3>1, TakeJobKeeps, WorkerEndsKeeps, SendResultKeeps
    <3>2. CASE AskPartLink(u, w) \/ TestPartErr(u, w) \/ PutPart(u, w)
      <4>1. PICK t : GoesOn(u, w, t)
        BY <3>2, WorkerGoesOn
      <4>2. QED
        BY <4>1, GoesOnKeeps
    <3>3. QED
      BY <2>2, <3>1, <3>2 DEF PutWorkerStep
  <2>3. QED
    BY <2>1, <2>2
<1>2. put' = put
  BY DEF DistributorStep, CutPart, CloseJobs, PutWorkerStep, TakeJob, WorkerEnds, AskPartLink,
     TestPartErr, PutPart, SendResult
<1>3. ~ AllEnded(u)
  BY DEF AllEnded, DistributorStep, CutPart, CloseJobs, PutWorkerStep, TakeJob, WorkerEnds,
     AskPartLink, TestPartErr, PutPart, SendResult
<1>4. QED
  BY <1>1, <1>2, <1>3 DEF UploadInv, PhaseInv, PutTypes

LEMMA StepKeeps ==
  ASSUME scenario \in Scenarios, PutDomains, NEW u \in Upload, UploadInv(u), PutStep(u)
  PROVE  UploadInv(u)' /\ put[u] \notin {"ok", "unused"} /\ put'[u] \notin {"start", "unused"}
<1>1. CASE PutCallStep(u)
  BY <1>1, CallStepKeeps
<1>2. CASE DistributorStep(u) \/ \E w \in scenario.workers : PutWorkerStep(u, w)
  BY <1>2, GoroutineKeeps
<1>3. QED
  BY <1>1, <1>2 DEF PutStep


PutStates == {"unused", "start", "parts", "ok", "error"}

(* A step of one upload is no step of another. *)
LEMMA OnlyOwn ==
  ASSUME PutDomains, put \in [Upload -> PutStates], NEW u \in Upload, PutStep(u)
  PROVE  /\ scenario' = scenario
         /\ PutDomains' /\ put' \in [Upload -> PutStates]
         /\ \A v \in Upload \ {u} : SamePart(v)
<1>1. CASE PutMarker(u) \/ ReadFails(u) \/ Refuse(u)
  BY <1>1 DEF PutMarker, ReadFails, Refuse, Return, storeVars, goroutineVars,
     PutDomains, SamePart, PutStates
<1>2. CASE PutPlain(u)
  BY <1>2 DEF PutPlain, StoreObject, Return, goroutineVars, PutDomains, SamePart, PutStates
<1>3. CASE Complete(u)
  <2>1. /\ scenario' = scenario /\ UNCHANGED goroutineVars
        /\ \E value \in {"ok", "error"} : put' = [put EXCEPT ![u] = value]
    BY <1>3 DEF Complete, StoreObject, Return
  <2>2. QED
    BY <2>1 DEF goroutineVars, PutDomains, SamePart, PutStates
<1>4. CASE Initiate(u)
  BY <1>4 DEF Initiate, Return, PutDomains, SamePart, PutStates
<1>5. CASE CollectPart(u)
  BY <1>5 DEF CollectPart, Return, storeVars, PutDomains, SamePart, PutStates
<1>6. CASE DistributorStep(u)
  BY <1>6 DEF DistributorStep, CutPart, CloseJobs, storeVars, PutDomains, SamePart, PutStates
<1>7. ASSUME NEW w \in scenario.workers, PutWorkerStep(u, w)
      PROVE  /\ scenario' = scenario
             /\ PutDomains' /\ put' \in [Upload -> PutStates]
             /\ \A v \in Upload \ {u} : SamePart(v)
  <2>1. /\ scenario' = scenario
        /\ UNCHANGED <<put, left, cut, closed, completed>>
        /\ jobs' = jobs \/ jobs' = [jobs EXCEPT ![u] = Tail(@)]
        /\ results' = results \/ \E r : results' = [results EXCEPT ![u] = r]
        /\ \E s : worker' = [worker EXCEPT ![u][w] = s]
    <3>1. CASE TakeJob(u, w)
      BY <3>1 DEF TakeJob, SetWorker, storeVars
    <3>2. CASE WorkerEnds(u, w)
      BY <3>2 DEF WorkerEnds, SetWorker, storeVars
    <3>3. CASE AskPartLink(u, w)
      BY <3>3 DEF AskPartLink, SetWorker
    <3>4. CASE TestPartErr(u, w)
      BY <3>4 DEF TestPartErr, SetWorker, storeVars
    <3>5. CASE PutPart(u, w)
      BY <3>5 DEF PutPart, SetWorker, storeVars
    <3>6. CASE SendResult(u, w)
      BY <3>6 DEF SendResult, SetWorker, storeVars
    <3>7. QED
      BY <1>7, <3>1, <3>2, <3>3, <3>4, <3>5, <3>6 DEF PutWorkerStep
  <2>2. QED
    BY <2>1 DEF PutDomains, SamePart
<1>8. QED
  BY <1>1, <1>2, <1>3, <1>4, <1>5, <1>6, <1>7 DEF PutStep, PutCallStep

-----------------------------------------------------------------------------
(* What is stored. *)

LEMMA PartsWithFacts ==
  ASSUME parts \in Seq(Seq(Bytes)), NEW n \in Nat, n > 0, NEW b \in Seq(Bytes)
  PROVE  /\ PartsWith(n, b) \in Seq(Seq(Bytes))
         /\ n \in 1..Len(PartsWith(n, b)) /\ PartsWith(n, b)[n] = b
         /\ \A k \in 1..Len(parts) : k # n =>
              k \in 1..Len(PartsWith(n, b)) /\ PartsWith(n, b)[k] = parts[k]
<1> DEFINE m == IF n > Len(parts) THEN n ELSE Len(parts)
           f == [k \in 1..m |-> IF k = n THEN b ELSE PartAt(k)]
<1>1. m \in Nat /\ n \in 1..m /\ Len(parts) <= m /\ Len(parts) \in Nat
  OBVIOUS
<1>2. \A k : PartAt(k) \in Seq(Bytes)
  BY DEF PartAt
<1>3. f \in [1..m -> Seq(Bytes)]
  BY <1>2
<1>4. PartsWith(n, b) = f
  BY DEF PartsWith
<1>5. f \in Seq(Seq(Bytes)) /\ Len(f) = m
  <2> HIDE DEF f, m
  <2>1. QED
    BY <1>1, <1>3, FunctionIsSeq
<1>6. \A k \in 1..Len(parts) : k # n => f[k] = parts[k]
  BY <1>1 DEF PartAt
<1>7. f[n] = b
  BY <1>1
<1> HIDE DEF f, m
<1>8. QED
  BY <1>1, <1>4, <1>5, <1>6, <1>7

(* What a worker stores is the part whose number it has. *)
LEMMA GoesOnSaves ==
  ASSUME PutDomains, parts \in Seq(Seq(Bytes)), NEW u \in Upload, UploadInv(u),
         NEW w \in scenario.workers, NEW t, GoesOn(u, w, t)
  PROVE  /\ parts' \in Seq(Seq(Bytes))
         /\ (\A n \in Nat : Done(u, n) => Stored(u, n))
              => (\A n \in Nat : Done(u, n)' => Stored(u, n)')
<1>0. PICK m : m = worker[u][w].number
  OBVIOUS
<1>1. worker[u][w] \in WorkerState /\ Busy(worker[u][w])
  BY DEF UploadInv, PutTypes, GoesOn
<1>2. m \in Nat /\ m > 0 /\ worker[u][w].bytes = Part(u, m) /\ Part(u, m) \in Seq(Bytes)
  <2>1. m \in Nat /\ InHand(u, m) /\ worker[u][w].bytes \in Seq(Bytes)
    BY <1>0, <1>1 DEF InHand, WorkerState
  <2>2. m \in 1..Given(u)
    BY <2>1 DEF UploadInv, HeldInv, HeldOnce
  <2>3. worker[u][w].bytes = Part(u, m)
    BY <1>0, <1>1 DEF UploadInv, HeldInv
  <2>4. QED
    BY <2>1, <2>2, <2>3
<1>3. PICK b \in Seq(Bytes) : b = Part(u, m)
  BY <1>2
<1>4. /\ PartsWith(m, b) \in Seq(Seq(Bytes))
      /\ m \in 1..Len(PartsWith(m, b)) /\ PartsWith(m, b)[m] = b
      /\ \A k \in 1..Len(parts) : k # m =>
              k \in 1..Len(PartsWith(m, b)) /\ PartsWith(m, b)[k] = parts[k]
  BY <1>2, PartsWithFacts
<1>5. parts' \in {parts, PartsWith(m, b)}
  BY <1>0, <1>2, <1>3 DEF GoesOn
<1>6. t.at = "send" /\ ~ t.failed => parts' = PartsWith(m, b)
  BY <1>0, <1>2, <1>3 DEF GoesOn
<1>7. /\ worker'[u][w] = t
      /\ \A v \in scenario.workers \ {w} : worker'[u][v] = worker[u][v]
      /\ t.number = m
      /\ UNCHANGED <<scenario, results, completed>>
  BY <1>0, SetWorkerEffect DEF GoesOn, SamePartOf, UploadInv, PutTypes
<1>8. ASSUME \A n \in Nat : Done(u, n) => Stored(u, n), NEW n \in Nat, Done(u, n)'
      PROVE  Stored(u, n)'
  <2>1. Stored(u, n)' <=> n \in 1..Len(parts') /\ parts'[n] = Part(u, n)
    BY <1>7, PiecesStay DEF Stored
  <2>2. Done(u, n) \/ (t.at = "send" /\ ~ t.failed /\ n = m)
    BY <1>7, <1>8 DEF Done, Listed
  <2>3. CASE t.at = "send" /\ ~ t.failed /\ n = m
    BY <1>3, <1>4, <1>6, <2>1, <2>3
  <2>4. CASE Done(u, n)
    <3>1. n \in 1..Len(parts) /\ parts[n] = Part(u, n)
      BY <1>8, <2>4 DEF Stored
    <3>2. n \in 1..Len(parts') /\ parts'[n] = Part(u, n)
      BY <1>3, <1>4, <1>5, <3>1
    <3>3. QED
      BY <2>1, <3>2
  <2>5. QED
    BY <2>2, <2>3, <2>4
<1>9. QED
  BY <1>4, <1>5, <1>8

(* No other step of a worker or of the call says that one more part is stored. *)
LEMMA CollectPartSays ==
  ASSUME PutDomains, NEW u \in Upload, UploadInv(u), CollectPart(u)
  PROVE  \A n : Done(u, n)' => Done(u, n)
<1>1. /\ results[u] # <<>> /\ results'[u] = Tail(results[u])
      /\ \/ completed'[u] = completed[u]
         \/ ~ Head(results[u]).failed /\ completed'[u] = Append(completed[u], Head(results[u]).number)
      /\ UNCHANGED <<scenario, worker>>
  BY DEF CollectPart, storeVars, PutDomains
<1>2. results[u] \in Seq(Result) /\ completed[u] \in Seq(Nat)
  BY DEF UploadInv, PutTypes
<1>3. /\ Len(results[u]) \in Nat /\ Len(results[u]) > 0
      /\ Head(results[u]) = results[u][1] /\ results[u][1] \in Result
      /\ Len(results'[u]) = Len(results[u]) - 1
      /\ \A k \in 1..(Len(results[u]) - 1) : results'[u][k] = results[u][k + 1]
  BY <1>1, <1>2, TailParts
<1>4. results[u][1].number \in Nat
  BY <1>3 DEF Result
<1>5. \A n : Listed(u, n)' =>
        Listed(u, n) \/ (~ results[u][1].failed /\ results[u][1].number = n)
  <2>1. CASE completed'[u] = completed[u]
    BY <2>1 DEF Listed
  <2>2. CASE ~ Head(results[u]).failed /\ completed'[u] = Append(completed[u], Head(results[u]).number)
    <3>1. /\ Len(completed'[u]) = Len(completed[u]) + 1 /\ Len(completed[u]) \in Nat
          /\ completed'[u][Len(completed[u]) + 1] = results[u][1].number
          /\ \A k \in 1..Len(completed[u]) : completed'[u][k] = completed[u][k]
      BY <1>2, <1>3, <1>4, <2>2
    <3>2. QED
      BY <1>3, <2>2, <3>1 DEF Listed
  <2>3. QED
    BY <1>1, <2>1, <2>2
<1>6. ASSUME NEW n, Done(u, n)' PROVE Done(u, n)
  <2>1. CASE \E w \in scenario.workers :
               worker[u][w].at = "send" /\ ~ worker[u][w].failed /\ worker[u][w].number = n
    BY <2>1 DEF Done
  <2>2. CASE \E k \in 1..Len(results'[u]) : ~ results'[u][k].failed /\ results'[u][k].number = n
    <3>1. PICK k \in 1..Len(results'[u]) : ~ results'[u][k].failed /\ results'[u][k].number = n
      BY <2>2
    <3>2. k + 1 \in 1..Len(results[u]) /\ results'[u][k] = results[u][k + 1]
      BY <1>3, <3>1
    <3>3. QED
      BY <3>1, <3>2 DEF Done
  <2>3. CASE Listed(u, n)'
    <3>1. 1 \in 1..Len(results[u])
      BY <1>3
    <3>2. QED
      BY <1>5, <2>3, <3>1 DEF Done
  <2>4. QED
    BY <1>1, <1>6, <2>1, <2>2, <2>3 DEF Done
<1>7. QED
  BY <1>6

LEMMA SendResultSays ==
  ASSUME scenario \in Scenarios, PutDomains, NEW u \in Upload, UploadInv(u),
         NEW w \in scenario.workers, SendResult(u, w)
  PROVE  \A n : Done(u, n)' => Done(u, n)
<1> DEFINE r == [number |-> worker[u][w].number, failed |-> worker[u][w].failed]
<1>1. /\ worker[u][w].at = "send"
      /\ SetWorker(u, w, Worker0("idle"))
      /\ results'[u] = Append(results[u], r)
      /\ UNCHANGED <<scenario, completed>>
  BY DEF SendResult, storeVars, PutDomains
<1>2. worker[u][w] \in WorkerState /\ results[u] \in Seq(Result)
  BY DEF UploadInv, PutTypes
<1>3. r \in Result /\ r.number = worker[u][w].number /\ r.failed = worker[u][w].failed
  BY <1>2 DEF WorkerState, Result
<1> HIDE DEF r
<1>4. /\ Len(results[u]) \in Nat /\ Len(results'[u]) = Len(results[u]) + 1
      /\ \A k \in 1..Len(results[u]) : results'[u][k] = results[u][k]
      /\ results'[u][Len(results[u]) + 1] = r
  BY <1>1, <1>2, <1>3
<1>5. /\ worker'[u][w].at = "idle"
      /\ \A v \in scenario.workers \ {w} : worker'[u][v] = worker[u][v]
  <2>1. Worker0("idle") \in WorkerState /\ Worker0("idle").at = "idle"
    BY Worker0Type DEF Worker0
  <2>2. QED
    BY <1>1, <2>1, SetWorkerEffect DEF UploadInv, PutTypes
<1>6. ASSUME NEW n, Done(u, n)' PROVE Done(u, n)
  <2>1. CASE \E v \in scenario.workers :
               worker'[u][v].at = "send" /\ ~ worker'[u][v].failed /\ worker'[u][v].number = n
    BY <1>5, <2>1 DEF Done
  <2>2. CASE \E k \in 1..Len(results'[u]) : ~ results'[u][k].failed /\ results'[u][k].number = n
    BY <1>1, <1>3, <1>4, <2>2 DEF Done
  <2>3. CASE Listed(u, n)'
    BY <1>1, <2>3 DEF Done, Listed
  <2>4. QED
    BY <1>1, <1>6, <2>1, <2>2, <2>3 DEF Done
<1>7. QED
  BY <1>6

LEMMA OthersSay ==
  ASSUME scenario \in Scenarios, PutDomains, NEW u \in Upload, UploadInv(u),
         \/ PutCallStep(u) \/ DistributorStep(u)
         \/ \E w \in scenario.workers : TakeJob(u, w) \/ WorkerEnds(u, w) \/ SendResult(u, w)
  PROVE  parts' = parts /\ scenario' = scenario /\ \A n : Done(u, n)' => Done(u, n)
<1>1. ASSUME scenario' = scenario, worker'[u] = worker[u], results'[u] = results[u],
             completed'[u] = completed[u]
      PROVE  \A n : Done(u, n)' => Done(u, n)
  BY <1>1, HolderStays
<1>2. ASSUME scenario' = scenario, results'[u] = results[u], completed'[u] = completed[u],
             NEW w \in scenario.workers, NEW s \in WorkerState, s.at # "send", SetWorker(u, w, s)
      PROVE  \A n : Done(u, n)' => Done(u, n)
  <2>1. /\ worker'[u][w] = s
        /\ \A v \in scenario.workers \ {w} : worker'[u][v] = worker[u][v]
    BY <1>2, SetWorkerEffect DEF UploadInv, PutTypes
  <2>2. QED
    BY <1>2, <2>1 DEF Done, Listed
<1>3. CASE PutMarker(u) \/ ReadFails(u) \/ Refuse(u)
  <2>1. parts' = parts /\ scenario' = scenario /\ UNCHANGED <<worker, results, completed>>
    BY <1>3 DEF PutMarker, ReadFails, Refuse, storeVars, goroutineVars
  <2>2. QED
    BY <1>1, <2>1
<1>4. CASE PutPlain(u) \/ Complete(u)
  <2>1. parts' = parts /\ scenario' = scenario /\ UNCHANGED <<worker, results, completed>>
    BY <1>4 DEF PutPlain, Complete, StoreObject, goroutineVars
  <2>2. QED
    BY <1>1, <2>1
<1>5. CASE Initiate(u)
  <2>1. /\ parts' = parts /\ scenario' = scenario /\ UNCHANGED <<results, completed>>
        /\ \/ worker' = worker
           \/ worker'[u] = [w \in scenario.workers |-> Worker0("idle")]
    BY <1>5 DEF Initiate, PutDomains
  <2>2. CASE worker' = worker
    BY <1>1, <2>1, <2>2
  <2>3. CASE worker'[u] = [w \in scenario.workers |-> Worker0("idle")]
    BY <2>1, <2>3 DEF Done, Listed, Worker0
  <2>4. QED
    BY <2>1, <2>2, <2>3
<1>6. CASE CollectPart(u)
  <2>1. parts' = parts /\ scenario' = scenario
    BY <1>6 DEF CollectPart, storeVars
  <2>2. QED
    BY <1>6, <2>1, CollectPartSays
<1>7. CASE DistributorStep(u)
  <2>1. parts' = parts /\ scenario' = scenario /\ UNCHANGED <<worker, results, completed>>
    BY <1>7 DEF DistributorStep, CutPart, CloseJobs, storeVars
  <2>2. QED
    BY <1>1, <2>1
<1>8. ASSUME NEW w \in scenario.workers, TakeJob(u, w) \/ WorkerEnds(u, w) \/ SendResult(u, w)
      PROVE  parts' = parts /\ scenario' = scenario /\ \A n : Done(u, n)' => Done(u, n)
  <2>1. CASE TakeJob(u, w)
    <3>1. /\ parts' = parts /\ scenario' = scenario /\ UNCHANGED <<results, completed>>
          /\ SetWorker(u, w, [Worker0("link") EXCEPT !.number = Head(jobs[u]).number,
                                                    !.bytes = Head(jobs[u]).bytes])
      BY <2>1 DEF TakeJob, storeVars
    <3>2. worker'[u][w].at # "send" /\ \A v \in scenario.workers \ {w} : worker'[u][v] = worker[u][v]
      BY <3>1 DEF SetWorker, PutDomains, UploadInv, PutTypes, Worker0
    <3>3. QED
      BY <3>1, <3>2 DEF Done, Listed
  <2>2. CASE WorkerEnds(u, w)
    <3>1. /\ parts' = parts /\ scenario' = scenario /\ UNCHANGED <<results, completed>>
          /\ SetWorker(u, w, Worker0("ended"))
      BY <2>2 DEF WorkerEnds, storeVars
    <3>2. Worker0("ended") \in WorkerState /\ Worker0("ended").at # "send"
      BY Worker0Type DEF Worker0
    <3>3. QED
      BY <1>2, <3>1, <3>2
  <2>3. CASE SendResult(u, w)
    <3>1. parts' = parts /\ scenario' = scenario
      BY <2>3 DEF SendResult, storeVars
    <3>2. QED
      BY <2>3, <3>1, SendResultSays
  <2>4. QED
    BY <1>8, <2>1, <2>2, <2>3
<1>9. QED
  BY <1>3, <1>4, <1>5, <1>6, <1>7, <1>8 DEF PutCallStep

LEMMA SavedKeeps ==
  ASSUME scenario \in Scenarios, PutDomains, parts \in Seq(Seq(Bytes)), NEW u \in Upload,
         UploadInv(u), SavedInv(u), PutStep(u), Alone(u)' => Alone(u)
  PROVE  parts' \in Seq(Seq(Bytes)) /\ SavedInv(u)'
<1> DEFINE Says == \A n \in Nat : Done(u, n) => Stored(u, n)
<1>1. /\ parts' \in Seq(Seq(Bytes)) /\ scenario' = scenario
      /\ Says => \A n \in Nat : Done(u, n)' => Stored(u, n)'
  <2>1. CASE \/ PutCallStep(u) \/ DistributorStep(u)
             \/ \E w \in scenario.workers : TakeJob(u, w) \/ WorkerEnds(u, w) \/ SendResult(u, w)
    <3>1. parts' = parts /\ scenario' = scenario /\ \A n : Done(u, n)' => Done(u, n)
      BY <2>1, OthersSay
    <3>2. \A n : Stored(u, n)' <=> Stored(u, n)
      BY <3>1, PiecesStay DEF Stored
    <3>3. QED
      BY <3>1, <3>2
  <2>2. ASSUME NEW w \in scenario.workers, AskPartLink(u, w) \/ TestPartErr(u, w) \/ PutPart(u, w)
        PROVE  /\ parts' \in Seq(Seq(Bytes)) /\ scenario' = scenario
               /\ Says => \A n \in Nat : Done(u, n)' => Stored(u, n)'
    <3>1. PICK t : GoesOn(u, w, t)
      BY <2>2, WorkerGoesOn
    <3>2. scenario' = scenario
      BY <3>1 DEF GoesOn
    <3>3. QED
      BY <3>1, <3>2, GoesOnSaves
  <2>3. QED
    BY <2>1, <2>2 DEF PutStep, PutWorkerStep
<1>2. CASE ~ Alone(u)'
  BY <1>1, <1>2 DEF SavedInv
<1>3. CASE Alone(u)'
  <2>1. Says /\ Alone(u)
    BY <1>3 DEF SavedInv
  <2>2. \A n \in Nat : Done(u, n)' => Stored(u, n)'
    BY <1>1, <2>1
  <2>3. ASSUME put'[u] = "ok", u \notin scenario.dir
        PROVE  \/ object' = Plain(Content(u))
               \/ \E N \in Nat : /\ Whole(u, N) /\ object' = ManifestOf(u, N)
                                 /\ \A n \in 1..N : Stored(u, n)'
    <3>1. put[u] # "ok"
      BY StepKeeps
    <3>2. ~ (DistributorStep(u) \/ \E w \in scenario.workers : PutWorkerStep(u, w))
      BY <2>3, <3>1, GoroutineKeeps
    <3>3. PutPlain(u) \/ Complete(u)
      BY <2>3, <3>2 DEF PutStep, PutCallStep, PutMarker, ReadFails, Refuse, Initiate,
         CollectPart, Return, PutDomains
    <3>4. CASE PutPlain(u)
      <4>1. StoreObject(u, Plain(Content(u)))
        BY <3>4 DEF PutPlain
      <4>2. PICK out \in PutOutcome :
              /\ object' = IF out.stored THEN Plain(Content(u)) ELSE object
              /\ put' = [put EXCEPT ![u] = IF out.ok THEN "ok" ELSE "error"]
        BY <4>1 DEF StoreObject, Return
      <4>3. out.ok
        BY <2>3, <4>2 DEF PutDomains
      <4>4. out.ok => out.stored
        BY DEF PutOutcome
      <4>5. QED
        BY <4>2, <4>3, <4>4
    <3>5. CASE Complete(u)
      <4>1. /\ Whole(u, cut[u]) /\ \A n \in 1..cut[u] : Listed(u, n)
            /\ object' = ManifestOf(u, cut[u])
        BY <2>3, <3>5, CompleteKeeps
      <4>2. parts' = parts
        BY <3>5 DEF Complete, StoreObject
      <4>3. \A n \in 1..cut[u] : Stored(u, n)
        <5>1. cut[u] \in Nat
          BY <4>1 DEF Whole
        <5>2. QED
          BY <2>1, <4>1, <5>1 DEF Done
      <4>4. \A n : Stored(u, n)' <=> Stored(u, n)
        BY <1>1, <4>2, PiecesStay DEF Stored
      <4>5. cut[u] \in Nat
        BY <4>1 DEF Whole
      <4>6. QED
        BY <4>1, <4>3, <4>4, <4>5
    <3>6. QED
      BY <3>3, <3>4, <3>5
  <2>4. QED
    BY <1>1, <2>2, <2>3, PiecesStay DEF SavedInv
<1>4. QED
  BY <1>1, <1>2, <1>3

LEMMA ObjectKeeps ==
  ASSUME scenario \in Scenarios, PutDomains, ObjectInv, NEW u \in Upload, UploadInv(u), PutStep(u)
  PROVE  ObjectInv'
<1>1. \/ object' = object
      \/ object' = Plain(Content(u))
      \/ Whole(u, cut[u]) /\ object' = ManifestOf(u, cut[u])
  <2>1. CASE Complete(u)
    <3>1. Whole(u, cut[u]) /\ object' \in {object, ManifestOf(u, cut[u])}
      BY <2>1, CompleteKeeps
    <3>2. QED
      BY <3>1
  <2>2. CASE PutPlain(u)
    BY <2>2 DEF PutPlain, StoreObject
  <2>3. CASE DistributorStep(u) \/ \E w \in scenario.workers : PutWorkerStep(u, w)
    BY <2>3, WorkersStore
  <2>4. CASE PutMarker(u) \/ ReadFails(u) \/ Refuse(u) \/ Initiate(u) \/ CollectPart(u)
    BY <2>4 DEF PutMarker, ReadFails, Refuse, Initiate, CollectPart, storeVars
  <2>5. QED
    BY <2>1, <2>2, <2>3, <2>4 DEF PutStep, PutCallStep
<1>2. scenario' = scenario
  BY PutStores, WorkersStore DEF PutStep
<1>3. /\ \A v, N : Whole(v, N)' <=> Whole(v, N)
      /\ \A v, N : ManifestOf(v, N)' = ManifestOf(v, N)
  BY <1>2, PiecesStay
<1>4. CASE object' = object
  BY <1>3, <1>4 DEF ObjectInv
<1>5. CASE object' = Plain(Content(u))
  <2>1. scenario.size[u] \in Nat
    BY ScenarioTypes
  <2>2. Content(u) \in Seq(Bytes)
    <3>1. 0 <= scenario.size[u]
      BY <2>1
    <3>2. Piece(u, 0, scenario.size[u]) \in Seq(Bytes)
      BY <2>1, <3>1, PieceFacts
    <3>3. QED
      BY <3>2, ContentIsPiece
  <2>3. object'.kind = "plain" /\ object'.bytes \in Seq(Bytes)
    BY <1>5, <2>2 DEF Plain
  <2>4. QED
    BY <2>3 DEF ObjectInv
<1>6. CASE Whole(u, cut[u]) /\ object' = ManifestOf(u, cut[u])
  <2>1. PICK N \in Nat : Whole(u, N) /\ object' = ManifestOf(u, N)
    BY <1>6 DEF Whole
  <2>2. Whole(u, N)' /\ object' = ManifestOf(u, N)'
    BY <1>3, <2>1
  <2>3. QED
    BY <2>2 DEF ObjectInv
<1>7. QED
  BY <1>1, <1>4, <1>5, <1>6

LEMMA PutStepKeeps ==
  ASSUME PutInv, NEW u \in Upload, PutStep(u)
  PROVE  PutInv'
<1>1. /\ scenario \in Scenarios /\ parts \in Seq(Seq(Bytes)) /\ ObjectInv
      /\ put \in [Upload -> PutStates] /\ PutDomains
      /\ \A v \in Upload : UploadInv(v) /\ SavedInv(v)
  BY DEF PutInv, PutStates, PutDomains
<1>2. /\ scenario' = scenario /\ PutDomains' /\ put' \in [Upload -> PutStates]
      /\ \A v \in Upload \ {u} : SamePart(v)
  BY <1>1, OnlyOwn
<1>3. UploadInv(u)' /\ put'[u] \notin {"start", "unused"}
  BY <1>1, StepKeeps
<1>4. Alone(u)' => Alone(u)
  BY <1>2 DEF Alone, SamePart
<1>5. parts' \in Seq(Seq(Bytes)) /\ SavedInv(u)'
  BY <1>1, <1>4, SavedKeeps
<1>6. ObjectInv'
  BY <1>1, ObjectKeeps
<1>7. ASSUME NEW v \in Upload \ {u} PROVE UploadInv(v)' /\ SavedInv(v)'
  <2>1. UploadInv(v)'
    BY <1>1, <1>2, UploadStays
  <2>2. ~ Alone(v)'
    BY <1>3 DEF Alone
  <2>3. QED
    BY <2>1, <2>2 DEF SavedInv
<1>8. QED
  BY <1>1, <1>2, <1>3, <1>5, <1>6, <1>7 DEF PutInv, PutStates, PutDomains

LEMMA PutInvStays ==
  ASSUME PutInv, UNCHANGED <<scenario, object, parts, put, left, cut, jobs, closed, worker,
                             results, completed>>
  PROVE  PutInv'
<1>1. ASSUME NEW v \in Upload PROVE UploadInv(v)' /\ SavedInv(v)'
  <2>1. UploadInv(v)'
    BY UploadStays DEF PutInv, SamePart
  <2>2. \A n : (Done(v, n)' <=> Done(v, n)) /\ (Stored(v, n)' <=> Stored(v, n))
    BY HolderStays, PiecesStay DEF Stored
  <2>3. SavedInv(v)'
    BY <2>2, PiecesStay DEF PutInv, SavedInv, Alone
  <2>4. QED
    BY <2>1, <2>3
<1>2. ObjectInv'
  BY PiecesStay DEF PutInv, ObjectInv
<1>3. QED
  BY <1>1, <1>2 DEF PutInv

LEMMA PutInvInit == Init => PutInv
<1> SUFFICES ASSUME Init PROVE PutInv
  OBVIOUS
<1>1. /\ scenario \in Scenarios /\ object = NoObject /\ parts = <<>>
      /\ put = [u \in Upload |-> IF u \in scenario.uploads THEN "start" ELSE "unused"]
      /\ left = [u \in Upload |-> Content(u)]
      /\ cut = [u \in Upload |-> 0]
      /\ jobs = [u \in Upload |-> <<>>]
      /\ closed = [u \in Upload |-> TRUE]
      /\ worker = [u \in Upload |-> [w \in scenario.workers |-> Worker0("ended")]]
      /\ results = [u \in Upload |-> <<>>]
      /\ completed = [u \in Upload |-> <<>>]
  BY DEF Init, StoreInit, PutInit
<1>2. ASSUME NEW u \in Upload PROVE UploadInv(u) /\ SavedInv(u)
  <2>1. /\ put[u] \in {"start", "unused"} /\ left[u] = Content(u) /\ cut[u] = 0
        /\ jobs[u] = <<>> /\ closed[u] = TRUE /\ results[u] = <<>> /\ completed[u] = <<>>
        /\ worker[u] = [w \in scenario.workers |-> Worker0("ended")]
    BY <1>1
  <2>2. scenario.size[u] \in Nat
    BY <1>1, ScenarioTypes
  <2>3. Worker0("ended") \in WorkerState /\ Worker0("ended").at = "ended"
          /\ ~ Busy(Worker0("ended"))
    BY <1>1, Worker0Type DEF Worker0, Busy
  <2>4. Content(u) = Piece(u, 0, scenario.size[u])
    BY <1>1, ContentIsPiece
  <2>5. Piece(u, 0, scenario.size[u]) \in Seq(Bytes)
    <3>1. 0 <= scenario.size[u]
      BY <2>2
    <3>2. QED
      BY <2>2, <3>1, PieceFacts
  <2>6. PutTypes(u)
    <3>1. /\ jobs[u] \in Seq(Job) /\ results[u] \in Seq(Result) /\ completed[u] \in Seq(Nat)
          /\ left[u] \in Seq(Bytes)
      BY <2>1, <2>4, <2>5
    <3>2. worker[u] \in [scenario.workers -> WorkerState]
      BY <2>1, <2>3
    <3>3. cut[u] = 0 /\ closed[u] = TRUE
      BY <2>1
    <3>4. cut[u] \in Nat
      BY <3>3
    <3>5. closed[u] \in BOOLEAN
      BY <3>3, Zenon
    <3>6. put[u] \in {"start", "unused"}
      BY <2>1
    <3>7. QED
      BY <3>1, <3>2, <3>4, <3>5, <3>6 DEF PutTypes
  <2>7. Len(jobs[u]) = 0 /\ Given(u) = 0
    <3>1. Len(jobs[u]) = 0
      BY <2>1
    <3>2. cut[u] = 0
      BY <2>1
    <3>3. QED
      BY <3>1, <3>2 DEF Given
  <2>8. End(u, 0) = 0
    <3>1. 0 \in Nat
      OBVIOUS
    <3>2. QED
      BY <1>1, <3>1, EndFacts
  <2>9. CutInv(u)
    BY <2>1, <2>4, <2>7, <2>8 DEF CutInv
  <2>10. \A n : ~ InHand(u, n) /\ ~ Reported(u, n) /\ ~ Listed(u, n)
    BY <2>1, <2>3 DEF InHand, Reported, Listed
  <2>11. HeldInv(u)
    BY <2>1, <2>3, <2>7, <2>10 DEF HeldInv, HeldOnce
  <2>12. PhaseInv(u)
    BY <2>1, <2>3 DEF PhaseInv, AllEnded
  <2>13. SavedInv(u)
    BY <2>1, <2>3, <2>10 DEF SavedInv, Done
  <2>14. QED
    BY <2>6, <2>9, <2>11, <2>12, <2>13 DEF UploadInv
<1>3. parts \in Seq(Seq(Bytes))
  BY <1>1
<1>4. ObjectInv
  BY <1>1 DEF ObjectInv
<1>5. QED
  BY <1>1, <1>2, <1>3, <1>4 DEF PutInv

LEMMA GetLeaves ==
  ASSUME GetNext
  PROVE  UNCHANGED <<scenario, object, parts>>
<1>1. ASSUME NEW d \in Download, GetCallStep(d) PROVE UNCHANGED <<scenario, object, parts>>
  BY <1>1 DEF GetCallStep, GetFails, DecodeManifest, DecodeFails, CopyAgain, PlacePart, Combine,
     storeVars
<1>2. ASSUME NEW d \in Download, NEW w \in scenario.workers, FetcherStep(d, w)
      PROVE  UNCHANGED <<scenario, object, parts>>
  BY <1>2 DEF FetcherStep, TakePart, FetcherEnds, AskFetchLink, TestFetchErr, FetchPart, SendPart,
     storeVars
<1>3. QED
  BY <1>1, <1>2 DEF GetNext

LEMMA PutInvNext == PutInv /\ [Next]_vars => PutInv'
<1> SUFFICES ASSUME PutInv, [Next]_vars PROVE PutInv'
  OBVIOUS
<1>1. CASE PutNext
  BY <1>1, PutStepKeeps DEF PutNext, PutStep
<1>2. CASE GetNext /\ UNCHANGED putVars
  BY <1>2, GetLeaves, PutInvStays DEF putVars, goroutineVars
<1>3. CASE UNCHANGED vars
  BY <1>3, PutInvStays DEF vars, storeVars, putVars, goroutineVars
<1>4. QED
  BY <1>1, <1>2, <1>3 DEF Next

-----------------------------------------------------------------------------
(* The parts of an upload, one after the other, are its archive. *)

LEMMA PartFacts ==
  ASSUME scenario \in Scenarios, NEW u \in Upload, NEW i \in Nat, i > 0
  PROVE  /\ End(u, i - 1) \in Nat /\ End(u, i) \in Nat /\ End(u, i - 1) <= End(u, i)
         /\ Part(u, i) \in Seq(Bytes)
         /\ Len(Part(u, i)) = End(u, i) - End(u, i - 1)
         /\ \A j \in 1..Len(Part(u, i)) : Part(u, i)[j] = <<u, End(u, i - 1) + j>>
<1>1. PICK m \in Nat : m = i - 1 /\ i = m + 1
  OBVIOUS
<1>2. End(u, m) \in Nat /\ End(u, m + 1) \in Nat /\ End(u, m) <= End(u, m + 1)
  BY EndFacts
<1>3. PICK a \in Nat, b \in Nat : a = End(u, m) /\ b = End(u, m + 1) /\ a <= b
  BY <1>2
<1>4. /\ Piece(u, a, b) \in Seq(Bytes) /\ Len(Piece(u, a, b)) = b - a
      /\ \A k \in 1..(b - a) : Piece(u, a, b)[k] = <<u, a + k>>
  BY <1>3, PieceFacts
<1>5. Part(u, i) = Piece(u, a, b)
  BY <1>1, <1>3 DEF Part
<1>6. QED
  BY <1>1, <1>3, <1>4, <1>5

LEMMA PartsTogether ==
  ASSUME scenario \in Scenarios, NEW u \in Upload, NEW N \in Nat, Whole(u, N),
         NEW seqs, seqs = [k \in 1..N |-> Part(u, k)]
  PROVE  FlattenSeq(seqs) = Content(u)
<1>1. /\ \A k \in 1..N : Part(u, k) \in Seq(Bytes)
      /\ scenario.size[u] \in Nat /\ scenario.chunk \in Nat
  BY PartFacts, ScenarioTypes
<1>2. seqs \in Seq(Seq(Bytes)) /\ Len(seqs) = N
  <2>1. seqs \in [1..N -> Seq(Bytes)]
    BY <1>1
  <2>2. QED
    BY <2>1, FunctionIsSeq
<1> DEFINE flat == FlattenSeq(seqs)
<1>3. flat \in Seq(Bytes) /\ \E start : Layout(seqs, flat, start)
  BY <1>2, FlattenSeqLayout
<1>4. PICK start : Layout(seqs, flat, start)
  BY <1>3
<1> HIDE DEF flat
<1>5. /\ start \in [1..(N + 1) -> Nat] /\ start[1] = 0
      /\ \A i \in 1..N : start[i+1] = start[i] + Len(Part(u, i))
      /\ Len(flat) = start[N + 1]
      /\ \A i \in 1..N : \A j \in 1..Len(Part(u, i)) : flat[start[i] + j] = Part(u, i)[j]
      /\ \A x \in 1..Len(flat) : \E i \in 1..N : \E j \in 1..Len(Part(u, i)) : x = start[i] + j
  BY <1>2, <1>4 DEF Layout, Placed
<1>6. \A i \in 1..(N + 1) : start[i] = End(u, i - 1)
  <2> DEFINE Bad == {i \in 1..(N + 1) : start[i] # End(u, i - 1)}
  <2>1. SUFFICES ASSUME Bad # {} PROVE FALSE
    OBVIOUS
  <2>2. Bad \in SUBSET Nat
    OBVIOUS
  <2>3. PICK i \in Bad : \A y \in Bad : i <= y
    BY <2>1, <2>2, LeastElement
  <2>4. CASE i = 1
    <3>1. End(u, 0) = 0
      <4>1. 0 \in Nat
        OBVIOUS
      <4>2. QED
        BY <4>1, EndFacts
    <3>2. i - 1 = 0
      BY <2>4
    <3>3. QED
      BY <1>5, <2>3, <2>4, <3>1, <3>2
  <2>5. CASE i # 1
    <3>1. PICK m \in 1..N : m = i - 1 /\ i = m + 1
      BY <2>3, <2>5
    <3>2. m \notin Bad /\ m \in 1..(N + 1)
      BY <2>2, <2>3, <3>1
    <3>3. start[m] = End(u, m - 1)
      BY <3>2
    <3>4. start[m + 1] = start[m] + Len(Part(u, m))
      BY <1>5
    <3>5. /\ End(u, m - 1) \in Nat /\ End(u, m) \in Nat
          /\ Len(Part(u, m)) = End(u, m) - End(u, m - 1)
      BY PartFacts
    <3>6. start[i] = End(u, i - 1)
      BY <3>1, <3>3, <3>4, <3>5
    <3>7. QED
      BY <2>3, <3>6
  <2>6. QED
    BY <2>4, <2>5
<1>7. End(u, N) = scenario.size[u]
  <2>1. scenario.size[u] <= N * scenario.chunk /\ N * scenario.chunk \in Nat
    BY <1>1, Multiples DEF Whole
  <2>2. ~ (N * scenario.chunk < scenario.size[u])
    BY <1>1, <2>1
  <2>3. QED
    BY <2>2 DEF End
<1>8. Len(flat) = scenario.size[u]
  <2>1. N + 1 \in 1..(N + 1) /\ (N + 1) - 1 = N
    OBVIOUS
  <2>2. QED
    BY <1>5, <1>6, <1>7, <2>1
<1>9. ASSUME NEW x \in 1..scenario.size[u] PROVE flat[x] = <<u, x>>
  <2>1. PICK i \in 1..N : \E j \in 1..Len(Part(u, i)) : x = start[i] + j
    BY <1>5, <1>8
  <2>2. PICK j \in 1..Len(Part(u, i)) : x = start[i] + j
    BY <2>1
  <2>3. flat[x] = Part(u, i)[j]
    BY <1>5, <2>2
  <2>4. Part(u, i)[j] = <<u, End(u, i - 1) + j>>
    <3>1. i \in Nat /\ i > 0
      OBVIOUS
    <3>2. \A k \in 1..Len(Part(u, i)) : Part(u, i)[k] = <<u, End(u, i - 1) + k>>
      BY <3>1, PartFacts
    <3>3. QED
      BY <3>2
  <2>5. start[i] = End(u, i - 1)
    BY <1>6
  <2>6. QED
    BY <2>2, <2>3, <2>4, <2>5
<1>10. flat = [k \in 1..scenario.size[u] |-> <<u, k>>]
  <2>1. flat = [k \in 1..Len(flat) |-> flat[k]]
    BY <1>3
  <2>2. QED
    BY <1>8, <1>9, <2>1
<1>11. QED
  BY <1>10 DEF flat, Content

-----------------------------------------------------------------------------
(***************************************************************************)
(* A manifest lists the parts of one upload, as many as its bytes need, in *)
(* their order, whatever the workers of this and of other uploads do.      *)
(***************************************************************************)
THEOREM SpecManifestListsParts == Spec => []ManifestListsParts
<1>1. PutInv => ManifestListsParts
  <2> SUFFICES ASSUME PutInv, object.kind = "manifest"
               PROVE  /\ object.numbers = [k \in DOMAIN object.numbers |-> k]
                      /\ Len(object.numbers) * scenario.chunk \in
                           Len(object.checksum)..Len(object.checksum) + scenario.chunk - 1
    BY DEF ManifestListsParts
  <2>1. PICK u \in Upload, N \in Nat : Whole(u, N) /\ object = ManifestOf(u, N)
    BY DEF PutInv, ObjectInv, NoObject
  <2>2. object.numbers = [k \in 1..N |-> k] /\ object.checksum = Content(u)
    BY <2>1 DEF ManifestOf, Manifest
  <2>3. DOMAIN object.numbers = 1..N /\ Len(object.numbers) = N
    BY <2>2
  <2>4. scenario.size[u] \in Nat /\ scenario.chunk \in Nat
    BY ScenarioTypes DEF PutInv
  <2>5. Len(object.checksum) = scenario.size[u]
    BY <2>2, <2>4 DEF Content
  <2>6. PICK p \in Nat : p = N * scenario.chunk
    BY <2>4, Multiples
  <2>7. p \in scenario.size[u]..scenario.size[u] + scenario.chunk - 1
    BY <2>1, <2>4, <2>6 DEF Whole
  <2>8. QED
    BY <2>2, <2>3, <2>5, <2>6, <2>7
<1>2. QED
  BY <1>1, PutInvInit, PutInvNext, PTL DEF Spec

(***************************************************************************)
(* A save that succeeds can be restored byte for byte unless another save  *)
(* of the key ran, for every number of workers, of parts and of failing    *)
(* requests: no worker reports a part that is not stored.                  *)
(***************************************************************************)
THEOREM SpecSoleUploadIsRestorable == Spec => []SoleUploadIsRestorable
<1>1. PutInv => SoleUploadIsRestorable
  <2> SUFFICES ASSUME PutInv, NEW u \in Upload \ scenario.dir, put[u] = "ok",
                      \A v \in Upload \ {u} : put[v] \in {"unused", "start"}
               PROVE  object # NoObject /\ Restorable = Content(u)
    BY DEF SoleUploadIsRestorable
  <2>1. \/ object = Plain(Content(u))
        \/ \E N \in Nat : /\ Whole(u, N) /\ object = ManifestOf(u, N)
                          /\ \A n \in 1..N : Stored(u, n)
    BY DEF PutInv, SavedInv, Alone
  <2>2. CASE object = Plain(Content(u))
    <3>1. object.kind = "plain" /\ object.bytes = Content(u)
      BY <2>2 DEF Plain
    <3>2. QED
      BY <3>1 DEF NoObject, Restorable
  <2>3. ASSUME NEW N \in Nat, Whole(u, N), object = ManifestOf(u, N),
               \A n \in 1..N : Stored(u, n)
        PROVE  object # NoObject /\ Restorable = Content(u)
    <3>1. object.kind = "manifest" /\ object.numbers = [k \in 1..N |-> k]
      BY <2>3 DEF ManifestOf, Manifest
    <3>2. \A n \in 1..N : PartAt(n) = Part(u, n)
      BY <2>3 DEF Stored, PartAt
    <3>3. [k \in DOMAIN object.numbers |-> PartAt(object.numbers[k])] = [k \in 1..N |-> Part(u, k)]
      BY <3>1, <3>2
    <3>4. scenario \in Scenarios
      BY DEF PutInv
    <3>5. FlattenSeq([k \in 1..N |-> Part(u, k)]) = Content(u)
      BY <2>3, <3>4, PartsTogether
    <3>6. QED
      BY <3>1, <3>3, <3>5 DEF NoObject, Restorable
  <2>4. QED
    BY <2>1, <2>2, <2>3
<1>2. QED
  BY <1>1, PutInvInit, PutInvNext, PTL DEF Spec

-----------------------------------------------------------------------------
(* The types of the restores. *)

GetStates == {"unused", "start", "again", "parts", "ok", "combined", "error"}

(* A worker of a restore; a part it has was given by a manifest. *)
IsFetcher(s) ==
  \E at, number, link, failed, bytes : \E tries \in 0..(MaxTries - 1) :
    s = [at |-> at, number |-> number, tries |-> tries, link |-> link,
         failed |-> failed, bytes |-> bytes]

FetchTypes == /\ DOMAIN fetcher = Download
              /\ \A d \in Download : /\ DOMAIN fetcher[d] = scenario.workers
                                     /\ \A w \in scenario.workers : IsFetcher(fetcher[d][w])

GetTypes ==
  /\ faults \in 0..scenario.faults
  /\ get \in [Download -> GetStates]
  /\ written \in [Download -> Seq(Bytes)]
  /\ FetchTypes

LEMMA FetcherIs ==
  ASSUME NEW a, NEW n, NEW t \in 0..(MaxTries - 1), NEW l, NEW f, NEW b
  PROVE  IsFetcher([at |-> a, number |-> n, tries |-> t, link |-> l, failed |-> f, bytes |-> b])
BY DEF IsFetcher

LEMMA FetcherChanges ==
  ASSUME scenario \in Scenarios, NEW s, IsFetcher(s), NEW at, NEW x
  PROVE  /\ IsFetcher([s EXCEPT !.at = at])
         /\ IsFetcher([s EXCEPT !.at = at, !.link = x])
         /\ IsFetcher([s EXCEPT !.at = at, !.bytes = x])
         /\ IsFetcher([s EXCEPT !.at = at, !.failed = x])
         /\ x \in 0..(MaxTries - 1) => IsFetcher([s EXCEPT !.at = at, !.tries = x])
<1>1. PICK a, n, l, f, b, t :
        /\ s = [at |-> a, number |-> n, tries |-> t, link |-> l, failed |-> f, bytes |-> b]
        /\ t \in 0..(MaxTries - 1)
  BY DEF IsFetcher
<1> DEFINE r == [at |-> at, number |-> n, tries |-> t, link |-> l, failed |-> f, bytes |-> b]
<1>2. [s EXCEPT !.at = at] = r
  BY <1>1
<1>3. IsFetcher(r)
  BY <1>1, FetcherIs
<1>4. IsFetcher([r EXCEPT !.link = x])
  <2>1. [r EXCEPT !.link = x]
          = [at |-> at, number |-> n, tries |-> t, link |-> x, failed |-> f, bytes |-> b]
    OBVIOUS
  <2>2. IsFetcher([at |-> at, number |-> n, tries |-> t, link |-> x, failed |-> f, bytes |-> b])
    BY <1>1, FetcherIs
  <2> HIDE DEF r
  <2>3. QED
    BY <2>1, <2>2
<1>5. IsFetcher([r EXCEPT !.bytes = x])
  <2>1. [r EXCEPT !.bytes = x]
          = [at |-> at, number |-> n, tries |-> t, link |-> l, failed |-> f, bytes |-> x]
    OBVIOUS
  <2>2. IsFetcher([at |-> at, number |-> n, tries |-> t, link |-> l, failed |-> f, bytes |-> x])
    BY <1>1, FetcherIs
  <2> HIDE DEF r
  <2>3. QED
    BY <2>1, <2>2
<1>6. IsFetcher([r EXCEPT !.failed = x])
  <2>1. [r EXCEPT !.failed = x]
          = [at |-> at, number |-> n, tries |-> t, link |-> l, failed |-> x, bytes |-> b]
    OBVIOUS
  <2>2. IsFetcher([at |-> at, number |-> n, tries |-> t, link |-> l, failed |-> x, bytes |-> b])
    BY <1>1, FetcherIs
  <2> HIDE DEF r
  <2>3. QED
    BY <2>1, <2>2
<1>7. ASSUME x \in 0..(MaxTries - 1) PROVE IsFetcher([r EXCEPT !.tries = x])
  <2>1. [r EXCEPT !.tries = x]
          = [at |-> at, number |-> n, tries |-> x, link |-> l, failed |-> f, bytes |-> b]
    OBVIOUS
  <2>2. IsFetcher([at |-> at, number |-> n, tries |-> x, link |-> l, failed |-> f, bytes |-> b])
    BY <1>7, FetcherIs
  <2> HIDE DEF r
  <2>3. QED
    BY <2>1, <2>2
<1> HIDE DEF r
<1>8. QED
  BY <1>2, <1>3, <1>4, <1>5, <1>6, <1>7

LEMMA Fetcher0Type ==
  ASSUME scenario \in Scenarios, NEW at, NEW n
  PROVE  IsFetcher(Fetcher0(at)) /\ IsFetcher([Fetcher0(at) EXCEPT !.number = n])
<1> DEFINE no == FALSE
<1> HIDE DEF no
<1> DEFINE r == [at |-> at, number |-> 0, tries |-> 0, link |-> no, failed |-> no, bytes |-> <<>>]
<1>1. 0 \in 0..(MaxTries - 1)
  BY ScenarioTypes
<1>2. Fetcher0(at) = r
  BY DEF Fetcher0, no
<1>3. [r EXCEPT !.number = n]
        = [at |-> at, number |-> n, tries |-> 0, link |-> no, failed |-> no, bytes |-> <<>>]
  OBVIOUS
<1>4. /\ IsFetcher(r)
      /\ IsFetcher([at |-> at, number |-> n, tries |-> 0, link |-> no, failed |-> no,
                    bytes |-> <<>>])
  BY <1>1, FetcherIs
<1> HIDE DEF r
<1>5. QED
  BY <1>2, <1>3, <1>4

LEMMA FetchAgainType ==
  ASSUME scenario \in Scenarios, NEW s, IsFetcher(s)
  PROVE  IsFetcher(FetchAgain(s))
<1>1. s.tries \in 0..(MaxTries - 1) /\ MaxTries \in Nat
  BY ScenarioTypes DEF IsFetcher
<1>2. CASE s.tries + 1 < MaxTries
  <2>1. PICK t : t = s.tries + 1 /\ t \in 0..(MaxTries - 1)
    BY <1>1, <1>2
  <2>2. IsFetcher([s EXCEPT !.at = "link", !.tries = t])
    BY <2>1, FetcherChanges
  <2>3. FetchAgain(s) = [s EXCEPT !.at = "link", !.tries = t]
    BY <1>2, <2>1 DEF FetchAgain
  <2>4. QED
    BY <2>2, <2>3
<1>3. CASE ~ (s.tries + 1 < MaxTries)
  <2>1. IsFetcher([s EXCEPT !.at = "send", !.failed = TRUE])
    BY FetcherChanges
  <2>2. FetchAgain(s) = [s EXCEPT !.at = "send", !.failed = TRUE]
    BY <1>3 DEF FetchAgain
  <2>3. QED
    BY <2>1, <2>2
<1>4. QED
  BY <1>2, <1>3

LEMMA FetcherStepTypes ==
  ASSUME scenario \in Scenarios, FetchTypes, NEW d \in Download, NEW w \in scenario.workers,
         FetcherStep(d, w)
  PROVE  FetchTypes'
<1>1. IsFetcher(fetcher[d][w])
  BY DEF FetchTypes
<1>2. ASSUME NEW s, IsFetcher(s), SetFetcher(d, w, s), scenario' = scenario
      PROVE  FetchTypes'
  BY <1>2 DEF FetchTypes, SetFetcher
<1>3. CASE TakePart(d, w)
  <2>1. /\ scenario' = scenario
        /\ \E n : SetFetcher(d, w, [Fetcher0("link") EXCEPT !.number = n])
    BY <1>3 DEF TakePart, storeVars
  <2>2. QED
    BY <1>2, <2>1, Fetcher0Type
<1>4. CASE FetcherEnds(d, w) \/ SendPart(d, w)
  <2>1. scenario' = scenario /\ \E at : SetFetcher(d, w, Fetcher0(at))
    BY <1>4 DEF FetcherEnds, SendPart, storeVars
  <2>2. QED
    BY <1>2, <2>1, Fetcher0Type
<1>5. CASE AskFetchLink(d, w)
  <2>1. /\ scenario' = scenario
        /\ \E ok : SetFetcher(d, w, [fetcher[d][w] EXCEPT !.at = "test", !.link = ok])
    BY <1>5 DEF AskFetchLink
  <2>2. PICK ok : SetFetcher(d, w, [fetcher[d][w] EXCEPT !.at = "test", !.link = ok])
    BY <2>1
  <2>3. IsFetcher([fetcher[d][w] EXCEPT !.at = "test", !.link = ok])
    BY <1>1, FetcherChanges
  <2>4. QED
    BY <1>2, <2>1, <2>2, <2>3
<1>6. CASE TestFetchErr(d, w)
  <2>1. /\ scenario' = scenario
        /\ \/ SetFetcher(d, w, FetchAgain(fetcher[d][w]))
           \/ SetFetcher(d, w, [fetcher[d][w] EXCEPT !.at = "request"])
    BY <1>6 DEF TestFetchErr, storeVars
  <2>2. IsFetcher([fetcher[d][w] EXCEPT !.at = "request"])
    BY <1>1, FetcherChanges
  <2>3. QED
    BY <1>1, <1>2, <2>1, <2>2, FetchAgainType
<1>7. CASE FetchPart(d, w)
  <2>1. /\ scenario' = scenario
        /\ \/ SetFetcher(d, w, FetchAgain(fetcher[d][w]))
           \/ \E b : SetFetcher(d, w, [fetcher[d][w] EXCEPT !.at = "send", !.bytes = b])
    BY <1>7 DEF FetchPart
  <2>2. \A b : IsFetcher([fetcher[d][w] EXCEPT !.at = "send", !.bytes = b])
    BY <1>1, FetcherChanges
  <2>3. QED
    BY <1>1, <1>2, <2>1, <2>2, FetchAgainType
<1>8. QED
  BY <1>3, <1>4, <1>5, <1>6, <1>7 DEF FetcherStep

LEMMA RawType ==
  ASSUME PutInv
  PROVE  /\ Raw(object) \in Seq(Bytes)
         /\ ErrorPage \in Seq(Bytes) /\ ManifestText \in Seq(Bytes)
<1>1. <<"service", 1>> \in Bytes /\ <<"service", 2>> \in Bytes
  BY DEF Bytes
<1>2. ErrorPage \in Seq(Bytes) /\ ManifestText \in Seq(Bytes)
  BY <1>1 DEF ErrorPage, ManifestText
<1>3. Raw(object) \in Seq(Bytes)
  <2>1. object.kind = "plain" => object.bytes \in Seq(Bytes)
    BY DEF PutInv, ObjectInv, NoObject, ManifestOf, Manifest
  <2>2. QED
    BY <1>2, <2>1 DEF Raw
<1>4. QED
  BY <1>2, <1>3

LEMMA FrontType ==
  ASSUME NEW S, NEW s \in Seq(S)
  PROVE  Front(s) \in Seq(S)
<1>1. Len(s) \in Nat /\ DOMAIN s = 1..Len(s)
  OBVIOUS
<1>2. \A k \in 1..(Len(s) - 1) : s[k] \in S
  OBVIOUS
<1>3. Front(s) = SubSeq(s, 1, Len(s) - 1)
  BY DEF Front
<1>4. CASE Len(s) = 0
  BY <1>1, <1>3, <1>4
<1>5. CASE Len(s) # 0
  BY <1>1, <1>2, <1>3, <1>5
<1>6. QED
  BY <1>4, <1>5

(* A download that is assembled is the archive of an upload. *)
LEMMA CombineType ==
  ASSUME HInv, scenario \in Scenarios, NEW d \in Download, get[d] = "parts", Intact(d)
  PROVE  FlattenSeq(downloaded[d]) \in Seq(Bytes)
<1>1. PICK u \in Upload : manifest[d].checksum = Content(u)
  BY DEF HInv, CombineInv, Sums
<1>2. Content(u) \in Seq(Bytes)
  <2>1. scenario.size[u] \in Nat /\ 0 <= scenario.size[u]
    BY ScenarioTypes
  <2>2. Piece(u, 0, scenario.size[u]) \in Seq(Bytes)
    BY <2>1, PieceFacts
  <2>3. QED
    BY <2>2, ContentIsPiece
<1>3. QED
  BY <1>1, <1>2 DEF Intact

LEMMA CallStepTypes ==
  ASSUME HInv, PutInv, GetTypes, NEW d \in Download, GetCallStep(d)
  PROVE  get' \in [Download -> GetStates] /\ written' \in [Download -> Seq(Bytes)] /\ FetchTypes'
<1>1. /\ get \in [Download -> GetStates] /\ written \in [Download -> Seq(Bytes)] /\ FetchTypes
      /\ scenario \in Scenarios
  BY DEF GetTypes, PutInv
<1>2. scenario' = scenario
  BY DEF GetCallStep, GetFails, DecodeManifest, DecodeFails, CopyAgain, PlacePart, Combine, storeVars
<1>3. fetcher' = fetcher => FetchTypes'
  BY <1>1, <1>2 DEF FetchTypes
<1>4. ASSUME NEW value \in GetStates, GetReturns(d, value) PROVE get' \in [Download -> GetStates]
  BY <1>1, <1>4 DEF GetReturns
<1>5. CASE GetFails(d)
  <2>1. GetReturns(d, "error") /\ written' = written /\ fetcher' = fetcher
    BY <1>5 DEF GetFails, fetchVars
  <2>2. QED
    BY <1>1, <1>3, <1>4, <2>1 DEF GetStates
<1>6. CASE DecodeFails(d)
  <2>1. GetReturns(d, "again") /\ written' = written /\ fetcher' = fetcher
    BY <1>6 DEF DecodeFails, fetchVars
  <2>2. QED
    BY <1>1, <1>3, <1>4, <2>1 DEF GetStates
<1>7. CASE DecodeManifest(d)
  <2>1. /\ GetReturns(d, "parts") /\ written' = written
        /\ fetcher' = [fetcher EXCEPT ![d] = [w \in scenario.workers |-> Fetcher0("idle")]]
    BY <1>7 DEF DecodeManifest
  <2>2. IsFetcher(Fetcher0("idle"))
    BY <1>1, Fetcher0Type
  <2>3. FetchTypes'
    BY <1>1, <1>2, <2>1, <2>2 DEF FetchTypes
  <2>4. QED
    BY <1>1, <1>4, <2>1, <2>3 DEF GetStates
<1>8. CASE CopyAgain(d)
  <2>1. /\ \E value \in {"ok", "error"} : GetReturns(d, value)
        /\ \E bytes \in {Raw(object), ErrorPage, Front(Raw(object))} :
             written' = [written EXCEPT ![d] = bytes]
        /\ fetcher' = fetcher
    BY <1>8 DEF CopyAgain, fetchVars
  <2>2. Raw(object) \in Seq(Bytes) /\ ErrorPage \in Seq(Bytes)
    BY RawType
  <2>3. Front(Raw(object)) \in Seq(Bytes)
    BY <2>2, FrontType
  <2>4. written' \in [Download -> Seq(Bytes)]
    BY <1>1, <2>1, <2>2, <2>3
  <2>5. QED
    BY <1>3, <1>4, <2>1, <2>4 DEF GetStates
<1>9. CASE PlacePart(d)
  <2>1. GetReturns(d, "error") \/ get' = get
    BY <1>9 DEF PlacePart
  <2>2. written' = written /\ fetcher' = fetcher
    BY <1>9 DEF PlacePart
  <2>3. QED
    BY <1>1, <1>3, <1>4, <2>1, <2>2 DEF GetStates
<1>10. CASE Combine(d)
  <2>1. /\ \E value \in {"combined", "error"} : GetReturns(d, value)
        /\ get[d] = "parts" /\ fetcher' = fetcher
        /\ \/ Intact(d) /\ written' = [written EXCEPT ![d] = FlattenSeq(downloaded[d])]
           \/ written' = [written EXCEPT ![d] = written[d]]
    BY <1>10 DEF Combine, fetchVars
  <2>2. written' \in [Download -> Seq(Bytes)]
    BY <1>1, <2>1, CombineType
  <2>3. QED
    BY <1>3, <1>4, <2>1, <2>2 DEF GetStates
<1>11. QED
  BY <1>5, <1>6, <1>7, <1>8, <1>9, <1>10 DEF GetCallStep

(* A step meets with at most one failure, of those the scenario has left. *)
LEMMA FaultsStep ==
  ASSUME Next
  PROVE  scenario' = scenario /\ (Succeeds \/ Fails)
<1>1. \A ok : Answer(ok) => Succeeds \/ Fails
  BY DEF Answer
<1>2. ASSUME NEW u \in Upload, PutCallStep(u) PROVE scenario' = scenario /\ (Succeeds \/ Fails)
  BY <1>1, <1>2 DEF PutCallStep, PutMarker, ReadFails, Refuse, PutPlain, Initiate, CollectPart,
     Complete, StoreObject, storeVars, Succeeds
<1>3. ASSUME NEW u \in Upload, DistributorStep(u) PROVE scenario' = scenario /\ (Succeeds \/ Fails)
  BY <1>3 DEF DistributorStep, CutPart, CloseJobs, storeVars, Succeeds
<1>4. ASSUME NEW u \in Upload, NEW w \in scenario.workers, PutWorkerStep(u, w)
      PROVE  scenario' = scenario /\ (Succeeds \/ Fails)
  BY <1>1, <1>4 DEF PutWorkerStep, TakeJob, WorkerEnds, AskPartLink, TestPartErr, PutPart,
     SendResult, storeVars, Succeeds
<1>5. ASSUME NEW d \in Download, GetCallStep(d) PROVE scenario' = scenario /\ (Succeeds \/ Fails)
  BY <1>1, <1>5 DEF GetCallStep, GetFails, DecodeManifest, DecodeFails, CopyAgain, PlacePart,
     Combine, storeVars, Succeeds
<1>6. ASSUME NEW d \in Download, NEW w \in scenario.workers, FetcherStep(d, w)
      PROVE  scenario' = scenario /\ (Succeeds \/ Fails)
  BY <1>1, <1>6 DEF FetcherStep, TakePart, FetcherEnds, AskFetchLink, TestFetchErr, FetchPart,
     SendPart, storeVars, Succeeds
<1>7. QED
  BY <1>2, <1>3, <1>4, <1>5, <1>6 DEF Next, PutNext, GetNext

IInv == HInv /\ PutInv /\ GetTypes

LEMMA InitIInv == Init => IInv
<1> SUFFICES ASSUME Init PROVE IInv
  OBVIOUS
<1>1. HInv /\ PutInv
  BY InitH, PutInvInit
<1>2. scenario \in Scenarios
  BY <1>1 DEF PutInv
<1>3. faults \in 0..scenario.faults
  BY <1>2, HarnessAssumption DEF Init, StoreInit, Scenario
<1>4. get \in [Download -> GetStates] /\ written \in [Download -> Seq(Bytes)]
  BY DEF Init, GetInit, GetStates
<1>5. FetchTypes
  BY <1>2, Fetcher0Type DEF Init, GetInit, FetchTypes
<1>6. QED
  BY <1>1, <1>3, <1>4, <1>5 DEF IInv, GetTypes

LEMMA NextIInv == IInv /\ [Next]_vars => IInv'
<1> SUFFICES ASSUME IInv, [Next]_vars PROVE IInv'
  OBVIOUS
<1>1. HInv' /\ PutInv'
  BY NextH, PutInvNext DEF IInv
<1>2. GetTypes'
  <2>1. CASE UNCHANGED vars
    BY <2>1 DEF IInv, GetTypes, FetchTypes, vars, storeVars, getVars, fetchVars
  <2>2. CASE Next
    <3>1. scenario' = scenario /\ faults' \in 0..scenario'.faults
      <4>1. scenario' = scenario /\ (Succeeds \/ Fails)
        BY <2>2, FaultsStep
      <4>2. scenario.faults \in Nat /\ faults \in 0..scenario.faults
        BY HarnessAssumption DEF IInv, PutInv, GetTypes, Scenario
      <4>3. QED
        BY <4>1, <4>2 DEF Succeeds, Fails
    <3>2. get' \in [Download -> GetStates] /\ written' \in [Download -> Seq(Bytes)] /\ FetchTypes'
      <4>1. CASE UNCHANGED getVars
        BY <3>1, <4>1 DEF IInv, GetTypes, FetchTypes, getVars, fetchVars
      <4>2. ASSUME NEW d \in Download, GetCallStep(d)
            PROVE  get' \in [Download -> GetStates] /\ written' \in [Download -> Seq(Bytes)]
                     /\ FetchTypes'
        BY <4>2, CallStepTypes DEF IInv
      <4>3. ASSUME NEW d \in Download, NEW w \in scenario.workers, FetcherStep(d, w)
            PROVE  get' \in [Download -> GetStates] /\ written' \in [Download -> Seq(Bytes)]
                     /\ FetchTypes'
        <5>1. get' = get /\ written' = written
          BY <4>3, FetcherKeeps
        <5>2. FetchTypes'
          BY <4>3, FetcherStepTypes DEF IInv, PutInv, GetTypes
        <5>3. QED
          BY <5>1, <5>2 DEF IInv, GetTypes
      <4>4. QED
        BY <2>2, <4>1, <4>2, <4>3 DEF Next, GetNext
    <3>3. QED
      BY <3>1, <3>2 DEF GetTypes
  <2>3. QED
    BY <2>1, <2>2
<1>3. QED
  BY <1>1, <1>2 DEF IInv

(***************************************************************************)
(* Type correctness: in particular a worker counts its attempts below the  *)
(* limit, and what a restore writes are bytes of saves or of the service.  *)
(***************************************************************************)
THEOREM SpecTypeOK == Spec => []TypeOK
<1>1. IInv => TypeOK
  <2> SUFFICES ASSUME IInv PROVE TypeOK
    OBVIOUS
  <2>1. /\ scenario \in Scenarios /\ faults \in 0..scenario.faults
        /\ parts \in Seq(Seq(Bytes))
        /\ put \in [Upload -> {"unused", "start", "parts", "ok", "error"}]
        /\ get \in [Download -> {"unused", "start", "again", "parts", "ok", "combined", "error"}]
        /\ written \in [Download -> Seq(Bytes)]
    BY DEF IInv, PutInv, GetTypes, GetStates
  <2>2. object.kind \in {"absent", "plain", "manifest"}
    BY DEF IInv, PutInv, ObjectInv, NoObject, ManifestOf, Manifest
  <2>3. \A t \in 0..(MaxTries - 1) : t < MaxTries
    BY <2>1, ScenarioTypes
  <2>4. ASSUME NEW u \in Upload, NEW w \in scenario.workers PROVE worker[u][w].tries < MaxTries
    <3>1. worker[u][w] \in WorkerState
      BY DEF IInv, PutInv, UploadInv, PutTypes
    <3>2. QED
      BY <2>3, <3>1 DEF WorkerState
  <2>5. ASSUME NEW d \in Download, NEW w \in scenario.workers PROVE fetcher[d][w].tries < MaxTries
    <3>1. IsFetcher(fetcher[d][w])
      BY DEF IInv, GetTypes, FetchTypes
    <3>2. QED
      BY <2>3, <3>1 DEF IsFetcher
  <2>6. QED
    BY <2>1, <2>2, <2>4, <2>5 DEF TypeOK
<1>2. QED
  BY <1>1, InitIInv, NextIInv, PTL DEF Spec
=============================================================================
