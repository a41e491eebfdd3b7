----------------------------- MODULE HarnessGet -----------------------------
(***************************************************************************)
(* Backend.Get of storage/backend/harness/harness.go.  The object at the   *)
(* key is a manifest, whose parts workers download, or anything else,      *)
(* which is requested a second time and copied.  As in Put, the workers    *)
(* assign and test one error variable, that of the function.               *)
(***************************************************************************)
EXTENDS HarnessStore, SequencesExt

VARIABLES
  get,         \* where each call of Get is, or what it returned
  manifest,    \* completeReq: the manifest the call has decoded
  taken,       \* how many of its parts workers have taken from jobs
  fetcher,     \* the workers
  getErr,      \* the shared err is not nil
  fetched,     \* the results channel, which has room for every part
  downloaded,  \* downloadedParts, by place in the archive
  written      \* what was written to the io.Writer

fetchVars == <<taken, fetcher, getErr, fetched, downloaded>>
getVars == <<get, manifest, written, fetchVars>>

Fetcher0(at) == [at |-> at, number |-> 0, tries |-> 0, link |-> FALSE,
                 failed |-> FALSE, bytes |-> <<>>]

GetInit ==
  /\ get = [d \in Download |-> IF d \in scenario.downloads THEN "start" ELSE "unused"]
  /\ manifest = [d \in Download |-> NoObject]
  /\ taken = [d \in Download |-> 0]
  /\ fetcher = [d \in Download |-> [w \in scenario.workers |-> Fetcher0("ended")]]
  /\ getErr = [d \in Download |-> FALSE]
  /\ fetched = [d \in Download |-> <<>>]
  /\ downloaded = [d \in Download |-> <<>>]
  /\ written = [d \in Download |-> <<>>]

GetReturns(d, value) == get' = [get EXCEPT ![d] = value]

(* The first request fails, or there is no object. *)
GetFails(d) ==
  /\ get[d] = "start"
  /\ IF object = NoObject THEN Succeeds ELSE Fails
  /\ GetReturns(d, "error")
  /\ UNCHANGED <<scenario, object, parts, manifest, written>> /\ UNCHANGED fetchVars

DecodeManifest(d) ==
  /\ get[d] = "start" /\ object.kind = "manifest"
  /\ manifest' = [manifest EXCEPT ![d] = object]
  /\ fetcher' = [fetcher EXCEPT ![d] = [w \in scenario.workers |-> Fetcher0("idle")]]
  /\ downloaded' = [downloaded EXCEPT ![d] = [k \in DOMAIN object.numbers |-> <<>>]]
  /\ GetReturns(d, "parts")
  /\ UNCHANGED storeVars /\ UNCHANGED <<written, taken, getErr, fetched>>

(* Not XML, or a manifest of which not everything arrives. *)
DecodeFails(d) ==
  /\ get[d] = "start" /\ object # NoObject
  /\ IF object.kind = "plain" THEN Succeeds ELSE Fails
  /\ GetReturns(d, "again")
  /\ UNCHANGED <<scenario, object, parts, manifest, written>> /\ UNCHANGED fetchVars

(* The bytes of an object as they are. *)
Raw(obj) == IF obj.kind = "plain" THEN obj.bytes ELSE ManifestText

(* The second request: its status is not looked at. *)
CopyAgain(d) ==
  /\ get[d] = "again"
  /\ \/ /\ Succeeds
        /\ GetReturns(d, "ok")
        /\ written' = [written EXCEPT ![d] = Raw(object)]
     \/ /\ Fails
        /\ GetReturns(d, "ok")
        /\ written' = [written EXCEPT ![d] = ErrorPage]
     \/ /\ Fails
        /\ GetReturns(d, "error")
        /\ written' = [written EXCEPT ![d] = Front(Raw(object))]
  /\ UNCHANGED <<scenario, object, parts, manifest>> /\ UNCHANGED fetchVars

-----------------------------------------------------------------------------
(* The workers. *)

SetFetcher(d, w, state) == fetcher' = [fetcher EXCEPT ![d][w] = state]

TakePart(d, w) ==
  /\ fetcher[d][w].at = "idle" /\ taken[d] < Len(manifest[d].numbers)
  /\ taken' = [taken EXCEPT ![d] = @ + 1]
  /\ SetFetcher(d, w, [Fetcher0("link") EXCEPT !.number = manifest[d].numbers[taken[d] + 1]])
  /\ UNCHANGED storeVars
  /\ UNCHANGED <<get, manifest, written, getErr, fetched, downloaded>>

FetcherEnds(d, w) ==
  /\ fetcher[d][w].at = "idle" /\ taken[d] = Len(manifest[d].numbers)
  /\ SetFetcher(d, w, Fetcher0("ended"))
  /\ UNCHANGED storeVars
  /\ UNCHANGED <<get, manifest, written, taken, getErr, fetched, downloaded>>

AskFetchLink(d, w) ==
  /\ fetcher[d][w].at = "link"
  /\ \E ok \in BOOLEAN :
       /\ Answer(ok)
       /\ getErr' = [getErr EXCEPT ![d] = ~ ok]
       /\ SetFetcher(d, w, [fetcher[d][w] EXCEPT !.at = "test", !.link = ok])
  /\ UNCHANGED <<scenario, object, parts>>
  /\ UNCHANGED <<get, manifest, written, taken, fetched, downloaded>>

FetchAgain(state) ==
  IF state.tries + 1 < MaxTries
    THEN [state EXCEPT !.at = "link", !.tries = @ + 1]
    ELSE [state EXCEPT !.at = "send", !.failed = TRUE]

TestFetchErr(d, w) ==
  /\ fetcher[d][w].at = "test"
  /\ SetFetcher(d, w, IF getErr[d] THEN FetchAgain(fetcher[d][w])
                                   ELSE [fetcher[d][w] EXCEPT !.at = "request"])
  /\ UNCHANGED storeVars
  /\ UNCHANGED <<get, manifest, written, taken, getErr, fetched, downloaded>>

(* A failure without a failing service: no link, or a part that is absent. *)
NothingToFetch(part) == ~ part.link \/ PartAt(part.number) = <<>>

FetchPart(d, w) ==
  /\ fetcher[d][w].at = "request"
  /\ LET part == fetcher[d][w]
     IN \/ /\ ~ NothingToFetch(part)
           /\ Succeeds
           /\ SetFetcher(d, w, [part EXCEPT !.at = "send", !.bytes = PartAt(part.number)])
        \/ /\ IF NothingToFetch(part) THEN Succeeds ELSE Fails
           /\ SetFetcher(d, w, FetchAgain(part))
  /\ UNCHANGED <<scenario, object, parts>>
  /\ UNCHANGED <<get, manifest, written, taken, getErr, fetched, downloaded>>

SendPart(d, w) ==
  /\ fetcher[d][w].at = "send"
  /\ LET part == fetcher[d][w]
     IN fetched' = [fetched EXCEPT ![d] = Append(@,
          [number |-> part.number, failed |-> part.failed, bytes |-> part.bytes])]
  /\ SetFetcher(d, w, Fetcher0("idle"))
  /\ UNCHANGED storeVars
  /\ UNCHANGED <<get, manifest, written, taken, getErr, downloaded>>

-----------------------------------------------------------------------------
(* The function again. *)

PlacePart(d) ==
  /\ get[d] = "parts" /\ fetched[d] # <<>>
  /\ LET part == Head(fetched[d])
     IN IF part.failed
          THEN GetReturns(d, "error") /\ UNCHANGED downloaded
          ELSE /\ downloaded' = [downloaded EXCEPT ![d][part.number] = part.bytes]
               /\ UNCHANGED get
  /\ fetched' = [fetched EXCEPT ![d] = Tail(@)]
  /\ UNCHANGED storeVars /\ UNCHANGED <<manifest, written, taken, fetcher, getErr>>

MutantIntact(d) == Len(FlattenSeq(downloaded[d])) = Len(manifest[d].checksum)

Intact(d) == FlattenSeq(downloaded[d]) = manifest[d].checksum

(***************************************************************************)
(* All parts are there: compare the checksum and copy them to the writer,  *)
(* which refuses what comes after the reader has gone.                     *)
(***************************************************************************)
Combine(d) ==
  /\ get[d] = "parts" /\ fetched[d] = <<>>
  /\ \A w \in scenario.workers : fetcher[d][w].at = "ended"
  /\ \E accepted \in BOOLEAN :
       /\ written' = [written EXCEPT ![d] = IF Intact(d) /\ accepted
                        THEN FlattenSeq(downloaded[d]) ELSE @]
       /\ GetReturns(d, IF Intact(d) /\ accepted THEN "combined" ELSE "error")
  /\ UNCHANGED storeVars /\ UNCHANGED <<manifest>> /\ UNCHANGED fetchVars

-----------------------------------------------------------------------------
FetcherStep(d, w) ==
  \/ TakePart(d, w) \/ FetcherEnds(d, w) \/ AskFetchLink(d, w)
  \/ TestFetchErr(d, w) \/ FetchPart(d, w) \/ SendPart(d, w)

GetCallStep(d) ==
  \/ GetFails(d) \/ DecodeManifest(d) \/ DecodeFails(d) \/ CopyAgain(d)
  \/ PlacePart(d) \/ Combine(d)

GetNext == \E d \in Download : \/ GetCallStep(d)
                               \/ \E w \in scenario.workers : FetcherStep(d, w)
=============================================================================
