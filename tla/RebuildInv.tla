----------------------------- MODULE RebuildInv -----------------------------
(***************************************************************************)
(* The inductive invariant of Rebuild, in named parts.  The proofs of      *)
(* RebuildProofs use it; a run checks it on a small instance.              *)
(***************************************************************************)
EXTENDS Rebuild

Verdict  == {"missing", "existing", "scheduled"}
Launched == {"running", "ok", "failed", "sent"}

Pending(r) == {i \in Uploads(r) : task[r][i] # "sent"}

(* Where the call is decides what may have become of its sources. *)
Phase(r) ==
  /\ pc[r] = "start" =>
       key[r] = NoKey /\ pos[r] = 1 /\ \A i \in Indices(r) : task[r][i] = "unseen"
  /\ pc[r] = "scan" =>
       /\ key[r] \in Key
       /\ pos[r] <= Len(call[r].srcs) + 1
       /\ \A i \in Indices(r) : i < pos[r] => task[r][i] \in Verdict
       /\ \A i \in Indices(r) : i >= pos[r] => task[r][i] = "unseen"
  /\ pc[r] = "collect" => Pending(r) = {}
  /\ pc[r] = "returned" <=> ret[r] # "none"
  /\ ret[r] \in ScanError => \A i \in Indices(r) : task[r][i] \notin Launched
  /\ \A i \in Indices(r) : task[r][i] # "unseen" => key[r] \in Key

PhaseInv == \A r \in Run : Phase(r)

(* An object carries the mark of an item only if that item was launched. *)
TraceInv ==
  \A o \in Object, r \in Run : \A i \in Indices(r) :
    store[o].item = <<r, i>> => task[r][i] \in Launched /\ o = Dst(r, i)

(* The counters of the summary, and what is still on its way to them. *)
Count(r) ==
  /\ summary[r].requested = Len(call[r].srcs)
  /\ pc[r] \in {"start", "scan"} =>
       /\ summary[r].missing + summary[r].existing + summary[r].scheduled
            = pos[r] - 1
       /\ summary[r].scheduled = Cardinality(Uploads(r))
       /\ summary[r].uploaded = 0
       /\ summary[r].failed = 0
       /\ results[r] = {}
  /\ pc[r] \in {"wait", "collect"} \/ ret[r] \in {"nil", "errUpload"} =>
       /\ summary[r].requested = summary[r].missing + summary[r].existing
                                 + summary[r].scheduled
       /\ summary[r].scheduled = summary[r].uploaded + summary[r].failed
                                 + Cardinality(results[r])
                                 + Cardinality(Pending(r))
  /\ ret[r] \in {"nil", "errUpload"} =>
       /\ results[r] = {}
       /\ Pending(r) = {}
       /\ ret[r] = "nil" <=> summary[r].failed = 0
  /\ \A res \in results[r] : task[r][res.index] = "sent"
  /\ IsFiniteSet(results[r])

CountInv == \A r \in Run : Count(r)

(* The upload of source i is reported as failed, now or already. *)
Blamed(r, i) ==
  summary[r].failed > 0 \/ [index |-> i, ok |-> FALSE] \in results[r]

(* An item with an object of its own: how far its upload is. *)
Stored(r, i) ==
  /\ task[r][i] = "running" /\ TruncatesOnOpen =>
       store[Dst(r, i)] = Partial(r, i)
  /\ task[r][i] = "ok" => store[Dst(r, i)] = Whole(r, i)
  /\ task[r][i] = "sent" => store[Dst(r, i)] = Whole(r, i) \/ Blamed(r, i)

StoredInv ==
  \A r \in Run : \A i \in Indices(r) : Exclusive(r, i) => Stored(r, i)

(* What is still under way belongs to an upload that is reported as failed. *)
LateInv ==
  \A r \in Run : \A i \in Indices(r) : <<r, i>> \in late =>
    task[r][i] = "failed" \/ (task[r][i] = "sent" /\ Blamed(r, i))

(* Without override an exclusive object is its item's own, or is new. *)
NewObjectInv ==
  \A r \in Run : \A i \in Indices(r) :
    ~ call[r].override /\ Exclusive(r, i) /\ i \in Uploads(r) =>
      store[Dst(r, i)] = Absent \/ store[Dst(r, i)].item = <<r, i>>

(* An object this call found, or put there without being told otherwise. *)
Present(r, i) ==
  /\ task[r][i] \in {"existing", "ok"} => store[Dst(r, i)] # Absent
  /\ task[r][i] = "running" /\ TruncatesOnOpen => store[Dst(r, i)] # Absent
  /\ task[r][i] = "sent" => store[Dst(r, i)] # Absent \/ Blamed(r, i)

PresentInv == \A r \in Run : \A i \in Indices(r) : Present(r, i)

(* What a call past its scan has decided about its sources. *)
Decided(r) ==
  /\ pc[r] \in {"wait", "collect"} \/ ret[r] = "nil" =>
       \A i \in Indices(r) : task[r][i] # "unseen"
  /\ pc[r] \in {"wait", "collect"} => Uploads(r) # {}
  /\ summary[r].existing > 0 => \E i \in Indices(r) : task[r][i] = "existing"
  /\ ret[r] = "nil" /\ call[r].policy = "skipRequirePresent" =>
       \E i \in Indices(r) : task[r][i] # "missing"

DecidedInv == \A r \in Run : Decided(r)

(* A backend that publishes in one step stores only whole archives. *)
WholeInv == \A o \in Object : store[o] = Absent \/ store[o].kind = "whole"

IInv == PhaseInv /\ TraceInv /\ CountInv /\ LateInv /\ StoredInv
          /\ PresentInv /\ DecidedInv
=============================================================================
