----------------------------- MODULE MCHarness -----------------------------
(* Small instances of Harness. *)
EXTENDS Harness

CONSTANT w1

Base == [size |-> [u \in Upload |-> 0], dir |-> {}, uploads |-> Upload,
         downloads |-> Download, enabled |-> TRUE,
         maxSize |-> 9, chunk |-> 2, threshold |-> 1, faults |-> 1,
         workers |-> Worker]

Sizes(a, b) == [u \in Upload |-> IF u = "u1" THEN a ELSE b]

(* One save of three parts, the last one short, by two workers. *)
OneSave == [Base EXCEPT !.size = Sizes(5, 0), !.uploads = {"u1"},
                        !.downloads = {}, !.faults = 2]

(* A save and a restore of two parts, by two workers. *)
SaveAndRestore == [Base EXCEPT !.size = Sizes(3, 0), !.uploads = {"u1"}]

(* A restore of which a part fails as often as the code tries. *)
FailingRestore == [SaveAndRestore EXCEPT !.workers = {w1}, !.faults = 2]

(* Two saves of two parts each, the second with a short part. *)
TwoSaves == [Base EXCEPT !.size = Sizes(4, 3), !.workers = {w1}]

(* A save below the threshold and one above. *)
PlainAndParts == [Base EXCEPT !.size = Sizes(1, 2)]

(* Sizes and settings at and beyond their limits. *)
Limits ==
  {[Base EXCEPT !.size = Sizes(a, 2), !.uploads = {"u1"}, !.enabled = e,
                !.maxSize = m, !.chunk = c, !.threshold = t] :
     a \in {0, 1, 2, 3}, e \in BOOLEAN, m \in {0, 2}, c \in {0, 2}, t \in {0, 1, 2}}

Marker == [Base EXCEPT !.size = Sizes(0, 2), !.dir = {"u1"}]

MCScenarios == {OneSave, SaveAndRestore, FailingRestore, TwoSaves,
                PlainAndParts, Marker} \cup Limits

(* The saves of PlainAndParts alone. *)
PlainScenario == {PlainAndParts}
=============================================================================
