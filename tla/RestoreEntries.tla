--------------------------- MODULE RestoreEntries ---------------------------
(***************************************************************************)
(* The loop of restorer.Restore over the listed entries: which of them are *)
(* restored, and where to.  Restore.tla takes the outcome as constants.    *)
(*                                                                         *)
(* A remote path is the sequence of its components.  The code works on the *)
(* string; what it asks of a component is whether the key is its beginning *)
(* or its end, or is somewhere inside it.  The plugin sets no namespace,   *)
(* which Clean turns into ".": it is gone when the paths are joined, but   *)
(* the loop compares destinations with it.                                 *)
(***************************************************************************)
EXTENDS Naturals, Sequences, FiniteSets, SequencesExt

CONSTANTS
  Component,  \* the names between the separators of remote paths
  Begins,     \* <<c, d>>: c is longer than d and begins with it
  Ends,       \* <<c, d>>: c is longer than d and ends with it
  Within,     \* <<c, d>>: c is longer than d and contains it
  Hidden,     \* the names that begin with a dot
  Receivers,  \* the configurations a restore can have
  Storages    \* what builds have saved

Path == Seq(Component) \ {<<>>}

(***************************************************************************)
(* "account" precedes the paths of the legacy Harness service, "delimits"  *)
(* says that List of the backend ends the prefix with a separator itself.  *)
(***************************************************************************)
Receiver == [key: Path, account: Seq(Component), separator: BOOLEAN,
             strict: BOOLEAN, delimits: BOOLEAN]

(***************************************************************************)
(* A source saved under a key, by a build of this or another pipeline; the *)
(* source "." has no component.                                            *)
(***************************************************************************)
Save == [key: Path, path: Seq(Component)]

ASSUME RestoreEntriesAssumption ==
  /\ Begins \cup Ends \subseteq Within
  /\ Within \subseteq Component \X Component
  /\ \A c \in Component : <<c, c>> \notin Within
  /\ Hidden \subseteq Component
  /\ Receivers \subseteq Receiver
  /\ \A saves \in Storages : saves \subseteq Save /\ IsFiniteSet(saves)

VARIABLES
  receiver,    \* the configuration
  saved,       \* the sources in the storage
  pc,          \* where the call is
  entries,     \* the entries the loop has not reached
  dsts,        \* the destinations
  sourcePaths  \* the entry each destination is restored from

vars == <<receiver, saved, pc, entries, dsts, sourcePaths>>

Init ==
  /\ receiver \in Receivers
  /\ saved \in Storages
  /\ pc = "start"
  /\ entries = <<>>
  /\ dsts = <<>>
  /\ sourcePaths = <<>>

-----------------------------------------------------------------------------
Key == receiver.key

(* Where Rebuild stores a source, and where the entries of the key are. *)
EntryOf(s) == receiver.account \o s.key \o s.path
Prefix     == receiver.account \o Key

Below(path, dir)   == Len(dir) < Len(path) /\ IsPrefix(dir, path)
IsOrBegins(c, d)   == c = d \/ <<c, d>> \in Begins
IsOrEnds(c, d)     == c = d \/ <<c, d>> \in Ends
IsOrContains(c, d) == c = d \/ <<c, d>> \in Within

(* List: the entries whose path, as a string, begins with the prefix. *)
Listed(e) ==
  \/ Below(e, Prefix)
  \/ /\ ~ receiver.separator /\ ~ receiver.delimits
     /\ Len(e) >= Len(Prefix)
     /\ IsPrefix(Front(Prefix), e)
     /\ IsOrBegins(e[Len(Prefix)], Last(Prefix))

MutantKeyWithSuffix(e) == FALSE

(* The first component is the key and something more. *)
KeyWithSuffix(e) == Len(Key) = 1 /\ <<e[1], Key[1]>> \in Begins

(***************************************************************************)
(* The path is the prefix, or begins with prefix and separator.  A prefix  *)
(* that ends in a separator gets a second one, which no path has.          *)
(***************************************************************************)
UnderPrefix(e) == ~ receiver.separator /\ (e = Prefix \/ Below(e, Prefix))

HasKeyComponent(e) == Len(Key) = 1 /\ \E i \in DOMAIN e : e[i] = Key[1]

Selected(e) ==
  receiver.strict => ~ KeyWithSuffix(e) /\ (UnderPrefix(e) \/ HasKeyComponent(e))

(* strings.TrimPrefix leaves what has another prefix as it is. *)
Trimmed(e) == IF Below(e, Prefix) THEN SubSeq(e, Len(Prefix) + 1, Len(e)) ELSE e

(* strings.Contains(dst, key), across separators as well. *)
ContainsKey(path) ==
  IF Len(Key) = 1
    THEN \E i \in DOMAIN path : IsOrContains(path[i], Key[1])
    ELSE \E i \in 1..Len(path) - Len(Key) + 1 :
           /\ IsOrEnds(path[i], Key[1])
           /\ \A j \in 2..Len(Key) - 1 : path[i + j - 1] = Key[j]
           /\ IsOrBegins(path[i + Len(Key) - 1], Last(Key))

(* Destinations that are computed in another way: HasPrefix(dst, ".") too. *)
Special(path) == path[1] \in Hidden \/ ContainsKey(path)

(* Places of the components with the key in them; a key of several has none. *)
KeyPlaces(e) == {i \in DOMAIN e : Len(Key) = 1 /\ IsOrContains(e[i], Key[1])}

MutantKeyPlace(e) == CHOOSE i \in KeyPlaces(e) : \A j \in KeyPlaces(e) : j <= i

KeyPlace(e) == CHOOSE i \in KeyPlaces(e) : \A j \in KeyPlaces(e) : i <= j

MutantAfterKey(e) == SubSeq(e, KeyPlace(e) + 1, Len(e))

AfterKey(e) ==
  CASE KeyPlace(e) < Len(e) -> SubSeq(e, KeyPlace(e) + 1, Len(e))
    [] KeyPlace(e) = Len(e) /\ receiver.strict -> Trimmed(e)
    [] OTHER -> <<Last(e)>>

Destination(e) ==
  IF Special(Trimmed(e)) /\ KeyPlaces(e) # {} THEN AfterKey(e) ELSE Trimmed(e)

-----------------------------------------------------------------------------
(* Nothing is promised about the order of a listing. *)
List ==
  /\ pc = "start"
  /\ entries' \in SetToSeqs({e \in {EntryOf(s) : s \in saved} : Listed(e)})
  /\ pc' = "loop"
  /\ UNCHANGED <<receiver, saved, dsts, sourcePaths>>

TakeEntry ==
  /\ pc = "loop" /\ entries # <<>>
  /\ LET e == Head(entries) IN
     IF Selected(e)
       THEN /\ dsts' = Append(dsts, Destination(e))
            /\ sourcePaths' = [d \in DOMAIN sourcePaths \cup {Destination(e)} |->
                                 IF d = Destination(e) THEN e ELSE sourcePaths[d]]
       ELSE UNCHANGED <<dsts, sourcePaths>>
  /\ entries' = Tail(entries)
  /\ UNCHANGED <<receiver, saved, pc>>

(* The goroutines start. *)
LoopEnds ==
  /\ pc = "loop" /\ entries = <<>>
  /\ pc' = "started"
  /\ UNCHANGED <<receiver, saved, entries, dsts, sourcePaths>>

Next == List \/ TakeEntry \/ LoopEnds

Spec == Init /\ [][Next]_vars

-----------------------------------------------------------------------------
(* The variables keep their types; no destination is empty. *)
TypeOK ==
  /\ receiver \in Receivers
  /\ saved \in Storages
  /\ pc \in {"start", "loop", "started"}
  /\ entries \in Seq(Path)
  /\ dsts \in Seq(Path)
  /\ DOMAIN sourcePaths = {dsts[i] : i \in DOMAIN dsts}
  /\ \A d \in DOMAIN sourcePaths : sourcePaths[d] \in Path

(***************************************************************************)
(* What the two properties below do not claim.  The source "." is taken    *)
(* for an entry without a destination and goes to a directory named after  *)
(* the key, where a source of that name may go too.  The objects of other  *)
(* keys may lie below the key: those of a longer key, or sources of a      *)
(* shorter one.  With enable-cache-key-separator no entry of a key of      *)
(* several components matches strictly, as the prefix then gets two        *)
(* separators.  In the legacy service the key may be part of the account's *)
(* name, and any component that equals the key makes an entry match.       *)
(***************************************************************************)
NothingBelowTheKey ==
  \A s \in saved : s.key # Key => ~ IsPrefix(Key, s.key \o s.path)

NoSourceNamedAfterTheKey ==
  [key |-> Key, path |-> <<>>] \in saved => [key |-> Key, path |-> Prefix] \notin saved

AccountIsNoMatch ==
  receiver.account # <<>> =>
    /\ KeyPlaces(receiver.account) = {}
    /\ \A s \in saved : s.key # Key => ~ HasKeyComponent(s.key \o s.path)

Unambiguous ==
  /\ receiver.strict
  /\ receiver.separator => Len(Key) = 1
  /\ NothingBelowTheKey
  /\ NoSourceNamedAfterTheKey
  /\ AccountIsNoMatch

(***************************************************************************)
(* A restore without destinations restores every source saved under the    *)
(* key from its own archive to its own place, whatever else the storage    *)
(* holds and whatever the names of the sources have of the key in them.    *)
(***************************************************************************)
EverySourceComesBack ==
  pc = "started" /\ Unambiguous =>
    \A s \in saved : s.key = Key /\ s.path # <<>> =>
      s.path \in DOMAIN sourcePaths /\ sourcePaths[s.path] = EntryOf(s)

(***************************************************************************)
(* Strict matching restores nothing of a key that only begins with this    *)
(* one, although the listing has it.                                       *)
(***************************************************************************)
NoOtherKeyIsRestored ==
  pc = "started" /\ Unambiguous =>
    \A d \in DOMAIN sourcePaths :
      \E s \in saved : s.key = Key /\ sourcePaths[d] = EntryOf(s)
=============================================================================
