------------------------ MODULE RestoreEntriesProofs ------------------------
(***************************************************************************)
(* Proofs about RestoreEntries, for every configuration and for storages   *)
(* of any finite number of sources, in whatever order they are listed.     *)
(***************************************************************************)
EXTENDS RestoreEntries, SequenceLemmas, FiniteSetTheorems, TLAPS

-----------------------------------------------------------------------------
(* Sequences and what they begin with. *)

LEMMA SeqFacts ==
  ASSUME NEW S, NEW t \in Seq(S)
  PROVE  /\ Len(t) \in Nat /\ (Len(t) # 0 => t # <<>>) /\ (t # <<>> => Len(t) > 0)
         /\ DOMAIN t = 1..Len(t) /\ \A i \in 1..Len(t) : t[i] \in S
OBVIOUS

LEMMA PrefixIs ==
  ASSUME NEW S, NEW s \in Seq(S), NEW t \in Seq(S)
  PROVE  IsPrefix(s, t) <=> Len(s) <= Len(t) /\ \A k \in 1..Len(s) : s[k] = t[k]
<1>1. Len(s) \in Nat /\ Len(t) \in Nat
  OBVIOUS
<1>2. SubSeq(s, 1, Len(s)) = [k \in 1..Len(s) |-> s[k]]
  OBVIOUS
<1>3. ASSUME Len(s) <= Len(t)
      PROVE  SubSeq(t, 1, Len(s)) = [k \in 1..Len(s) |-> t[k]]
  BY <1>1, <1>3
<1>4. CASE Len(s) <= Len(t)
  <2>1. SubSeq(s, 1, Len(s)) = SubSeq(t, 1, Len(s)) <=> \A k \in 1..Len(s) : s[k] = t[k]
    BY <1>2, <1>3, <1>4
  <2>2. QED
    BY <1>4, <2>1 DEF IsPrefix
<1>5. CASE ~ (Len(s) <= Len(t))
  BY <1>5 DEF IsPrefix
<1>6. QED
  BY <1>4, <1>5

(* What is common to the beginning of both is no matter. *)
LEMMA PrefixAfter ==
  ASSUME NEW S, NEW a \in Seq(S), NEW b \in Seq(S), NEW c \in Seq(S)
  PROVE  IsPrefix(a \o b, a \o c) <=> IsPrefix(b, c)
<1>1. /\ a \o b \in Seq(S) /\ a \o c \in Seq(S)
      /\ Len(a \o b) = Len(a) + Len(b) /\ Len(a \o c) = Len(a) + Len(c)
      /\ Len(a) \in Nat /\ Len(b) \in Nat /\ Len(c) \in Nat
      /\ \A k \in 1..Len(a) : (a \o b)[k] = a[k] /\ (a \o c)[k] = a[k]
      /\ \A k \in 1..Len(b) : (a \o b)[Len(a) + k] = b[k]
      /\ \A k \in 1..Len(c) : (a \o c)[Len(a) + k] = c[k]
  BY ConcatParts
<1>2. IsPrefix(b, c) <=> Len(b) <= Len(c) /\ \A k \in 1..Len(b) : b[k] = c[k]
  BY PrefixIs
<1>3. IsPrefix(a \o b, a \o c) <=>
        /\ Len(a \o b) <= Len(a \o c)
        /\ \A k \in 1..Len(a \o b) : (a \o b)[k] = (a \o c)[k]
  <2>1. PICK p \in Seq(S), q \in Seq(S) : p = a \o b /\ q = a \o c
    BY <1>1
  <2>2. IsPrefix(p, q) <=> Len(p) <= Len(q) /\ \A k \in 1..Len(p) : p[k] = q[k]
    BY PrefixIs
  <2>3. QED
    BY <2>1, <2>2
<1>4. ASSUME Len(b) <= Len(c), \A k \in 1..Len(b) : b[k] = c[k],
             NEW k \in 1..(Len(a) + Len(b))
      PROVE  (a \o b)[k] = (a \o c)[k]
  <2>1. CASE k <= Len(a)
    BY <1>1, <2>1
  <2>2. CASE ~ (k <= Len(a))
    <3>1. PICK j \in 1..Len(b) : k = Len(a) + j
      <4>1. k - Len(a) \in 1..Len(b) /\ k = Len(a) + (k - Len(a))
        BY <1>1, <2>2
      <4>2. QED
        BY <4>1
    <3>2. j \in 1..Len(c)
      BY <1>1, <1>4
    <3>3. QED
      BY <1>1, <1>4, <3>1, <3>2
  <2>3. QED
    BY <2>1, <2>2
<1>5. ASSUME Len(b) <= Len(c), \A k \in 1..(Len(a) + Len(b)) : (a \o b)[k] = (a \o c)[k],
             NEW j \in 1..Len(b)
      PROVE  b[j] = c[j]
  <2>1. Len(a) + j \in 1..(Len(a) + Len(b)) /\ j \in 1..Len(c)
    BY <1>1, <1>5
  <2>2. QED
    BY <1>1, <1>5, <2>1
<1>6. Len(a) + Len(b) <= Len(a) + Len(c) <=> Len(b) <= Len(c)
  BY <1>1
<1>7. QED
  BY <1>1, <1>2, <1>3, <1>4, <1>5, <1>6

LEMMA PrefixOfItself ==
  ASSUME NEW S, NEW a \in Seq(S), NEW b \in Seq(S)
  PROVE  /\ IsPrefix(a, a \o b)
         /\ SubSeq(a \o b, Len(a) + 1, Len(a \o b)) = b
<1>1. /\ a \o b \in Seq(S) /\ Len(a \o b) = Len(a) + Len(b)
      /\ Len(a) \in Nat /\ Len(b) \in Nat
      /\ \A k \in 1..Len(a) : (a \o b)[k] = a[k]
      /\ \A k \in 1..Len(b) : (a \o b)[Len(a) + k] = b[k]
  BY ConcatParts
<1>2. IsPrefix(a, a \o b)
  <2>1. PICK p \in Seq(S) : p = a \o b
    BY <1>1
  <2>2. IsPrefix(a, p) <=> Len(a) <= Len(p) /\ \A k \in 1..Len(a) : a[k] = p[k]
    BY PrefixIs
  <2>3. QED
    BY <1>1, <2>1, <2>2
<1>3. SubSeq(a \o b, Len(a) + 1, Len(a \o b)) = [k \in 1..Len(b) |-> (a \o b)[Len(a) + k]]
  BY <1>1
<1>4. b = [k \in 1..Len(b) |-> b[k]]
  OBVIOUS
<1>5. QED
  BY <1>1, <1>2, <1>3, <1>4

-----------------------------------------------------------------------------
(* What the names of a step do not change. *)

LEMMA NamesStay ==
  ASSUME receiver' = receiver
  PROVE  /\ \A s : EntryOf(s)' = EntryOf(s)
         /\ \A e : (Listed(e)' <=> Listed(e)) /\ (Selected(e)' <=> Selected(e))
         /\ \A e : KeyPlaces(e)' = KeyPlaces(e)
         /\ \A e : KeyPlace(e)' = KeyPlace(e)
         /\ \A e : Destination(e)' = Destination(e)
<1>1. Key' = Key /\ Prefix' = Prefix
  BY DEF Key, Prefix
<1>2. \A s : EntryOf(s)' = EntryOf(s)
  BY DEF EntryOf
<1>3. \A e : (Listed(e)' <=> Listed(e)) /\ (Selected(e)' <=> Selected(e))
  BY <1>1 DEF Listed, Selected, KeyWithSuffix, UnderPrefix, HasKeyComponent
<1>4. \A e : KeyPlaces(e)' = KeyPlaces(e)
  BY <1>1 DEF KeyPlaces
<1>5. \A e : KeyPlace(e)' = KeyPlace(e)
  BY <1>4 DEF KeyPlace
<1>6. \A e : Trimmed(e)' = Trimmed(e) /\ (Special(e)' <=> Special(e))
  BY <1>1 DEF Trimmed, Special, ContainsKey
<1>7. \A e : AfterKey(e)' = AfterKey(e)
  BY <1>5, <1>6 DEF AfterKey
<1>8. \A e : Destination(e)' = Destination(e)
  BY <1>4, <1>6, <1>7 DEF Destination
<1>9. QED
  BY <1>2, <1>3, <1>4, <1>5, <1>8

-----------------------------------------------------------------------------
(* The parts of an entry: the account, the key it was saved under, its path. *)

Chosen == receiver \in Receivers /\ saved \in Storages

LEMMA ConcatAssociates ==
  ASSUME NEW S, NEW a \in Seq(S), NEW b \in Seq(S), NEW c \in Seq(S)
  PROVE  (a \o b) \o c = a \o (b \o c)
OBVIOUS

LEMMA ReceiverTypes ==
  ASSUME Chosen
  PROVE  /\ Key \in Seq(Component) /\ Len(Key) \in Nat /\ Len(Key) > 0
         /\ receiver.account \in Seq(Component) /\ Len(receiver.account) \in Nat
         /\ Prefix \in Seq(Component) /\ Len(Prefix) = Len(receiver.account) + Len(Key)
         /\ receiver.separator \in BOOLEAN
<1>1. /\ Key \in Seq(Component) /\ Key # <<>>
      /\ receiver.account \in Seq(Component) /\ receiver.separator \in BOOLEAN
  BY RestoreEntriesAssumption DEF Chosen, Receiver, Path, Key
<1>2. Len(Key) \in Nat /\ Len(Key) > 0
  BY <1>1
<1>3. Prefix \in Seq(Component) /\ Len(Prefix) = Len(receiver.account) + Len(Key)
  BY <1>1, ConcatParts DEF Prefix
<1>4. QED
  BY <1>1, <1>2, <1>3

LEMMA SaveTypes ==
  ASSUME Chosen, NEW s \in saved
  PROVE  /\ s = [key |-> s.key, path |-> s.path]
         /\ s.key \in Seq(Component) /\ s.path \in Seq(Component)
         /\ Len(s.key) \in Nat /\ Len(s.key) > 0
         /\ s.key \o s.path \in Seq(Component)
         /\ EntryOf(s) = receiver.account \o (s.key \o s.path)
         /\ EntryOf(s) \in Path
<1>1. s \in Save
  BY RestoreEntriesAssumption DEF Chosen
<1>2. /\ s = [key |-> s.key, path |-> s.path]
      /\ s.key \in Seq(Component) /\ s.path \in Seq(Component) /\ s.key # <<>>
  BY <1>1 DEF Save, Path
<1>3. Len(s.key) \in Nat /\ Len(s.key) > 0
  BY <1>2
<1>4. receiver.account \in Seq(Component) /\ Len(receiver.account) \in Nat
  BY ReceiverTypes
<1>5. PICK a \in Seq(Component), k \in Seq(Component), p \in Seq(Component) :
        a = receiver.account /\ k = s.key /\ p = s.path
  BY <1>2, <1>4
<1>6. k \o p \in Seq(Component) /\ Len(k \o p) = Len(k) + Len(p) /\ Len(p) \in Nat
  BY ConcatParts
<1>7. (a \o k) \o p = a \o (k \o p)
  BY ConcatAssociates
<1>8. PICK q \in Seq(Component) : q = k \o p
  BY <1>6
<1>9. Len(q) > 0 /\ Len(q) \in Nat
  <2>1. Len(q) = Len(k) + Len(p) /\ Len(k) > 0 /\ Len(k) \in Nat
    BY <1>3, <1>5, <1>6, <1>8
  <2>2. QED
    BY <1>6, <2>1
<1>10. a \o q \in Seq(Component) /\ Len(a \o q) = Len(a) + Len(q) /\ Len(a) \in Nat
  BY ConcatParts
<1>11. a \o q # <<>>
  <2>1. Len(a \o q) # 0
    BY <1>9, <1>10
  <2>2. PICK e \in Seq(Component) : e = a \o q /\ Len(e) # 0
    BY <1>10, <2>1
  <2>3. e # <<>>
    BY <2>2
  <2>4. QED
    BY <2>2, <2>3
<1>12. EntryOf(s) = a \o q /\ q = s.key \o s.path
  BY <1>5, <1>7, <1>8 DEF EntryOf
<1>13. QED
  BY <1>2, <1>3, <1>5, <1>8, <1>10, <1>11, <1>12 DEF Path

(* Where the key is in an entry saved under it. *)
LEMMA OwnParts ==
  ASSUME Chosen, NEW s \in saved, s.key = Key
  PROVE  /\ EntryOf(s) = Prefix \o s.path
         /\ EntryOf(s) \in Seq(Component)
         /\ Len(EntryOf(s)) = Len(Prefix) + Len(s.path) /\ Len(s.path) \in Nat
         /\ IsPrefix(Prefix, EntryOf(s))
         /\ SubSeq(EntryOf(s), Len(Prefix) + 1, Len(EntryOf(s))) = s.path
         /\ \A k \in 1..Len(receiver.account) : EntryOf(s)[k] = receiver.account[k]
         /\ \A k \in 1..Len(Key) : EntryOf(s)[Len(receiver.account) + k] = Key[k]
<1>1. /\ Key \in Seq(Component) /\ receiver.account \in Seq(Component) /\ Prefix \in Seq(Component)
      /\ s.path \in Seq(Component) /\ Len(Key) \in Nat /\ Len(receiver.account) \in Nat
      /\ Len(Prefix) = Len(receiver.account) + Len(Key)
  BY ReceiverTypes, SaveTypes
<1>2. EntryOf(s) = Prefix \o s.path
  BY DEF EntryOf, Prefix
<1>3. /\ Prefix \o s.path \in Seq(Component) /\ Len(s.path) \in Nat
      /\ Len(Prefix \o s.path) = Len(Prefix) + Len(s.path)
      /\ \A k \in 1..Len(Prefix) : (Prefix \o s.path)[k] = Prefix[k]
  <2>1. PICK f \in Seq(Component), p \in Seq(Component) : f = Prefix /\ p = s.path
    BY <1>1
  <2>2. /\ f \o p \in Seq(Component) /\ Len(p) \in Nat
        /\ Len(f \o p) = Len(f) + Len(p)
        /\ \A k \in 1..Len(f) : (f \o p)[k] = f[k]
    BY ConcatParts
  <2>3. QED
    BY <2>1, <2>2
<1>4. /\ \A k \in 1..Len(receiver.account) : Prefix[k] = receiver.account[k]
      /\ \A k \in 1..Len(Key) : Prefix[Len(receiver.account) + k] = Key[k]
  BY <1>1, ConcatParts DEF Prefix
<1>5. /\ IsPrefix(Prefix, Prefix \o s.path)
      /\ SubSeq(Prefix \o s.path, Len(Prefix) + 1, Len(Prefix \o s.path)) = s.path
  BY <1>1, PrefixOfItself
<1>6. /\ \A k \in 1..Len(receiver.account) : k \in 1..Len(Prefix)
      /\ \A k \in 1..Len(Key) : Len(receiver.account) + k \in 1..Len(Prefix)
  BY <1>1
<1>7. QED
  BY <1>2, <1>3, <1>4, <1>5, <1>6

-----------------------------------------------------------------------------
(* What is selected, and where it goes. *)

Candidate(e) == (\E s \in saved : e = EntryOf(s)) /\ Listed(e) /\ Selected(e)

LEMMA ContainsFacts ==
  ASSUME Chosen, NEW c, NEW d \in Component
  PROVE  /\ IsOrContains(d, d) /\ <<d, d>> \notin Begins
         /\ <<c, d>> \in Begins => IsOrContains(c, d)
BY RestoreEntriesAssumption DEF IsOrContains

(* What lies under the prefix has the key after the account. *)
LEMMA UnderPrefixHasKey ==
  ASSUME Chosen, NEW s \in saved, IsPrefix(Prefix, EntryOf(s))
  PROVE  IsPrefix(Key, s.key \o s.path)
<1>1. PICK a \in Seq(Component), k \in Seq(Component), q \in Seq(Component) :
        a = receiver.account /\ k = Key /\ q = s.key \o s.path
  BY ReceiverTypes, SaveTypes
<1>2. Prefix = a \o k /\ EntryOf(s) = a \o q
  BY <1>1, SaveTypes DEF Prefix
<1>3. IsPrefix(a \o k, a \o q) <=> IsPrefix(k, q)
  BY PrefixAfter
<1>4. QED
  BY <1>1, <1>2, <1>3

LEMMA KeyComponentIsWhere ==
  ASSUME Chosen, NEW s \in saved, HasKeyComponent(EntryOf(s)), KeyPlaces(receiver.account) = {}
  PROVE  HasKeyComponent(s.key \o s.path)
<1>1. PICK a \in Seq(Component), q \in Seq(Component) :
        a = receiver.account /\ q = s.key \o s.path /\ EntryOf(s) = a \o q
  BY ReceiverTypes, SaveTypes
<1>2. /\ a \o q \in Seq(Component) /\ Len(a \o q) = Len(a) + Len(q)
      /\ Len(a) \in Nat /\ Len(q) \in Nat
      /\ \A k \in 1..Len(a) : (a \o q)[k] = a[k]
      /\ \A k \in 1..Len(q) : (a \o q)[Len(a) + k] = q[k]
  BY ConcatParts
<1>3. PICK e \in Seq(Component) : e = a \o q
  BY <1>2
<1>4. Len(Key) = 1 /\ \E i \in 1..Len(e) : e[i] = Key[1]
  <2>1. DOMAIN e = 1..Len(e) /\ EntryOf(s) = e
    BY <1>1, <1>3
  <2>2. QED
    BY <2>1 DEF HasKeyComponent
<1>5. PICK i \in 1..Len(e) : e[i] = Key[1]
  BY <1>4
<1>6. CASE i <= Len(a)
  <2>1. i \in 1..Len(a) /\ a[i] = Key[1]
    BY <1>2, <1>3, <1>5, <1>6
  <2>2. i \in DOMAIN receiver.account /\ IsOrContains(receiver.account[i], Key[1])
    BY <1>1, <2>1 DEF IsOrContains
  <2>3. i \in KeyPlaces(receiver.account)
    BY <1>4, <2>2 DEF KeyPlaces
  <2>4. QED
    BY <2>3
<1>7. CASE ~ (i <= Len(a))
  <2>1. PICK k \in 1..Len(q) : i = Len(a) + k
    <3>1. i - Len(a) \in 1..Len(q) /\ i = Len(a) + (i - Len(a))
      BY <1>2, <1>3, <1>5, <1>7
    <3>2. QED
      BY <3>1
  <2>2. q[k] = Key[1] /\ k \in DOMAIN q
    BY <1>2, <1>3, <1>5, <2>1
  <2>3. QED
    BY <1>1, <1>4, <2>2 DEF HasKeyComponent
<1>8. QED
  BY <1>6, <1>7

LEMMA OnlyOwnEntries ==
  ASSUME Chosen, Unambiguous, NEW s \in saved, Candidate(EntryOf(s))
  PROVE  s.key = Key
<1> SUFFICES ASSUME s.key # Key PROVE FALSE
  OBVIOUS
<1> DEFINE e == EntryOf(s)
<1>1. ~ IsPrefix(Key, s.key \o s.path)
  BY DEF Unambiguous, NothingBelowTheKey
<1>2. ~ IsPrefix(Prefix, e)
  BY <1>1, UnderPrefixHasKey
<1>3. ~ KeyWithSuffix(e) /\ (UnderPrefix(e) \/ HasKeyComponent(e))
  BY DEF Candidate, Selected, Unambiguous
<1>4. e \in Seq(Component) /\ e # <<>> /\ e = receiver.account \o (s.key \o s.path)
  BY SaveTypes DEF Path
<1>5. HasKeyComponent(e)
  <2>1. e = Prefix => IsPrefix(Prefix, e)
    <3>1. IsPrefix(e, e) <=> Len(e) <= Len(e) /\ \A k \in 1..Len(e) : e[k] = e[k]
      BY <1>4, PrefixIs
    <3>2. Len(e) <= Len(e)
      BY <1>4
    <3>3. QED
      BY <3>1, <3>2
  <2>2. QED
    BY <1>2, <1>3, <2>1 DEF UnderPrefix, Below
<1>6. Len(Key) = 1
  BY <1>5 DEF HasKeyComponent
<1>7. CASE receiver.account # <<>>
  <2>1. KeyPlaces(receiver.account) = {} /\ ~ HasKeyComponent(s.key \o s.path)
    BY <1>7 DEF Unambiguous, AccountIsNoMatch
  <2>2. QED
    BY <1>5, <2>1, KeyComponentIsWhere
<1>8. CASE receiver.account = <<>>
  <2>1. Prefix = Key
    BY <1>8, ReceiverTypes DEF Prefix
  <2>2. IsOrBegins(e[1], Key[1])
    <3>1. IsOrBegins(e[Len(Prefix)], Last(Prefix))
      BY <1>2 DEF Candidate, Listed, Below
    <3>2. QED
      BY <1>6, <2>1, <3>1 DEF Last
  <2>3. e[1] = Key[1]
    BY <1>3, <1>6, <2>2 DEF IsOrBegins, KeyWithSuffix
  <2>4. IsPrefix(Key, e)
    <3>1. IsPrefix(Key, e) <=> Len(Key) <= Len(e) /\ \A k \in 1..Len(Key) : Key[k] = e[k]
      BY <1>4, ReceiverTypes, PrefixIs
    <3>2. Len(e) >= 1
      <4>1. e \in Seq(Component) /\ e # <<>>
        BY <1>4
      <4> HIDE DEF e
      <4>2. QED
        BY <4>1
    <3>3. QED
      BY <1>6, <2>3, <3>1, <3>2
  <2>5. QED
    BY <1>2, <2>1, <2>4
<1>9. QED
  BY <1>7, <1>8

(* The first component with the key in it is the key itself. *)
LEMMA OwnKeyPlace ==
  ASSUME Chosen, NEW s \in saved, s.key = Key, KeyPlaces(receiver.account) = {}, Len(Key) = 1
  PROVE  /\ KeyPlaces(EntryOf(s)) # {} /\ KeyPlace(EntryOf(s)) = Len(Prefix)
         /\ EntryOf(s)[Len(Prefix)] = Key[1]
<1>1. PICK e \in Seq(Component), n \in Nat :
        e = EntryOf(s) /\ n = Len(receiver.account)
  BY OwnParts, ReceiverTypes
<1>2. /\ Len(Prefix) = n + 1 /\ Len(e) \in Nat /\ n + 1 <= Len(e)
      /\ \A k \in 1..n : e[k] = receiver.account[k]
      /\ e[n + 1] = Key[1] /\ Key[1] \in Component
      /\ DOMAIN e = 1..Len(e) /\ DOMAIN receiver.account = 1..n
  <2>1. Len(Prefix) = n + 1 /\ Key[1] \in Component /\ DOMAIN receiver.account = 1..n
    <3>1. /\ Key \in Seq(Component) /\ receiver.account \in Seq(Component)
          /\ Len(Prefix) = Len(receiver.account) + Len(Key)
      BY ReceiverTypes
    <3>2. PICK k \in Seq(Component), a \in Seq(Component) : k = Key /\ a = receiver.account
      BY <3>1
    <3>3. Len(k) = 1 /\ Len(a) = n
      BY <1>1, <3>2
    <3>4. k[1] \in Component /\ DOMAIN a = 1..n
      <4>1. (\A i \in 1..Len(k) : k[i] \in Component) /\ DOMAIN a = 1..Len(a)
        BY SeqFacts
      <4>2. \A i \in 1..1 : k[i] \in Component
        BY <3>3, <4>1
      <4>3. QED
        BY <3>3, <4>1, <4>2
    <3>5. QED
      BY <1>1, <3>1, <3>2, <3>4
  <2>2. /\ Len(e) = Len(Prefix) + Len(s.path) /\ Len(s.path) \in Nat
        /\ \A k \in 1..Len(receiver.account) : e[k] = receiver.account[k]
        /\ \A k \in 1..Len(Key) : e[Len(receiver.account) + k] = Key[k]
    BY <1>1, OwnParts
  <2>3. e[n + 1] = Key[1]
    <3>1. \A k \in 1..1 : e[n + k] = Key[k]
      BY <1>1, <2>2
    <3>2. QED
      BY <3>1
  <2>4. Len(e) \in Nat /\ n + 1 <= Len(e) /\ DOMAIN e = 1..Len(e)
    <3>1. Len(e) = n + 1 + Len(s.path)
      BY <2>1, <2>2
    <3>2. n + 1 <= Len(e)
      BY <2>2, <3>1
    <3>3. Len(e) \in Nat /\ DOMAIN e = 1..Len(e)
      BY SeqFacts
    <3>4. QED
      BY <3>2, <3>3
  <2>5. QED
    BY <1>1, <2>1, <2>2, <2>3, <2>4
<1>3. IsOrContains(Key[1], Key[1])
  BY DEF IsOrContains
<1>4. n + 1 \in KeyPlaces(e)
  BY <1>2, <1>3 DEF KeyPlaces
<1>5. \A k \in 1..n : k \notin KeyPlaces(e)
  BY <1>2 DEF KeyPlaces
<1>6. \A j \in KeyPlaces(e) : j \in Nat /\ n + 1 <= j
  <2>1. \A j \in KeyPlaces(e) : j \in 1..Len(e)
    BY <1>2 DEF KeyPlaces
  <2>2. QED
    BY <1>2, <1>5, <2>1
<1>7. \A i \in KeyPlaces(e) : (\A j \in KeyPlaces(e) : i <= j) <=> i = n + 1
  BY <1>4, <1>6
<1>8. KeyPlace(e) = n + 1
  BY <1>4, <1>7 DEF KeyPlace
<1>9. QED
  BY <1>1, <1>2, <1>4, <1>8

LEMMA OwnDestination ==
  ASSUME Chosen, Unambiguous, NEW s \in saved, s.key = Key
  PROVE  /\ s.path # <<>> => Destination(EntryOf(s)) = s.path /\ Candidate(EntryOf(s))
         /\ s.path = <<>> => Destination(EntryOf(s)) = Prefix
<1>1. PICK e \in Seq(Component), p \in Seq(Component), f \in Seq(Component) :
        /\ e = EntryOf(s) /\ p = s.path /\ f = Prefix
        /\ e = f \o p /\ IsPrefix(f, e)
        /\ SubSeq(e, Len(f) + 1, Len(e)) = p
        /\ Len(e) = Len(f) + Len(p)
  BY OwnParts, SaveTypes, ReceiverTypes
<1>2. Len(e) \in Nat /\ Len(f) \in Nat /\ Len(p) \in Nat
  OBVIOUS
<1>3. KeyPlaces(receiver.account) = {}
  <2>1. CASE receiver.account = <<>>
    BY <2>1 DEF KeyPlaces
  <2>2. CASE receiver.account # <<>>
    BY <2>2 DEF Unambiguous, AccountIsNoMatch
  <2>3. QED
    BY <2>1, <2>2
<1>4. KeyPlaces(e) # {} => Len(Key) = 1
  BY DEF KeyPlaces
<1>5. Len(Key) = 1 => KeyPlaces(e) # {} /\ KeyPlace(e) = Len(f) /\ e[Len(f)] = Key[1]
  BY <1>1, <1>3, OwnKeyPlace
<1>6. receiver.strict
  BY DEF Unambiguous
<1>7. ASSUME p # <<>> PROVE Destination(e) = p /\ Candidate(e)
  <2>1. Len(p) > 0
    BY <1>7
  <2>2. Below(e, Prefix)
    BY <1>1, <1>2, <2>1 DEF Below
  <2>3. Trimmed(e) = p
    BY <1>1, <2>2 DEF Trimmed
  <2>4. Len(Key) = 1 => AfterKey(e) = p
    <3>1. Len(f) < Len(e)
      BY <1>1, <1>2, <2>1
    <3>2. ASSUME Len(Key) = 1 PROVE AfterKey(e) = p
      <4>1. KeyPlace(e) = Len(f)
        BY <1>5, <3>2
      <4>2. KeyPlace(e) < Len(e)
        BY <3>1, <4>1
      <4>3. KeyPlace(e) # Len(e)
        BY <1>2, <4>1, <4>2
      <4>4. AfterKey(e) = SubSeq(e, KeyPlace(e) + 1, Len(e))
        BY <4>2, <4>3 DEF AfterKey
      <4>5. QED
        BY <1>1, <4>1, <4>4
    <3>3. QED
      BY <3>2
  <2>5. Destination(e) = p
    BY <1>4, <2>3, <2>4 DEF Destination
  <2>6. Listed(e)
    BY <2>2 DEF Listed
  <2>7. ~ KeyWithSuffix(e)
    <3>1. SUFFICES ASSUME Len(Key) = 1, <<e[1], Key[1]>> \in Begins PROVE FALSE
      BY DEF KeyWithSuffix
    <3>2. Key[1] \in Component /\ Len(Prefix) = Len(receiver.account) + 1
      <4>1. Key \in Seq(Component) /\ Len(Prefix) = Len(receiver.account) + Len(Key)
        BY ReceiverTypes
      <4>2. PICK k \in Seq(Component) : k = Key
        BY <4>1
      <4>3. \A i \in 1..1 : k[i] \in Component
        BY <3>1, <4>2, SeqFacts
      <4>4. QED
        BY <3>1, <4>1, <4>2, <4>3
    <3>3. IsOrContains(e[1], Key[1]) /\ <<Key[1], Key[1]>> \notin Begins
      BY <3>1, <3>2, ContainsFacts
    <3>4. CASE receiver.account = <<>>
      <4>1. Len(f) = 1
        BY <1>1, <3>2, <3>4
      <4>2. QED
        BY <1>5, <3>1, <3>3, <4>1
    <3>5. CASE receiver.account # <<>>
      <4>1. 1 \in 1..Len(receiver.account) /\ 1 \in DOMAIN receiver.account
        BY <3>5, ReceiverTypes
      <4>2. e[1] = receiver.account[1]
        <5>1. \A k \in 1..Len(receiver.account) : EntryOf(s)[k] = receiver.account[k]
          BY OwnParts
        <5>2. EntryOf(s)[1] = receiver.account[1]
          BY <4>1, <5>1
        <5>3. e = EntryOf(s)
          BY <1>1
        <5>4. QED
          BY <5>2, <5>3
      <4>3. 1 \in KeyPlaces(receiver.account)
        BY <3>1, <3>3, <4>1, <4>2 DEF KeyPlaces
      <4>4. QED
        BY <1>3, <4>3
    <3>6. QED
      BY <3>4, <3>5
  <2>8. UnderPrefix(e) \/ HasKeyComponent(e)
    <3>1. CASE receiver.separator
      <4>1. Len(Key) = 1
        BY <3>1 DEF Unambiguous
      <4>2. e[Len(f)] = Key[1]
        BY <1>5, <4>1
      <4>3. Len(f) \in 1..Len(e) /\ DOMAIN e = 1..Len(e)
        BY <1>1, <1>2, ReceiverTypes
      <4>4. QED
        BY <4>1, <4>2, <4>3 DEF HasKeyComponent
    <3>2. CASE ~ receiver.separator
      BY <2>2, <3>2 DEF UnderPrefix
    <3>3. QED
      BY <3>1, <3>2
  <2>9. QED
    BY <1>1, <2>5, <2>6, <2>7, <2>8 DEF Candidate, Selected
<1>8. ASSUME p = <<>> PROVE Destination(e) = f
  <2>1. Len(p) = 0
    BY <1>8
  <2>2. Len(e) = Len(f)
    BY <1>1, <1>2, <2>1
  <2>3. ~ Below(e, Prefix)
    BY <1>1, <1>2, <2>2 DEF Below
  <2>4. Trimmed(e) = e
    BY <2>3 DEF Trimmed
  <2>5. e = f
    <3>1. f \o <<>> = f
      OBVIOUS
    <3>2. QED
      BY <1>1, <1>8, <3>1
  <2>6. Len(Key) = 1 => AfterKey(e) = e
    BY <1>2, <1>5, <1>6, <2>2, <2>4 DEF AfterKey
  <2>7. QED
    BY <1>4, <2>4, <2>5, <2>6 DEF Destination
<1>9. QED
  BY <1>1, <1>7, <1>8

(* No destination is empty. *)
LEMMA DestinationType ==
  ASSUME Chosen, NEW e \in Path
  PROVE  Destination(e) \in Path
<1>1. e \in Seq(Component) /\ e # <<>>
  BY DEF Path
<1>2. Len(e) \in Nat /\ Len(e) > 0 /\ DOMAIN e = 1..Len(e) /\ \A i \in 1..Len(e) : e[i] \in Component
  BY <1>1
<1>3. \A i \in 1..Len(e) : SubSeq(e, i, Len(e)) \in Path
  <2>1. ASSUME NEW i \in 1..Len(e) PROVE SubSeq(e, i, Len(e)) \in Path
    <3>1. SubSeq(e, i, Len(e)) \in Seq(Component) /\ Len(SubSeq(e, i, Len(e))) = Len(e) - i + 1
      BY <1>1, <1>2
    <3>2. Len(SubSeq(e, i, Len(e))) > 0
      BY <1>2, <3>1
    <3>3. SubSeq(e, i, Len(e)) # <<>>
      <4>1. PICK t \in Seq(Component) : t = SubSeq(e, i, Len(e)) /\ Len(t) > 0
        BY <3>1, <3>2
      <4>2. Len(t) # 0
        BY <4>1
      <4>3. t # <<>>
        BY <4>2, SeqFacts
      <4>4. QED
        BY <4>1, <4>3
    <3>4. QED
      BY <3>1, <3>3 DEF Path
  <2>2. QED
    BY <2>1
<1>4. Trimmed(e) \in Path
  <2>1. CASE Below(e, Prefix)
    <3>1. Len(Prefix) \in Nat /\ Len(Prefix) < Len(e)
      BY <2>1, ReceiverTypes DEF Below
    <3>2. Len(Prefix) + 1 \in 1..Len(e)
      BY <1>2, <3>1
    <3>3. QED
      BY <1>3, <2>1, <3>2 DEF Trimmed
  <2>2. CASE ~ Below(e, Prefix)
    BY <2>2 DEF Trimmed
  <2>3. QED
    BY <2>1, <2>2
<1>5. ASSUME KeyPlaces(e) # {} PROVE AfterKey(e) \in Path
  <2>1. KeyPlace(e) \in 1..Len(e)
    <3>1. KeyPlaces(e) \in SUBSET Nat /\ KeyPlaces(e) \subseteq 1..Len(e)
      BY <1>2 DEF KeyPlaces
    <3>2. \E i \in KeyPlaces(e) : \A j \in KeyPlaces(e) : i <= j
      BY <1>5, <3>1, LeastElement
    <3>3. KeyPlace(e) \in KeyPlaces(e)
      BY <3>2 DEF KeyPlace
    <3>4. QED
      BY <3>1, <3>3
  <2>2. KeyPlace(e) < Len(e) => SubSeq(e, KeyPlace(e) + 1, Len(e)) \in Path
    <3>1. KeyPlace(e) < Len(e) => KeyPlace(e) + 1 \in 1..Len(e)
      BY <1>2, <2>1
    <3>2. QED
      BY <1>3, <3>1
  <2>3. <<Last(e)>> \in Path
    <3>1. Last(e) \in Component
      BY <1>2 DEF Last
    <3>2. QED
      BY <3>1 DEF Path
  <2>4. QED
    BY <1>4, <2>2, <2>3 DEF AfterKey
<1>6. QED
  BY <1>4, <1>5 DEF Destination
-----------------------------------------------------------------------------
(***************************************************************************)
(* The inductive invariant.  What the loop has still to reach was listed;  *)
(* each destination has an entry of its own that was listed and selected;  *)
(* and none that the listing had and strictness lets pass is lost: it is   *)
(* still to come, or its destination has been taken.                       *)
(***************************************************************************)
EntriesInv ==
  \A i \in DOMAIN entries : (\E s \in saved : entries[i] = EntryOf(s)) /\ Listed(entries[i])

PlacesInv ==
  \A d \in DOMAIN sourcePaths : Candidate(sourcePaths[d]) /\ Destination(sourcePaths[d]) = d

Reached(e) ==
  (\E i \in DOMAIN entries : entries[i] = e) \/ Destination(e) \in DOMAIN sourcePaths

NoneLost == pc # "start" => \A s \in saved : Candidate(EntryOf(s)) => Reached(EntryOf(s))

AllTaken == pc = "started" => entries = <<>>

LoopInv == TypeOK /\ EntriesInv /\ PlacesInv /\ NoneLost /\ AllTaken

-----------------------------------------------------------------------------
(* The listing of a finite set: each of its elements, and nothing else. *)

LEMMA ListingParts ==
  ASSUME NEW S, IsFiniteSet(S), NEW f \in SetToSeqs(S)
  PROVE  /\ f \in Seq(S)
         /\ \A x \in S : \E i \in DOMAIN f : f[i] = x
<1>1. PICK n \in Nat : n = Cardinality(S)
  BY FS_CardinalityType
<1>2. f \in [1..n -> S] /\ \A i, j \in 1..n : i # j => f[i] # f[j]
  BY <1>1 DEF SetToSeqs
<1>3. f \in Injection(1..n, S)
  BY <1>2 DEF Injection, IsInjective
<1>4. IsFiniteSet(1..n) /\ Cardinality(1..n) = n
  BY FS_Interval
<1>5. f \in Surjection(1..n, S)
  <2>1. Cardinality(1..n) = Cardinality(S) <=> f \in Surjection(1..n, S)
    BY <1>3, FS_Injection
  <2>2. QED
    BY <1>1, <1>4, <2>1
<1>6. \A x \in S : \E i \in 1..n : f[i] = x
  BY <1>5 DEF Surjection
<1>7. f \in Seq(S) /\ DOMAIN f = 1..n
  BY <1>2, FunctionIsSeq
<1>8. QED
  BY <1>6, <1>7

(* What is listed of a storage, with what names a step does not change. *)
ListedOf == {e \in {EntryOf(s) : s \in saved} : Listed(e)}

LEMMA ListedIsFinite ==
  ASSUME Chosen
  PROVE  IsFiniteSet(ListedOf) /\ ListedOf \subseteq Path
<1> DEFINE E == {EntryOf(s) : s \in saved}
           f == [s \in saved |-> EntryOf(s)]
<1>1. IsFiniteSet(saved)
  BY RestoreEntriesAssumption DEF Chosen
<1>2. f \in Surjection(saved, E)
  <2>1. f \in [saved -> E]
    OBVIOUS
  <2>2. \A t \in E : \E s \in saved : f[s] = t
    OBVIOUS
  <2>3. QED
    BY <2>1, <2>2 DEF Surjection
<1>3. IsFiniteSet(E)
  <2> HIDE DEF E, f
  <2>1. QED
    BY <1>1, <1>2, FS_Surjection
<1>4. ListedOf \in SUBSET E
  BY DEF ListedOf
<1>5. IsFiniteSet(ListedOf)
  <2> HIDE DEF E
  <2>1. QED
    BY <1>3, <1>4, FS_Subset
<1>6. \A e \in E : e \in Path
  BY SaveTypes
<1>7. QED
  BY <1>4, <1>5, <1>6

-----------------------------------------------------------------------------
(* The steps. *)

LEMMA InitLoopInv ==
  ASSUME Init
  PROVE  LoopInv
<1>1. /\ receiver \in Receivers /\ saved \in Storages /\ pc = "start"
      /\ entries = <<>> /\ dsts = <<>> /\ sourcePaths = <<>>
  BY DEF Init
<1>2. <<>> \in Seq(Path) /\ DOMAIN <<>> = {}
  OBVIOUS
<1>3. TypeOK
  <2>1. DOMAIN sourcePaths = {dsts[i] : i \in DOMAIN dsts}
    <3>1. DOMAIN sourcePaths = {} /\ DOMAIN dsts = {}
      BY <1>1, <1>2
    <3>2. QED
      BY <3>1
  <2>2. \A d \in DOMAIN sourcePaths : sourcePaths[d] \in Path
    BY <1>1, <1>2
  <2>3. QED
    BY <1>1, <1>2, <2>1, <2>2 DEF TypeOK
<1>4. EntriesInv
  BY <1>1, <1>2 DEF EntriesInv
<1>5. PlacesInv
  BY <1>1, <1>2 DEF PlacesInv
<1>6. NoneLost /\ AllTaken
  BY <1>1 DEF NoneLost, AllTaken
<1>7. QED
  BY <1>3, <1>4, <1>5, <1>6 DEF LoopInv

(* The places a step leaves alone, under names it does not change. *)
LEMMA PlacesStay ==
  ASSUME receiver' = receiver, saved' = saved
  PROVE  /\ \A e : Candidate(e)' <=> Candidate(e)
         /\ sourcePaths' = sourcePaths /\ PlacesInv => PlacesInv'
<1>1. \A e : Candidate(e)' <=> Candidate(e)
  BY NamesStay DEF Candidate
<1>2. ASSUME sourcePaths' = sourcePaths, PlacesInv PROVE PlacesInv'
  <2>1. \A d \in DOMAIN sourcePaths : Candidate(sourcePaths[d])' /\ Destination(sourcePaths[d])' = d
    BY <1>1, <1>2, NamesStay DEF PlacesInv
  <2>2. QED
    BY <1>2, <2>1 DEF PlacesInv
<1>3. QED
  BY <1>1, <1>2
LEMMA ListStep ==
  ASSUME LoopInv, List
  PROVE  LoopInv'
<1>1. /\ Chosen /\ TypeOK /\ PlacesInv
      /\ receiver' = receiver /\ saved' = saved /\ dsts' = dsts /\ sourcePaths' = sourcePaths
      /\ entries' \in SetToSeqs(ListedOf) /\ pc' = "loop"
  BY DEF LoopInv, TypeOK, Chosen, List, ListedOf
<1>2. /\ entries' \in Seq(ListedOf)
      /\ \A x \in ListedOf : \E i \in DOMAIN entries' : entries'[i] = x
  BY <1>1, ListedIsFinite, ListingParts
<1>3. PICK g \in Seq(ListedOf) : g = entries'
  BY <1>2
<1>4. g \in Seq(Path) /\ DOMAIN g = 1..Len(g) /\ \A i \in 1..Len(g) : g[i] \in ListedOf
  <2>1. DOMAIN g = 1..Len(g) /\ \A i \in 1..Len(g) : g[i] \in ListedOf
    BY SeqFacts
  <2>2. ListedOf \subseteq Path
    BY <1>1, ListedIsFinite
  <2>3. g \in Seq(Path)
    BY <2>2
  <2>4. QED
    BY <2>1, <2>3
<1>5. TypeOK'
  BY <1>1, <1>3, <1>4 DEF TypeOK
<1>6. EntriesInv'
  <2>1. \A i \in DOMAIN g : (\E s \in saved : g[i] = EntryOf(s)) /\ Listed(g[i])
    BY <1>4 DEF ListedOf
  <2>2. \A i \in DOMAIN g : (\E s \in saved : g[i] = EntryOf(s)') /\ Listed(g[i])'
    BY <1>1, <2>1, NamesStay
  <2>3. QED
    BY <1>1, <1>3, <2>2 DEF EntriesInv
<1>7. PlacesInv'
  BY <1>1, PlacesStay
<1>8. NoneLost'
  <2>1. ASSUME NEW s \in saved, Candidate(EntryOf(s))
        PROVE  \E i \in DOMAIN g : g[i] = EntryOf(s)
    BY <1>2, <1>3, <2>1 DEF Candidate, ListedOf
  <2>2. \A s \in saved : EntryOf(s)' = EntryOf(s) /\ (Candidate(EntryOf(s))' <=> Candidate(EntryOf(s)))
    BY <1>1, NamesStay, PlacesStay
  <2>3. \A s \in saved : Candidate(EntryOf(s))' => Reached(EntryOf(s))'
    BY <1>3, <2>1, <2>2 DEF Reached
  <2>4. QED
    BY <1>1, <2>3 DEF NoneLost
<1>9. AllTaken'
  BY <1>1 DEF AllTaken
<1>10. QED
  BY <1>5, <1>6, <1>7, <1>8, <1>9 DEF LoopInv

LEMMA TakeEntryStep ==
  ASSUME LoopInv, TakeEntry
  PROVE  LoopInv'
<1>1. /\ Chosen /\ TypeOK /\ EntriesInv /\ PlacesInv /\ NoneLost
      /\ pc = "loop" /\ entries # <<>> /\ entries' = Tail(entries)
      /\ receiver' = receiver /\ saved' = saved /\ pc' = pc
  BY DEF LoopInv, TypeOK, Chosen, TakeEntry
<1>2. PICK q \in Seq(Path) : q = entries
  BY <1>1 DEF TypeOK
<1>3. PICK e \in Path, r \in Seq(Path) : e = Head(q) /\ r = Tail(q)
  BY <1>1, <1>2, TailParts
<1>4. /\ q[1] = e /\ 1 \in 1..Len(q) /\ Len(q) \in Nat /\ Len(r) = Len(q) - 1
      /\ \A k \in 1..(Len(q) - 1) : k + 1 \in 1..Len(q) /\ r[k] = q[k + 1]
      /\ DOMAIN q = 1..Len(q) /\ DOMAIN r = 1..Len(r)
  BY <1>1, <1>2, <1>3, TailParts, SeqFacts
<1>5. /\ \A i \in DOMAIN r : \E j \in DOMAIN q : r[i] = q[j]
      /\ \A j \in DOMAIN q : q[j] = e \/ \E i \in DOMAIN r : r[i] = q[j]
  <2>1. \A i \in DOMAIN r : \E j \in DOMAIN q : r[i] = q[j]
    BY <1>4
  <2>2. ASSUME NEW j \in DOMAIN q, j # 1 PROVE \E i \in DOMAIN r : r[i] = q[j]
    <3>1. j - 1 \in 1..(Len(q) - 1) /\ (j - 1) + 1 = j
      BY <1>4, <2>2
    <3>2. QED
      BY <1>4, <3>1
  <2>3. QED
    BY <1>4, <2>1, <2>2
<1>6. (\E s \in saved : e = EntryOf(s)) /\ Listed(e)
  BY <1>1, <1>2, <1>4 DEF EntriesInv
<1>7. Destination(e) \in Path
  BY <1>1, DestinationType
<1>8. PICK D \in Path : D = Destination(e)
  BY <1>7
<1>9. EntriesInv'
  <2>1. \A i \in DOMAIN r : (\E s \in saved : r[i] = EntryOf(s)) /\ Listed(r[i])
    BY <1>1, <1>2, <1>5 DEF EntriesInv
  <2>2. \A i \in DOMAIN r : (\E s \in saved : r[i] = EntryOf(s)') /\ Listed(r[i])'
    BY <1>1, <2>1, NamesStay
  <2>3. QED
    BY <1>1, <1>2, <1>3, <2>2 DEF EntriesInv
<1>10. AllTaken'
  BY <1>1 DEF AllTaken
<1>11. /\ Selected(e) =>
            /\ dsts' = Append(dsts, D)
            /\ sourcePaths' = [d \in DOMAIN sourcePaths \cup {D} |->
                                 IF d = D THEN e ELSE sourcePaths[d]]
       /\ ~ Selected(e) => dsts' = dsts /\ sourcePaths' = sourcePaths
  BY <1>2, <1>3, <1>8 DEF TakeEntry
<1>12. TypeOK' /\ PlacesInv'
  <2>1. CASE Selected(e)
    <3>1. PICK t \in Seq(Path) : t = dsts
      BY <1>1 DEF TypeOK
    <3>2. /\ Append(t, D) \in Seq(Path) /\ Len(t) \in Nat /\ Len(Append(t, D)) = Len(t) + 1
          /\ \A k \in 1..Len(t) : Append(t, D)[k] = t[k]
          /\ Append(t, D)[Len(t) + 1] = D
      BY AppendParts
    <3>3. PICK u \in Seq(Path) : u = Append(t, D)
      BY <3>2
    <3>4. DOMAIN t = 1..Len(t) /\ DOMAIN u = 1..Len(u) /\ Len(u) = Len(t) + 1
      BY <3>2, <3>3, SeqFacts
    <3>5. {u[i] : i \in DOMAIN u} = {t[i] : i \in DOMAIN t} \cup {D}
      <4>1. \A i \in DOMAIN u : i \in DOMAIN t \/ i = Len(t) + 1
        BY <3>2, <3>4
      <4>2. \A i \in DOMAIN t : i \in DOMAIN u /\ u[i] = t[i]
        BY <3>2, <3>3, <3>4
      <4>3. Len(t) + 1 \in DOMAIN u /\ u[Len(t) + 1] = D
        BY <3>2, <3>3, <3>4
      <4>4. QED
        BY <4>1, <4>2, <4>3
    <3>6. dsts' = u /\ sourcePaths' = [d \in DOMAIN sourcePaths \cup {D} |->
                                         IF d = D THEN e ELSE sourcePaths[d]]
      BY <1>11, <2>1, <3>1, <3>3
    <3>7. /\ DOMAIN sourcePaths' = DOMAIN sourcePaths \cup {D}
          /\ sourcePaths'[D] = e
          /\ \A d \in DOMAIN sourcePaths : d # D => sourcePaths'[d] = sourcePaths[d]
      BY <3>6
    <3>8. DOMAIN sourcePaths' = {dsts'[i] : i \in DOMAIN dsts'}
      <4>1. DOMAIN sourcePaths = {dsts[i] : i \in DOMAIN dsts}
        BY <1>1 DEF TypeOK
      <4>2. DOMAIN sourcePaths = {t[i] : i \in DOMAIN t}
        BY <3>1, <4>1
      <4>3. DOMAIN sourcePaths' = {u[i] : i \in DOMAIN u}
        BY <3>5, <3>7, <4>2
      <4>4. dsts' = u
        BY <3>6
      <4>5. QED
        BY <4>3, <4>4
    <3>9. \A d \in DOMAIN sourcePaths' : sourcePaths'[d] \in Path
      BY <1>1, <3>7 DEF TypeOK
    <3>10. TypeOK'
      BY <1>1, <1>2, <1>3, <3>6, <3>8, <3>9 DEF TypeOK
    <3>11. Candidate(e)
      BY <1>6, <2>1 DEF Candidate
    <3>12. \A d \in DOMAIN sourcePaths' :
             Candidate(sourcePaths'[d]) /\ Destination(sourcePaths'[d]) = d
      BY <1>1, <1>8, <3>7, <3>11 DEF PlacesInv
    <3>13. PICK f : f = sourcePaths'
      OBVIOUS
    <3>14. \A d \in DOMAIN f : Candidate(f[d])' /\ Destination(f[d])' = d
      BY <1>1, <3>12, <3>13, NamesStay, PlacesStay
    <3>15. PlacesInv'
      BY <3>13, <3>14 DEF PlacesInv
    <3>16. QED
      BY <3>10, <3>15
  <2>2. CASE ~ Selected(e)
    <3>1. dsts' = dsts /\ sourcePaths' = sourcePaths
      BY <1>11, <2>2
    <3>2. PlacesInv'
      BY <1>1, <3>1, PlacesStay
    <3>3. TypeOK'
      BY <1>1, <1>2, <1>3, <3>1 DEF TypeOK
    <3>4. QED
      BY <3>2, <3>3
  <2>3. QED
    BY <2>1, <2>2
<1>13. NoneLost'
  <2>1. DOMAIN sourcePaths \subseteq DOMAIN sourcePaths'
        /\ (Selected(e) => D \in DOMAIN sourcePaths')
    BY <1>11
  <2>2. ASSUME NEW s \in saved, Candidate(EntryOf(s))
        PROVE  \/ \E i \in DOMAIN r : r[i] = EntryOf(s)
               \/ Destination(EntryOf(s)) \in DOMAIN sourcePaths'
    <3>1. CASE Destination(EntryOf(s)) \in DOMAIN sourcePaths
      BY <2>1, <3>1
    <3>2. CASE \E j \in DOMAIN q : q[j] = EntryOf(s)
      <4>1. CASE EntryOf(s) = e
        BY <1>8, <2>1, <2>2, <4>1 DEF Candidate
      <4>2. CASE EntryOf(s) # e
        BY <1>5, <3>2, <4>2
      <4>3. QED
        BY <4>1, <4>2
    <3>3. Reached(EntryOf(s))
      BY <1>1, <2>2 DEF NoneLost
    <3>4. QED
      BY <1>2, <3>1, <3>2, <3>3 DEF Reached
  <2>3. \A s \in saved : /\ EntryOf(s)' = EntryOf(s)
                         /\ Candidate(EntryOf(s))' <=> Candidate(EntryOf(s))
                         /\ Destination(EntryOf(s))' = Destination(EntryOf(s))
    BY <1>1, NamesStay, PlacesStay
  <2>4. \A s \in saved : Candidate(EntryOf(s))' => Reached(EntryOf(s))'
    BY <1>1, <1>2, <1>3, <2>2, <2>3 DEF Reached
  <2>5. QED
    BY <1>1, <2>4 DEF NoneLost
<1>14. QED
  BY <1>9, <1>10, <1>12, <1>13 DEF LoopInv

LEMMA LoopEndsStep ==
  ASSUME LoopInv, LoopEnds
  PROVE  LoopInv'
<1>1. /\ TypeOK /\ EntriesInv /\ PlacesInv /\ NoneLost
      /\ pc = "loop" /\ entries = <<>> /\ pc' = "started"
      /\ receiver' = receiver /\ saved' = saved /\ entries' = entries
      /\ dsts' = dsts /\ sourcePaths' = sourcePaths
  BY DEF LoopInv, LoopEnds
<1>2. TypeOK'
  BY <1>1 DEF TypeOK
<1>3. EntriesInv'
  BY <1>1 DEF EntriesInv
<1>4. PlacesInv'
  BY <1>1, PlacesStay
<1>5. NoneLost'
  <2>1. \A s \in saved : Candidate(EntryOf(s)) => Reached(EntryOf(s))
    BY <1>1 DEF NoneLost
  <2>2. \A s \in saved : /\ EntryOf(s)' = EntryOf(s)
                         /\ Candidate(EntryOf(s))' <=> Candidate(EntryOf(s))
                         /\ Destination(EntryOf(s))' = Destination(EntryOf(s))
    BY <1>1, NamesStay, PlacesStay
  <2>3. \A s \in saved : Candidate(EntryOf(s))' => Reached(EntryOf(s))'
    BY <1>1, <2>1, <2>2 DEF Reached
  <2>4. QED
    BY <1>1, <2>3 DEF NoneLost
<1>6. AllTaken'
  BY <1>1 DEF AllTaken
<1>7. QED
  BY <1>2, <1>3, <1>4, <1>5, <1>6 DEF LoopInv

LEMMA StutterLoopInv ==
  ASSUME LoopInv, UNCHANGED vars
  PROVE  LoopInv'
<1>1. /\ receiver' = receiver /\ saved' = saved /\ pc' = pc /\ entries' = entries
      /\ dsts' = dsts /\ sourcePaths' = sourcePaths
  BY DEF vars
<1>2. TypeOK' /\ AllTaken'
  BY <1>1 DEF LoopInv, TypeOK, AllTaken
<1>3. \A s : EntryOf(s)' = EntryOf(s)
  BY <1>1, NamesStay
<1>4. EntriesInv'
  BY <1>1, NamesStay DEF LoopInv, EntriesInv
<1>5. PlacesInv'
  BY <1>1, PlacesStay DEF LoopInv
<1>6. NoneLost'
  <2>1. \A s \in saved : /\ EntryOf(s)' = EntryOf(s)
                         /\ Candidate(EntryOf(s))' <=> Candidate(EntryOf(s))
                         /\ Destination(EntryOf(s))' = Destination(EntryOf(s))
    BY <1>1, NamesStay, PlacesStay
  <2>2. \A s \in saved : Reached(EntryOf(s)) => Reached(EntryOf(s))'
    BY <1>1, <2>1 DEF Reached
  <2>3. QED
    BY <1>1, <2>1, <2>2 DEF LoopInv, NoneLost
<1>7. QED
  BY <1>2, <1>4, <1>5, <1>6 DEF LoopInv

LEMMA SpecLoopInv == Spec => []LoopInv
<1>1. Init => LoopInv
  BY InitLoopInv
<1>2. LoopInv /\ [Next]_vars => LoopInv'
  BY ListStep, TakeEntryStep, LoopEndsStep, StutterLoopInv DEF Next
<1>3. QED
  BY <1>1, <1>2, PTL DEF Spec
-----------------------------------------------------------------------------
(* The theorems. *)

(***************************************************************************)
(* The variables keep their types, no destination is empty, and each       *)
(* destination of the list has the entry it is restored from.              *)
(***************************************************************************)
THEOREM SpecTypeOK == Spec => []TypeOK
<1>1. LoopInv => TypeOK
  BY DEF LoopInv
<1>2. QED
  BY <1>1, SpecLoopInv, PTL

(* The destination of a source of the key has that source's entry. *)
LEMMA OwnPlaceHasOwnEntry ==
  ASSUME Chosen, Unambiguous, NEW s \in saved, s.key = Key, s.path # <<>>,
         NEW t \in saved, Candidate(EntryOf(t)), Destination(EntryOf(t)) = s.path
  PROVE  EntryOf(t) = EntryOf(s)
<1>1. t.key = Key
  BY OnlyOwnEntries
<1>2. CASE t.path # <<>>
  <2>1. t.path = s.path
    BY <1>1, <1>2, OwnDestination
  <2>2. QED
    BY <1>1, <2>1 DEF EntryOf
<1>3. CASE t.path = <<>>
  <2>1. s.path = Prefix
    BY <1>1, <1>3, OwnDestination
  <2>2. s = [key |-> Key, path |-> Prefix] /\ t = [key |-> Key, path |-> <<>>]
    BY <1>1, <1>3, <2>1, SaveTypes
  <2>3. QED
    BY <2>2 DEF Unambiguous, NoSourceNamedAfterTheKey
<1>4. QED
  BY <1>2, <1>3

(***************************************************************************)
(* A restore without destinations restores every source saved under the    *)
(* key from its own archive to its own place, whatever else the storage    *)
(* holds, whatever the names of the sources have of the key in them and    *)
(* whatever the order of the listing.                                      *)
(***************************************************************************)
THEOREM SpecEverySourceComesBack == Spec => []EverySourceComesBack
<1>1. ASSUME LoopInv PROVE EverySourceComesBack
  <2> SUFFICES ASSUME pc = "started", Unambiguous,
                      NEW s \in saved, s.key = Key, s.path # <<>>
               PROVE  s.path \in DOMAIN sourcePaths /\ sourcePaths[s.path] = EntryOf(s)
    BY DEF EverySourceComesBack
  <2>1. Chosen /\ PlacesInv /\ NoneLost /\ entries = <<>>
    BY <1>1 DEF LoopInv, TypeOK, Chosen, AllTaken
  <2>2. Candidate(EntryOf(s)) /\ Destination(EntryOf(s)) = s.path
    BY <2>1, OwnDestination
  <2>3. s.path \in DOMAIN sourcePaths
    <3>1. Reached(EntryOf(s))
      BY <2>1, <2>2 DEF NoneLost
    <3>2. DOMAIN entries = {}
      BY <2>1
    <3>3. QED
      BY <2>2, <3>1, <3>2 DEF Reached
  <2>4. Candidate(sourcePaths[s.path]) /\ Destination(sourcePaths[s.path]) = s.path
    BY <2>1, <2>3 DEF PlacesInv
  <2>5. PICK t \in saved : sourcePaths[s.path] = EntryOf(t)
    BY <2>4 DEF Candidate
  <2>6. Candidate(EntryOf(t)) /\ Destination(EntryOf(t)) = s.path
    BY <2>4, <2>5
  <2>7. EntryOf(t) = EntryOf(s)
    BY <2>1, <2>6, OwnPlaceHasOwnEntry
  <2>8. QED
    BY <2>3, <2>5, <2>7
<1>2. QED
  BY <1>1, SpecLoopInv, PTL

(***************************************************************************)
(* Strict matching restores nothing that was saved under another key,      *)
(* although the listing may have it.                                       *)
(***************************************************************************)
THEOREM SpecNoOtherKeyIsRestored == Spec => []NoOtherKeyIsRestored
<1>1. ASSUME LoopInv PROVE NoOtherKeyIsRestored
  <2> SUFFICES ASSUME pc = "started", Unambiguous, NEW d \in DOMAIN sourcePaths
               PROVE  \E s \in saved : s.key = Key /\ sourcePaths[d] = EntryOf(s)
    BY DEF NoOtherKeyIsRestored
  <2>1. Chosen /\ PlacesInv
    BY <1>1 DEF LoopInv, TypeOK, Chosen
  <2>2. Candidate(sourcePaths[d])
    BY <2>1 DEF PlacesInv
  <2>3. PICK t \in saved : sourcePaths[d] = EntryOf(t)
    BY <2>2 DEF Candidate
  <2>4. Candidate(EntryOf(t))
    BY <2>2, <2>3
  <2>5. t.key = Key
    BY <2>1, <2>4, OnlyOwnEntries
  <2>6. QED
    BY <2>3, <2>5
<1>2. QED
  BY <1>1, SpecLoopInv, PTL
=============================================================================
