-------------------------- MODULE LinuxAdapterProofs --------------------------
(***************************************************************************)
(* The Linux adapter follows the session bus, for any number of names,     *)
(* slots and texts and however many signals are waiting.                   *)
(***************************************************************************)
EXTENDS LinuxAdapter, TLAPS, FiniteSetTheorems, SequenceTheorems, WellFoundedInduction

Asking == pc \in {"get_all_init", "get_all"}
Adding == Asking \/ pc \in {"subscribe_init", "subscribe"}

(* A name has one player at most, and one subscription once it is added.    *)
OneEach ==
  /\ cur # -1 <=> Adding
  /\ cur # -1 => cur \in Own
  /\ \A s, r \in Own : players[s].name = players[r].name => s = r
  /\ \A n \in Names : subs[n] = IF Named(n) \subseteq {cur} THEN 0 ELSE 1

-----------------------------------------------------------------------------
(* The queue of signals.                                                    *)

IsOwner(m, n) == m.what = "owner" /\ m.name = n

HasOwner(q, n)  == \E i \in DOMAIN q : IsOwner(q[i], n)
HasChange(q, n) == \E i \in DOMAIN q : IsChange(q[i], n)

LastOwner(q, i, n) ==
  i \in DOMAIN q /\ IsOwner(q[i], n) /\ \A j \in DOMAIN q : IsOwner(q[j], n) => j <= i
LastChange(q, i, n) ==
  i \in DOMAIN q /\ IsChange(q[i], n) /\ \A j \in DOMAIN q : IsChange(q[j], n) => j <= i

LEMMA SignalFacts ==
  ASSUME NEW m \in Signals
  PROVE  /\ m.what = "owner" => m.name \in Names /\ m.gone \in BOOLEAN
         /\ m.what = "properties" => m.name \in Names /\ m.text \in Texts
         /\ m.what \in {"owner", "properties", "dropped"}
BY DEF Signals, OwnerChanged, PropertiesChanged, Dropped

Grown(q, r, m) == r = q \o <<m>>

LEMMA Pushed ==
  ASSUME NEW q \in Seq(Signals), NEW m \in Signals, NEW r, Grown(q, r, m)
  PROVE  /\ r \in Seq(Signals)
         /\ \A n : /\ HasOwner(r, n) <=> HasOwner(q, n) \/ IsOwner(m, n)
                   /\ HasChange(r, n) <=> HasChange(q, n) \/ IsChange(m, n)
         /\ \A i, n : LastOwner(r, i, n) =>
              IF IsOwner(m, n) THEN r[i] = m ELSE LastOwner(q, i, n) /\ r[i] = q[i]
         /\ \A i, n : LastChange(r, i, n) =>
              IF IsChange(m, n) THEN r[i] = m ELSE LastChange(q, i, n) /\ r[i] = q[i]
<1>1. /\ r \in Seq(Signals) /\ DOMAIN r = 1..(Len(q) + 1) /\ DOMAIN q = 1..Len(q)
      /\ Len(q) \in Nat /\ r[Len(q) + 1] = m
      /\ \A i \in 1..Len(q) : r[i] = q[i]
  BY DEF Grown
<1> QED
  BY <1>1 DEF HasOwner, HasChange, LastOwner, LastChange

(* r is q without its first element.                                        *)
Follows(q, r, len) ==
  /\ len \in Nat /\ DOMAIN q = 1..(len + 1) /\ DOMAIN r = 1..len
  /\ \A i \in 1..len : r[i] = q[i + 1]

LEMMA Shifted ==
  ASSUME NEW q, NEW r, NEW len, Follows(q, r, len), NEW n
  PROVE  /\ HasOwner(q, n) <=> HasOwner(r, n) \/ IsOwner(q[1], n)
         /\ HasChange(q, n) <=> HasChange(r, n) \/ IsChange(q[1], n)
         /\ IsOwner(q[1], n) /\ ~HasOwner(r, n) => LastOwner(q, 1, n)
         /\ IsChange(q[1], n) /\ ~HasChange(r, n) => LastChange(q, 1, n)
         /\ \A i : LastOwner(r, i, n) => LastOwner(q, i + 1, n) /\ r[i] = q[i + 1]
         /\ \A i : LastChange(r, i, n) => LastChange(q, i + 1, n) /\ r[i] = q[i + 1]
<1>a. /\ len \in Nat /\ DOMAIN q = 1..(len + 1) /\ DOMAIN r = 1..len
      /\ \A i \in 1..len : r[i] = q[i + 1]
  BY DEF Follows
<1> USE <1>a
<1>1. \A i \in 1..(len + 1) : i = 1 \/ (i - 1 \in 1..len /\ q[i] = r[i - 1])
  <2> SUFFICES ASSUME NEW i \in 1..(len + 1), i # 1 PROVE i - 1 \in 1..len /\ q[i] = r[i - 1]
    OBVIOUS
  <2>1. i - 1 \in 1..len /\ (i - 1) + 1 = i
    OBVIOUS
  <2>2. r[i - 1] = q[(i - 1) + 1]
    BY <2>1
  <2> QED
    BY <2>1, <2>2
<1>2. 1 \in 1..(len + 1) /\ \A i \in 1..len : i + 1 \in 1..(len + 1) /\ i \in Int
  OBVIOUS
<1>3. HasOwner(q, n) <=> HasOwner(r, n) \/ IsOwner(q[1], n)
  <2>1. HasOwner(q, n) => HasOwner(r, n) \/ IsOwner(q[1], n)
    BY <1>1 DEF HasOwner
  <2>2. HasOwner(r, n) \/ IsOwner(q[1], n) => HasOwner(q, n)
    BY <1>2 DEF HasOwner
  <2> QED
    BY <2>1, <2>2
<1>4. HasChange(q, n) <=> HasChange(r, n) \/ IsChange(q[1], n)
  <2>1. HasChange(q, n) => HasChange(r, n) \/ IsChange(q[1], n)
    BY <1>1 DEF HasChange
  <2>2. HasChange(r, n) \/ IsChange(q[1], n) => HasChange(q, n)
    BY <1>2 DEF HasChange
  <2> QED
    BY <2>1, <2>2
<1>5. IsOwner(q[1], n) /\ ~HasOwner(r, n) => LastOwner(q, 1, n)
  BY <1>1, <1>2 DEF HasOwner, LastOwner
<1>6. IsChange(q[1], n) /\ ~HasChange(r, n) => LastChange(q, 1, n)
  BY <1>1, <1>2 DEF HasChange, LastChange
<1>7. ASSUME NEW i, LastOwner(r, i, n) PROVE LastOwner(q, i + 1, n) /\ r[i] = q[i + 1]
  <2>1. i \in 1..len /\ IsOwner(r[i], n) /\ \A j \in 1..len : IsOwner(r[j], n) => j <= i
    BY <1>7 DEF LastOwner
  <2>2. ASSUME NEW j \in 1..(len + 1), IsOwner(q[j], n) PROVE j <= i + 1
    <3>1. CASE j = 1
      BY <3>1, <2>1
    <3>2. CASE j # 1
      <4>1. j - 1 \in 1..len /\ IsOwner(r[j - 1], n)
        BY <3>2, <2>2, <1>1
      <4>2. j - 1 <= i
        BY <4>1, <2>1
      <4> QED
        BY <4>2, <2>1
    <3> QED
      BY <3>1, <3>2
  <2> QED
    BY <2>1, <2>2, <1>2 DEF LastOwner
<1>8. ASSUME NEW i, LastChange(r, i, n) PROVE LastChange(q, i + 1, n) /\ r[i] = q[i + 1]
  <2>1. i \in 1..len /\ IsChange(r[i], n) /\ \A j \in 1..len : IsChange(r[j], n) => j <= i
    BY <1>8 DEF LastChange
  <2>2. ASSUME NEW j \in 1..(len + 1), IsChange(q[j], n) PROVE j <= i + 1
    <3>1. CASE j = 1
      BY <3>1, <2>1
    <3>2. CASE j # 1
      <4>1. j - 1 \in 1..len /\ IsChange(r[j - 1], n)
        BY <3>2, <2>2, <1>1
      <4>2. j - 1 <= i
        BY <4>1, <2>1
      <4> QED
        BY <4>2, <2>1
    <3> QED
      BY <3>1, <3>2
  <2> QED
    BY <2>1, <2>2, <1>2 DEF LastChange
<1> QED
  BY <1>3, <1>4, <1>5, <1>6, <1>7, <1>8

LEMMA Popped ==
  ASSUME NEW q \in Seq(Signals), q # <<>>, NEW r, r = Tail(q)
  PROVE  /\ r \in Seq(Signals) /\ Head(q) \in Signals /\ Head(q) = q[1]
         /\ \A n : /\ HasOwner(q, n) <=> HasOwner(r, n) \/ IsOwner(Head(q), n)
                   /\ HasChange(q, n) <=> HasChange(r, n) \/ IsChange(Head(q), n)
         /\ \A n : /\ IsOwner(Head(q), n) /\ ~HasOwner(r, n) => LastOwner(q, 1, n)
                   /\ IsChange(Head(q), n) /\ ~HasChange(r, n) => LastChange(q, 1, n)
         /\ \A i, n : LastOwner(r, i, n) => LastOwner(q, i + 1, n) /\ r[i] = q[i + 1]
         /\ \A i, n : LastChange(r, i, n) => LastChange(q, i + 1, n) /\ r[i] = q[i + 1]
<1> DEFINE len == Len(q) - 1
<1>1. /\ r \in Seq(Signals) /\ DOMAIN r = 1..len /\ DOMAIN q = 1..(len + 1)
      /\ len \in Nat /\ Head(q) = q[1] /\ q[1] \in Signals
      /\ \A i \in 1..len : r[i] = q[i + 1]
  OBVIOUS
<1> HIDE DEF len
<1>2. Follows(q, r, len)
  BY <1>1 DEF Follows
<1>3. \A n : /\ HasOwner(q, n) <=> HasOwner(r, n) \/ IsOwner(q[1], n)
             /\ HasChange(q, n) <=> HasChange(r, n) \/ IsChange(q[1], n)
             /\ IsOwner(q[1], n) /\ ~HasOwner(r, n) => LastOwner(q, 1, n)
             /\ IsChange(q[1], n) /\ ~HasChange(r, n) => LastChange(q, 1, n)
             /\ \A i : LastOwner(r, i, n) => LastOwner(q, i + 1, n) /\ r[i] = q[i + 1]
             /\ \A i : LastChange(r, i, n) => LastChange(q, i + 1, n) /\ r[i] = q[i + 1]
  BY ONLY <1>2, Shifted, Zenon
<1> QED
  BY <1>1, <1>3, Zenon

(* The changes of a name dropped from the queue.                            *)
Cleared(q, r, n) == r = [i \in DOMAIN q |-> IF IsChange(q[i], n) THEN Dropped ELSE q[i]]

LEMMA ChangesDropped ==
  ASSUME NEW q \in Seq(Signals), NEW n, NEW r, Cleared(q, r, n)
  PROVE  /\ r \in Seq(Signals)
         /\ \A k : HasOwner(r, k) <=> HasOwner(q, k)
         /\ ~HasChange(r, n)
         /\ \A k : HasChange(r, k) => HasChange(q, k)
         /\ \A k : k # n /\ HasChange(q, k) => HasChange(r, k)
         /\ \A i, k : LastOwner(r, i, k) => LastOwner(q, i, k) /\ r[i] = q[i]
         /\ \A i, k : LastChange(r, i, k) => LastChange(q, i, k) /\ r[i] = q[i]
<1>1. DOMAIN r = DOMAIN q /\ DOMAIN q = 1..Len(q) /\ Len(q) \in Nat /\ Dropped \in Signals
  BY DEF Signals, Cleared
<1>2. \A i \in DOMAIN q : r[i] = IF IsChange(q[i], n) THEN Dropped ELSE q[i]
  BY DEF Cleared
<1>3. \A i \in DOMAIN q : q[i] \in Signals
  BY <1>1
<1>4. \A i \in 1..Len(q) : r[i] \in Signals
  BY <1>1, <1>2, <1>3
<1>5. r \in Seq(Signals)
  <2>1. r = [i \in 1..Len(q) |-> r[i]]
    BY <1>1 DEF Cleared
  <2> QED
    BY <2>1, <1>1, <1>4, IsASeq
<1>6. Dropped.what = "dropped"
  BY DEF Dropped
<1>7. \A i \in DOMAIN q : \A k : IsOwner(r[i], k) <=> IsOwner(q[i], k)
  BY <1>2, <1>6 DEF IsOwner, IsChange
<1>8. \A i \in DOMAIN q : \A k : IsChange(r[i], k) <=> IsChange(q[i], k) /\ k # n
  BY <1>2, <1>6 DEF IsChange
<1>9. \A i \in DOMAIN q : \A k : IsOwner(r[i], k) \/ IsChange(r[i], k) => r[i] = q[i]
  BY <1>2, <1>6 DEF IsOwner, IsChange
<1>10. \A i, k : LastOwner(r, i, k) => LastOwner(q, i, k) /\ r[i] = q[i]
  BY <1>1, <1>7, <1>9 DEF LastOwner
<1>11. \A i, k : LastChange(r, i, k) => LastChange(q, i, k) /\ r[i] = q[i]
  BY <1>1, <1>8, <1>9 DEF LastChange
<1> QED
  BY <1>1, <1>5, <1>7, <1>8, <1>10, <1>11 DEF HasOwner, HasChange
-----------------------------------------------------------------------------
(* The table.                                                               *)

LEMMA LeastSlot ==
  ASSUME LinuxAssumption, NEW S \in SUBSET Slots, S # {}
  PROVE  \E x \in S : \A y \in S : x <= y
<1>1. S \subseteq Nat
  BY DEF LinuxAssumption, Slots
<1>2. \E x \in S : \A y \in S : ~(<<y, x>> \in OpToRel(<, Nat))
  BY <1>1, NatLessThanWellFounded, WFMin, Zenon
<1>3. PICK x \in S : \A y \in S : ~(<<y, x>> \in OpToRel(<, Nat))
  BY <1>2, Zenon
<1>4. ASSUME NEW y \in S PROVE x <= y
  <2>1. <<y, x>> \notin OpToRel(<, Nat)
    BY <1>3, Zenon
  <2>2. x \in Nat /\ y \in Nat
    BY <1>1
  <2>3. ~(y < x)
    BY <2>1, <2>2 DEF OpToRel
  <2> QED
    BY <2>2, <2>3
<1> QED
  BY <1>4, Zenon

LEMMA MinSlot ==
  ASSUME LinuxAssumption, NEW S \in SUBSET Slots, S # {}
  PROVE  Min(S) \in S
<1>1. \E x \in S : \A y \in S : x <= y
  BY LeastSlot
<1> QED
  BY <1>1 DEF Min

Entries == [name : Names, text : Texts \cup {NoText}]

(* An entry is free, or has one of the names.                               *)
LEMMA OwnFacts ==
  ASSUME LinuxAssumption, TypeOK
  PROVE  /\ Own \subseteq Slots
         /\ \A s \in Slots : players[s].name \in Names <=> s \in Own
         /\ \A s \in Own : players[s] \in Entries
         /\ \A s \in Slots \ Own : players[s] = Free
<1>1. Free.name = NoName /\ NoName \notin Names
  BY DEF Free, LinuxAssumption
<1>2. \A s \in Slots : players[s] = Free \/ players[s] \in Entries
  BY DEF TypeOK, Entries
<1>3. \A e \in Entries : e.name \in Names /\ e # Free
  BY <1>1 DEF Entries
<1> QED
  BY <1>1, <1>2, <1>3 DEF Own

(* Writing the text of a player changes no name.                            *)
LEMMA TextSet ==
  ASSUME LinuxAssumption, TypeOK, NEW s \in Own, NEW t \in Texts \cup {NoText},
         players' = [players EXCEPT ![s].text = t]
  PROVE  /\ players' \in [Slots -> Entries \cup {Free}]
         /\ Own' = Own
         /\ \A r \in Slots : players'[r].name = players[r].name
         /\ \A n : Named(n)' = Named(n)
         /\ players'[s].text = t
         /\ \A r \in Slots \ {s} : players'[r] = players[r]
<1>1. s \in Slots /\ players[s] \in Entries
  BY OwnFacts
<1> DEFINE entry == [players[s] EXCEPT !.text = t]
<1>2. entry \in Entries /\ entry.name = players[s].name /\ entry.text = t
  BY <1>1 DEF Entries
<1>3. players' = [players EXCEPT ![s] = entry]
  OBVIOUS
<1>4. entry # Free
  BY <1>2 DEF Entries, Free, LinuxAssumption
<1> HIDE DEF entry
<1>5. players \in [Slots -> Entries \cup {Free}]
  BY DEF TypeOK, Entries
<1>6. players' \in [Slots -> Entries \cup {Free}] /\ players'[s] = entry
      /\ \A r \in Slots \ {s} : players'[r] = players[r]
  BY <1>1, <1>2, <1>3, <1>5
<1>7. Own' = Own
  BY <1>4, <1>6 DEF Own
<1>8. \A r \in Slots : players'[r].name = players[r].name
  BY <1>2, <1>6
<1>9. \A n : Named(n)' = Named(n)
  BY <1>7, <1>8 DEF Named, Own
<1> QED
  BY <1>2, <1>6, <1>7, <1>8, <1>9

(* Nothing changes as long as names, subscriptions and cur do not.          *)
LEMMA EachFrame ==
  ASSUME OneEach, Own' = Own, \A r \in Slots : players'[r].name = players[r].name,
         UNCHANGED <<subs, cur>>, Adding' <=> Adding
  PROVE  OneEach'
<1>1. \A n : Named(n)' = Named(n)
  BY DEF Named, Own
<1> QED
  BY <1>1 DEF OneEach, Own

(* linux.c:399-455: nothing, or a player that no name had before.           *)
NoPlayerAdded(n) == UNCHANGED <<players, cur, pc>>

PlayerIsAdded(n, s) ==
  /\ Named(n) = {} /\ s \in Slots \ Own
  /\ cur' = s /\ Own' = Own \cup {s}
  /\ players'[s].name = n /\ \A r \in Slots \ {s} : players'[r] = players[r]
  /\ Named(n)' = {s} /\ \A k \in Names \ {n} : Named(k)' = Named(k)
  /\ pc' = IF pc = "init" THEN "get_all_init" ELSE "get_all"

LEMMA AddedFacts ==
  ASSUME LinuxAssumption, TypeOK, OneEach, NEW n \in Names, pc \in {"init", "loop"},
         PlayerAdded(n), UNCHANGED <<subs, taken>>
  PROVE  /\ OneEach'
         /\ players' \in [Slots -> Entries \cup {Free}] /\ cur' \in Slots \cup {-1}
         /\ pc' \in {"init", "loop", "get_all_init", "get_all"}
         /\ taken' \cap Own' = {}
         /\ \A k \in Names \ {n} : (k \in unwatched' <=> k \in unwatched) /\ Named(k)' = Named(k)
         /\ n \notin unwatched' => Named(n)' # {}
         /\ ~watching /\ n \in unwatched => n \in unwatched'
         /\ unwatched' \subseteq unwatched \cup {n}
         /\ NoPlayerAdded(n) \/ \E s \in Slots : PlayerIsAdded(n, s)
<1>1. CASE KnownName(n) \/ InUse = Slots
  <2>1. UNCHANGED <<players, cur, pc>>
    BY <1>1 DEF PlayerAdded
  <2>2. Own' = Own /\ \A k : Named(k)' = Named(k)
    BY <2>1 DEF Own, Named
  <2>3. OneEach'
    BY <2>1, <2>2, EachFrame DEF Adding, Asking
  <2>4. /\ \A k \in Names \ {n} : k \in unwatched' <=> k \in unwatched
        /\ n \notin unwatched' => Named(n)' # {}
        /\ ~watching /\ n \in unwatched => n \in unwatched'
        /\ unwatched' \subseteq unwatched \cup {n}
    BY <1>1, <2>2 DEF PlayerAdded, KnownName
  <2>5. /\ players \in [Slots -> Entries \cup {Free}] /\ cur \in Slots \cup {-1}
        /\ taken \cap Own = {}
    BY DEF TypeOK, Entries
  <2> QED
    BY <2>1, <2>2, <2>3, <2>4, <2>5 DEF NoPlayerAdded
<1>2. CASE ~(KnownName(n) \/ InUse = Slots)
  <2> DEFINE s == Min(Slots \ InUse)
             new == [name |-> n, text |-> NoText]
  <2>1. Slots \ InUse # {}
    BY <1>2 DEF InUse, Own, TypeOK
  <2>2. s \in Slots \ InUse
    <3>1. Slots \ InUse \in SUBSET Slots
      OBVIOUS
    <3> QED
      BY <2>1, <3>1, MinSlot, Zenon
  <2> HIDE DEF s
  <2>3. /\ cur' = s /\ players' = [players EXCEPT ![s] = new]
        /\ pc' = IF pc = "init" THEN "get_all_init" ELSE "get_all"
        /\ unwatched' = IF watching THEN unwatched \ {n} ELSE unwatched
    BY <1>2 DEF PlayerAdded, s
  <2>4. s \in Slots /\ s \notin Own /\ s \notin taken /\ Named(n) = {}
    BY <1>2, <2>2 DEF InUse, KnownName
  <2>5. new \in Entries /\ new.name = n /\ new # Free
    BY DEF Entries, Free, LinuxAssumption
  <2> HIDE DEF new
  <2>6. players \in [Slots -> Entries \cup {Free}] /\ taken \cap Own = {} /\ Own \subseteq Slots
    BY DEF TypeOK, Entries, Own
  <2>7. /\ players' \in [Slots -> Entries \cup {Free}] /\ players'[s] = new
        /\ \A r \in Slots \ {s} : players'[r] = players[r]
    BY <2>3, <2>4, <2>5, <2>6
  <2>8. Own' = Own \cup {s}
    BY <2>4, <2>5, <2>7 DEF Own
  <2>9. Named(n)' = {s} /\ \A k \in Names \ {n} : Named(k)' = Named(k)
    BY <2>4, <2>5, <2>6, <2>7, <2>8 DEF Named
  <2>10. cur = -1 /\ Adding' /\ pc' \in {"get_all_init", "get_all"}
    BY <2>3 DEF OneEach, Adding, Asking
  <2>11. OneEach'
    <3>1. cur' # -1 /\ cur' \in Own'
      BY <2>3, <2>4, <2>8 DEF LinuxAssumption, Slots
    <3>2. \A r, q \in Own' : players'[r].name = players'[q].name => r = q
      BY <2>4, <2>5, <2>6, <2>7, <2>8 DEF OneEach, Named
    <3>3. ASSUME NEW k \in Names PROVE subs'[k] = IF Named(k)' \subseteq {s} THEN 0 ELSE 1
      <4>1. subs[k] = IF Named(k) \subseteq {-1} THEN 0 ELSE 1
        BY <2>10 DEF OneEach
      <4>2. Named(k) \subseteq Own /\ Named(k)' \subseteq Own'
        BY DEF Named
      <4>3. -1 \notin Own
        BY <2>6 DEF LinuxAssumption, Slots
      <4>4. Named(k) \subseteq {-1} <=> Named(k)' \subseteq {s}
        BY <2>4, <2>9, <4>2, <4>3
      <4> QED
        BY <4>1, <4>4
    <3> QED
      BY <2>3, <2>10, <3>1, <3>2, <3>3 DEF OneEach
  <2>12. taken' \cap Own' = {}
    BY <2>4, <2>6, <2>8
  <2>13. PlayerIsAdded(n, s)
    BY <2>3, <2>4, <2>5, <2>7, <2>8, <2>9 DEF PlayerIsAdded
  <2> QED
    BY <2>3, <2>4, <2>7, <2>9, <2>10, <2>11, <2>12, <2>13
<1> QED
  BY <1>1, <1>2

-----------------------------------------------------------------------------
(* The last word the queue holds of a name is true: of its owner always, of  *)
(* its properties unless a word went unheard.                               *)
Heard ==
  \A n \in Names :
    /\ \A i : LastOwner(signals, i, n) => (signals[i].gone <=> n \notin owned)
    /\ \A i : LastChange(signals, i, n) => n \in stale \/ signals[i].text = text[n]
    /\ HasChange(signals, n) => subs[n] = 1
    /\ HasOwner(signals, n) => watching

(* A name that nothing is queued about is in the table if it has an owner.  *)
Present ==
  /\ watching <=> pc \in {"loop", "get_all", "subscribe"}
  /\ pc = "list" => Own = {}
  /\ \A n \in Names \ unwatched :
       pc # "list" /\ ~HasOwner(signals, n) =>
         (n \in owned <=> (~watching /\ n \in todo) \/ Named(n) # {})

(* What a player says is what its owner said, or a change is on its way.    *)
Shown ==
  \A n \in Names : \/ n \in stale \/ HasChange(signals, n)
                   \/ \A s \in Named(n) : (s = cur /\ Asking) \/ players[s].text = text[n]

LinuxInv == TypeOK /\ OneEach /\ Heard /\ Present /\ Shown

LEMMA SubsRange ==
  ASSUME LinuxAssumption, NEW f, DOMAIN f = Names, f = [n \in Names |-> f[n]],
         \A n \in Names : f[n] \in {0, 1}
  PROVE  f \in [Names -> 0..MaxPlayers]
BY DEF LinuxAssumption

LEMMA TableFrame ==
  ASSUME UNCHANGED players
  PROVE  /\ Own' = Own /\ \A n : Named(n)' = Named(n)
         /\ \A r \in Slots : players'[r].name = players[r].name
BY DEF Own, Named

LEMMA InitLinuxInv ==
  ASSUME LinuxAssumption, Init
  PROVE  LinuxInv
<1>1. Own = {} /\ \A n : Named(n) = {}
  BY DEF Init, Own, Named
<1>2. \A n : ~HasOwner(signals, n) /\ ~HasChange(signals, n)
  BY DEF Init, HasOwner, HasChange
<1>3. \A n, i : ~LastOwner(signals, i, n) /\ ~LastChange(signals, i, n)
  BY DEF Init, LastOwner, LastChange
<1>4. TypeOK
  <2>1. subs \in [Names -> 0..MaxPlayers] /\ <<>> \in Seq(Signals)
    BY DEF Init, LinuxAssumption
  <2>2. players \in [Slots -> [name : Names, text : Texts \cup {NoText}] \cup {Free}]
    BY DEF Init
  <2> QED
    BY <1>1, <2>1, <2>2 DEF Init, TypeOK
<1>5. OneEach
  BY <1>1 DEF Init, OneEach, Adding, Asking
<1> QED
  BY <1>1, <1>2, <1>3, <1>4, <1>5 DEF Init, LinuxInv, Heard, Present, Shown

LEMMA StepListNames ==
  ASSUME LinuxAssumption, LinuxInv, ListNames
  PROVE  LinuxInv'
<1> USE DEF LinuxInv
<1>1. /\ UNCHANGED <<owned, text, taken, watching, subs, signals, players, cur, stale>>
      /\ pc = "list" /\ pc' = "init"
      /\ (todo' = owned /\ unwatched' = {}) \/ (todo' = {} /\ unwatched' = owned)
  BY DEF ListNames, world
<1>2. Own' = Own /\ \A n : Named(n)' = Named(n)
  BY <1>1, TableFrame
<1>3. TypeOK'
  BY <1>1, <1>2 DEF TypeOK
<1>4. OneEach'
  BY <1>1, <1>2, TableFrame, EachFrame DEF Adding, Asking
<1>5. Heard'
  BY <1>1 DEF Heard
<1>6. Present'
  BY <1>1, <1>2 DEF Present, Heard, Named
<1>7. Shown'
  BY <1>1, <1>2 DEF Shown, Asking
<1> QED
  BY <1>3, <1>4, <1>5, <1>6, <1>7

LEMMA StepGetAll ==
  ASSUME LinuxAssumption, LinuxInv, GetAll
  PROVE  LinuxInv'
<1> USE DEF LinuxInv
<1> DEFINE n == players[cur].name
<1>1. /\ UNCHANGED <<owned, text, taken, watching, subs, signals, todo, cur, unwatched>>
      /\ Asking /\ Adding /\ Adding' /\ ~Asking'
      /\ pc \in {"get_all_init", "get_all"}
      /\ pc' = IF pc = "get_all" THEN "subscribe" ELSE "subscribe_init"
      /\ \/ n \in owned /\ players' = [players EXCEPT ![cur].text = text[n]] /\ stale' = stale \ {n}
         \/ stale' = stale \cup {n} /\ UNCHANGED players
  BY DEF GetAll, world, Asking, Adding
<1>2. cur \in Own /\ n \in Names /\ Named(n) = {cur} /\ cur \in Slots
  BY <1>1, OwnFacts DEF OneEach, Named
<1>3. text[n] \in Texts
  BY <1>2 DEF TypeOK
<1> HIDE DEF n
<1>4. /\ players' \in [Slots -> Entries \cup {Free}] /\ Own' = Own
      /\ \A r \in Slots : players'[r].name = players[r].name
      /\ \A k : Named(k)' = Named(k)
      /\ \A r \in Slots \ {cur} : players'[r] = players[r]
      /\ n \in stale' \/ players'[cur].text = text[n]
  <2>1. CASE players' = [players EXCEPT ![cur].text = text[n]]
    BY <2>1, <1>2, <1>3, TextSet
  <2>2. CASE stale' = stale \cup {n} /\ UNCHANGED players
    BY <2>2, TableFrame DEF TypeOK, Entries
  <2> QED
    BY <1>1, <2>1, <2>2
<1>5. TypeOK'
  BY <1>1, <1>2, <1>4 DEF TypeOK, Entries
<1>6. OneEach'
  BY <1>1, <1>4, EachFrame
<1>7. ~HasChange(signals, n)
  BY <1>2 DEF Heard, OneEach
<1>8. \A k \in Names \ {n} : k \in stale' <=> k \in stale
  BY <1>1
<1>9. Heard'
  <2>1. \A i : ~LastChange(signals, i, n)
    BY <1>7 DEF HasChange, LastChange
  <2> QED
    BY <1>1, <1>8, <2>1 DEF Heard
<1>10. Present'
  BY <1>1, <1>4 DEF Present
<1>11. Shown'
  <2> SUFFICES ASSUME NEW k \in Names, k \notin stale', ~HasChange(signals, k), NEW s \in Named(k)
               PROVE  players'[s].text = text[k]
    BY <1>1, <1>4 DEF Shown
  <2>1. CASE k = n
    BY <2>1, <1>2, <1>4
  <2>2. CASE k # n
    <3>1. s # cur /\ s \in Slots
      BY <2>2, OwnFacts DEF Named, n
    <3> QED
      BY <2>2, <3>1, <1>4, <1>8 DEF Shown
  <2> QED
    BY <2>1, <2>2
<1> QED
  BY <1>5, <1>6, <1>9, <1>10, <1>11

LEMMA StepSubscribe ==
  ASSUME LinuxAssumption, LinuxInv, Subscribe
  PROVE  LinuxInv'
<1> USE DEF LinuxInv
<1> DEFINE n == players[cur].name
<1>1. /\ UNCHANGED <<owned, text, taken, watching, signals, players, todo, unwatched, stale>>
      /\ Adding /\ ~Asking /\ ~Adding' /\ ~Asking' /\ cur' = -1
      /\ subs' = [subs EXCEPT ![n] = @ + 1]
      /\ pc \in {"subscribe_init", "subscribe"}
      /\ pc' = IF pc = "subscribe" THEN "loop" ELSE "init"
  BY DEF Subscribe, world, unseen, Asking, Adding
<1>2. cur \in Own /\ n \in Names /\ Named(n) = {cur} /\ cur \in Slots
  BY <1>1, OwnFacts DEF OneEach, Named
<1>3. subs[n] = 0 /\ subs \in [Names -> 0..MaxPlayers]
  BY <1>2 DEF OneEach, TypeOK
<1> HIDE DEF n
<1>4. Own' = Own /\ \A k : Named(k)' = Named(k)
  BY <1>1, TableFrame
<1>5. /\ DOMAIN subs' = Names /\ subs' = [k \in Names |-> subs'[k]]
      /\ subs'[n] = 1 /\ \A k \in Names \ {n} : subs'[k] = subs[k]
  <2>1. subs' = [k \in Names |-> IF k = n THEN 1 ELSE subs[k]]
    <3>1. subs' = [subs EXCEPT ![n] = subs[n] + 1] /\ DOMAIN subs = Names
      BY <1>1, <1>3
    <3>2. subs[n] + 1 = 1
      BY <1>3
    <3>3. subs' = [subs EXCEPT ![n] = 1]
      BY <3>1, <3>2
    <3> QED
      BY <3>1, <3>3
  <2> QED
    BY <2>1, <1>2
<1>6. -1 \notin Slots
  BY DEF LinuxAssumption, Slots
<1>7. \A k \in Names \ {n} : Named(k) \subseteq {cur} <=> Named(k) \subseteq {-1}
  BY <1>2, <1>6, OwnFacts DEF Named, n
<1>8. OneEach'
  <2>1. \A k \in Names : subs'[k] = IF Named(k)' \subseteq {-1} THEN 0 ELSE 1
    BY <1>2, <1>4, <1>5, <1>6, <1>7 DEF OneEach
  <2>2. \A s, r \in Own' : players'[s].name = players'[r].name => s = r
    BY <1>1, <1>4 DEF OneEach
  <2> QED
    BY <1>1, <2>1, <2>2 DEF OneEach
<1>9. TypeOK'
  <2>1. \A k \in Names : subs'[k] \in {0, 1}
    BY <1>8 DEF OneEach
  <2>2. subs' \in [Names -> 0..MaxPlayers]
    BY <2>1, <1>5, SubsRange
  <2> QED
    BY <1>1, <1>4, <2>2 DEF TypeOK
<1>10. Heard'
  BY <1>1, <1>5 DEF Heard
<1>11. Present'
  BY <1>1, <1>4 DEF Present
<1>12. Shown'
  BY <1>1, <1>4 DEF Shown
<1> QED
  BY <1>8, <1>9, <1>10, <1>11, <1>12

LEMMA StepWatch ==
  ASSUME LinuxAssumption, LinuxInv, Watch
  PROVE  LinuxInv'
<1> USE DEF LinuxInv
<1>1. /\ UNCHANGED <<owned, text, taken, subs, signals, players, todo, cur, unwatched, stale>>
      /\ pc = "init" /\ todo = {} /\ watching' = TRUE /\ pc' = "loop"
  BY DEF Watch, world, unseen
<1>2. Own' = Own /\ \A n : Named(n)' = Named(n)
  BY <1>1, TableFrame
<1>3. TypeOK'
  BY <1>1, <1>2 DEF TypeOK
<1>4. OneEach'
  BY <1>1, <1>2, TableFrame, EachFrame DEF Adding, Asking
<1>5. Heard'
  BY <1>1 DEF Heard
<1>6. Present'
  BY <1>1, <1>2 DEF Present, Heard
<1>7. Shown'
  BY <1>1, <1>2 DEF Shown, Asking
<1> QED
  BY <1>3, <1>4, <1>5, <1>6, <1>7

(* What a player added, or none, does to Shown.                             *)
LEMMA AddedShown ==
  ASSUME LinuxAssumption, TypeOK, OneEach, Shown, NEW n \in Names, pc \in {"init", "loop"},
         NoPlayerAdded(n) \/ \E s \in Slots : PlayerIsAdded(n, s),
         UNCHANGED <<text, stale>>, \A k \in Names : HasChange(signals, k) => HasChange(signals', k)
  PROVE  Shown'
<1>1. ~Asking
  BY DEF Asking
<1>2. CASE NoPlayerAdded(n)
  <2>1. \A k : Named(k)' = Named(k)
    BY <1>2, TableFrame DEF NoPlayerAdded
  <2> QED
    BY <1>1, <1>2, <2>1 DEF Shown, NoPlayerAdded
<1>3. ASSUME NEW s \in Slots, PlayerIsAdded(n, s) PROVE Shown'
  <2>1. /\ cur' = s /\ Asking' /\ Named(n)' = {s} /\ s \notin Own
        /\ \A k \in Names \ {n} : Named(k)' = Named(k)
        /\ \A r \in Slots \ {s} : players'[r] = players[r]
    BY <1>3 DEF PlayerIsAdded, Asking
  <2>2. \A k, r : r \in Named(k) => r \in Slots \ {s}
    BY <2>1 DEF Named, Own
  <2> QED
    BY <1>1, <2>1, <2>2 DEF Shown
<1> QED
  BY <1>2, <1>3

LEMMA StepAddListed ==
  ASSUME LinuxAssumption, LinuxInv, AddListed
  PROVE  LinuxInv'
<1> USE DEF LinuxInv
<1>1. /\ UNCHANGED <<owned, text, taken, watching, subs, signals, stale>>
      /\ pc = "init" /\ \E n \in todo : todo' = todo \ {n} /\ PlayerAdded(n)
  BY DEF AddListed, world
<1>2. PICK n \in todo : todo' = todo \ {n} /\ PlayerAdded(n)
  BY <1>1
<1>3. n \in Names /\ pc \in {"init", "loop"} /\ UNCHANGED <<subs, taken>>
  BY <1>1, <1>2 DEF TypeOK
<1>4. ~watching /\ \A k \in Names : ~HasOwner(signals, k)
  BY <1>1 DEF Present, Heard
<1>5. /\ OneEach'
      /\ players' \in [Slots -> Entries \cup {Free}] /\ cur' \in Slots \cup {-1}
      /\ pc' \in {"init", "loop", "get_all_init", "get_all"}
      /\ taken' \cap Own' = {}
      /\ \A k \in Names \ {n} : (k \in unwatched' <=> k \in unwatched) /\ Named(k)' = Named(k)
      /\ n \notin unwatched' => Named(n)' # {}
      /\ ~watching /\ n \in unwatched => n \in unwatched'
      /\ unwatched' \subseteq unwatched \cup {n}
      /\ NoPlayerAdded(n) \/ \E s \in Slots : PlayerIsAdded(n, s)
  BY <1>2, <1>3, AddedFacts
<1>6. pc' \in {"init", "get_all_init"}
  BY <1>1, <1>5 DEF NoPlayerAdded, PlayerIsAdded
<1>7. TypeOK'
  BY <1>1, <1>2, <1>3, <1>5 DEF TypeOK, Entries
<1>8. Heard'
  BY <1>1 DEF Heard
<1>9. Present'
  <2>1. n \notin unwatched' => n \in owned
    BY <1>1, <1>2, <1>3, <1>4, <1>5 DEF Present
  <2>2. \A k \in Names \ {n} : k \notin unwatched' => (k \in owned <=> k \in todo' \/ Named(k)' # {})
    BY <1>1, <1>2, <1>4, <1>5 DEF Present
  <2> QED
    BY <1>1, <1>4, <1>5, <1>6, <2>1, <2>2 DEF Present
<1>10. Shown'
  BY <1>1, <1>3, <1>5, AddedShown
<1> QED
  BY <1>5, <1>7, <1>8, <1>9, <1>10

(* A signal is taken from the queue: its facts as one predicate.            *)
Taken(r) ==
  /\ r \in Seq(Signals) /\ Head(signals) \in Signals /\ Head(signals) = signals[1]
  /\ \A n : /\ HasOwner(signals, n) <=> HasOwner(r, n) \/ IsOwner(Head(signals), n)
            /\ HasChange(signals, n) <=> HasChange(r, n) \/ IsChange(Head(signals), n)
  /\ \A n : /\ IsOwner(Head(signals), n) /\ ~HasOwner(r, n) => LastOwner(signals, 1, n)
            /\ IsChange(Head(signals), n) /\ ~HasChange(r, n) => LastChange(signals, 1, n)
  /\ \A i, n : LastOwner(r, i, n) => LastOwner(signals, i + 1, n) /\ r[i] = signals[i + 1]
  /\ \A i, n : LastChange(r, i, n) => LastChange(signals, i + 1, n) /\ r[i] = signals[i + 1]

LEMMA TakenFacts ==
  ASSUME TypeOK, signals # <<>>
  PROVE  Taken(Tail(signals))
<1>1. signals \in Seq(Signals)
  BY DEF TypeOK
<1> QED
  BY <1>1, Popped, Zenon DEF Taken

(* What the rest of the queue says is what the queue said.                  *)
LEMMA HeardRest ==
  ASSUME Heard, NEW r, Taken(r)
  PROVE  \A n \in Names :
           /\ \A i : LastOwner(r, i, n) => (r[i].gone <=> n \notin owned)
           /\ \A i : LastChange(r, i, n) => n \in stale \/ r[i].text = text[n]
           /\ HasChange(r, n) => subs[n] = 1
           /\ HasOwner(r, n) => watching
BY DEF Heard, Taken

LEMMA StepAppeared ==
  ASSUME LinuxAssumption, LinuxInv, on_name_owner_appeared
  PROVE  LinuxInv'
<1> USE DEF LinuxInv
<1> DEFINE r == Tail(signals)
<1>0. PICK n : n = Head(signals).name
  OBVIOUS
<1>1. /\ UNCHANGED <<owned, text, taken, watching, subs, todo, stale>>
      /\ pc = "loop" /\ signals # <<>> /\ Head(signals).what = "owner" /\ ~Head(signals).gone
      /\ PlayerAdded(n) /\ signals' = r
  BY <1>0 DEF on_name_owner_appeared, world, Received
<1>2. Taken(r)
  BY <1>1, TakenFacts
<1>3. /\ r \in Seq(Signals) /\ n \in Names
      /\ IsOwner(Head(signals), n) /\ Head(signals) = signals[1]
      /\ \A k : ~IsChange(Head(signals), k) /\ (k # n => ~IsOwner(Head(signals), k))
  BY <1>0, <1>1, <1>2, SignalFacts DEF Taken, IsOwner, IsChange
<1>4. /\ \A k : k # n /\ ~HasOwner(r, k) => ~HasOwner(signals, k)
      /\ \A k : HasChange(signals, k) <=> HasChange(r, k)
      /\ ~HasOwner(r, n) => LastOwner(signals, 1, n)
  BY <1>2, <1>3 DEF Taken
<1> HIDE DEF r
<1>5. watching /\ (~HasOwner(r, n) => n \in owned)
  BY <1>1, <1>3, <1>4 DEF Heard, Present
<1>6. /\ OneEach'
      /\ players' \in [Slots -> Entries \cup {Free}] /\ cur' \in Slots \cup {-1}
      /\ pc' \in {"init", "loop", "get_all_init", "get_all"}
      /\ taken' \cap Own' = {}
      /\ \A k \in Names \ {n} : (k \in unwatched' <=> k \in unwatched) /\ Named(k)' = Named(k)
      /\ n \notin unwatched' => Named(n)' # {}
      /\ ~watching /\ n \in unwatched => n \in unwatched'
      /\ unwatched' \subseteq unwatched \cup {n}
      /\ NoPlayerAdded(n) \/ \E s \in Slots : PlayerIsAdded(n, s)
  BY <1>1, <1>3, AddedFacts
<1>7. pc' \in {"loop", "get_all"}
  BY <1>1, <1>6 DEF NoPlayerAdded, PlayerIsAdded
<1>8. TypeOK'
  BY <1>1, <1>3, <1>6 DEF TypeOK, Entries
<1>9. Heard'
  BY <1>1, <1>2, HeardRest DEF Heard
<1>10. Present'
  <2>1. \A k \in Names \ {n} : k \notin unwatched' /\ ~HasOwner(r, k) => (k \in owned <=> Named(k)' # {})
    BY <1>1, <1>4, <1>5, <1>6 DEF Present
  <2> QED
    BY <1>1, <1>5, <1>6, <1>7, <2>1 DEF Present
<1>11. Shown'
  BY <1>1, <1>3, <1>4, <1>6, AddedShown
<1> QED
  BY <1>6, <1>8, <1>9, <1>10, <1>11

LEMMA StepDrop ==
  ASSUME LinuxAssumption, LinuxInv, Drop
  PROVE  LinuxInv'
<1> USE DEF LinuxInv
<1> DEFINE r == Tail(signals)
<1>1. /\ UNCHANGED <<owned, text, taken, watching, subs, players, pc, todo, cur, unwatched, stale>>
      /\ signals # <<>> /\ Head(signals).what = "dropped" /\ signals' = r
  BY DEF Drop, world, unseen, Received
<1>2. Taken(r)
  BY <1>1, TakenFacts
<1>3. /\ \A k : ~IsOwner(Head(signals), k) /\ ~IsChange(Head(signals), k)
      /\ r \in Seq(Signals)
      /\ \A k : (HasOwner(r, k) <=> HasOwner(signals, k)) /\ (HasChange(r, k) <=> HasChange(signals, k))
  BY <1>1, <1>2 DEF Taken, IsOwner, IsChange
<1> HIDE DEF r
<1>4. Own' = Own /\ \A n : Named(n)' = Named(n)
  BY <1>1, TableFrame
<1>5. TypeOK'
  BY <1>1, <1>3, <1>4 DEF TypeOK
<1>6. OneEach'
  BY <1>1, <1>4, TableFrame, EachFrame DEF Adding, Asking
<1>7. Heard'
  BY <1>1, <1>2, HeardRest DEF Heard
<1>8. Present'
  BY <1>1, <1>3, <1>4 DEF Present
<1>9. Shown'
  BY <1>1, <1>3, <1>4 DEF Shown, Asking
<1> QED
  BY <1>5, <1>6, <1>7, <1>8, <1>9

LEMMA StepVanished ==
  ASSUME LinuxAssumption, LinuxInv, on_name_owner_vanished
  PROVE  LinuxInv'
<1> USE DEF LinuxInv
<1> DEFINE r == Tail(signals)
<1>0. PICK n : n = Head(signals).name
  OBVIOUS
<1>1. /\ UNCHANGED <<owned, text, taken, watching, pc, todo, cur, stale>>
      /\ pc = "loop" /\ signals # <<>> /\ Head(signals).what = "owner" /\ Head(signals).gone
      /\ players' = [s \in Slots |-> IF s \in Named(n) THEN Free ELSE players[s]]
      /\ IF Named(n) # {} THEN WithoutSubscription(n) ELSE signals' = r /\ UNCHANGED subs
      /\ unwatched' = unwatched \ {n}
  BY <1>0 DEF on_name_owner_vanished, world, Received
<1>2. Taken(r)
  BY <1>1, TakenFacts
<1>3. /\ r \in Seq(Signals) /\ n \in Names
      /\ IsOwner(Head(signals), n) /\ Head(signals) = signals[1]
      /\ \A k : ~IsChange(Head(signals), k) /\ (k # n => ~IsOwner(Head(signals), k))
  BY <1>0, <1>1, <1>2, SignalFacts DEF Taken, IsOwner, IsChange
<1>4. /\ \A k : k # n /\ ~HasOwner(r, k) => ~HasOwner(signals, k)
      /\ \A k : HasChange(signals, k) <=> HasChange(r, k)
      /\ ~HasOwner(r, n) => LastOwner(signals, 1, n)
  BY <1>2, <1>3 DEF Taken
<1> HIDE DEF r
<1>5. watching /\ (~HasOwner(r, n) => n \notin owned) /\ cur = -1 /\ ~Adding /\ -1 \notin Slots
  BY <1>1, <1>3, <1>4 DEF Heard, Present, OneEach, Adding, Asking, LinuxAssumption, Slots
<1>6. \A k \in Names : HasOwner(r, k) => watching
  BY <1>5
(* The table without the name. *)
<1>7. /\ Own' = Own \ Named(n) /\ Named(n)' = {}
      /\ \A s \in Own' : players'[s] = players[s]
      /\ \A k \in Names \ {n} : Named(k)' = Named(k)
  BY <1>1, OwnFacts DEF Own, Named
(* The queue without its changes. *)
<1>8. /\ signals' \in Seq(Signals)
      /\ \A k : HasOwner(signals', k) <=> HasOwner(r, k)
      /\ ~HasChange(signals', n)
      /\ \A k : HasChange(signals', k) => HasChange(r, k)
      /\ \A k : k # n /\ HasChange(r, k) => HasChange(signals', k)
      /\ \A i, k : LastOwner(signals', i, k) => LastOwner(r, i, k) /\ signals'[i] = r[i]
      /\ \A i, k : LastChange(signals', i, k) => LastChange(r, i, k) /\ signals'[i] = r[i]
  <2>1. CASE Named(n) # {}
    <3>1. Cleared(r, signals', n)
      BY <1>1, <2>1 DEF WithoutSubscription, Cleared, r
    <3>2. r \in Seq(Signals)
      BY <1>3
    <3> QED
      BY ONLY <3>1, <3>2, ChangesDropped, Zenon
  <2>2. CASE Named(n) = {}
    <3>1. signals' = r
      BY <1>1, <2>2
    <3>2. ~HasChange(r, n)
      BY <1>3, <1>4, <2>2 DEF Heard, OneEach
    <3> QED
      BY <3>1, <3>2, <1>3
  <2> QED
    BY <2>1, <2>2
<1>9. /\ subs' \in [Names -> 0..MaxPlayers] /\ subs'[n] = 0
      /\ \A k \in Names \ {n} : subs'[k] = subs[k]
  <2>1. CASE Named(n) # {}
    BY <1>1, <1>3, <2>1 DEF WithoutSubscription, TypeOK, LinuxAssumption
  <2>2. CASE Named(n) = {}
    BY <1>1, <1>3, <2>2 DEF OneEach, TypeOK
  <2> QED
    BY <2>1, <2>2
<1>10. TypeOK'
  <2>1. players' \in [Slots -> [name : Names, text : Texts \cup {NoText}] \cup {Free}]
    BY <1>1 DEF TypeOK
  <2> QED
    BY <1>1, <1>7, <1>8, <1>9, <2>1 DEF TypeOK
<1>11. OneEach'
  <2>1. \A s, q \in Own' : players'[s].name = players'[q].name => s = q
    BY <1>7 DEF OneEach
  <2>2. \A k \in Names : subs'[k] = IF Named(k)' \subseteq {cur} THEN 0 ELSE 1
    BY <1>7, <1>9 DEF OneEach
  <2>3. ~Adding'
    BY <1>1 DEF Adding, Asking
  <2> QED
    BY <1>1, <1>5, <2>1, <2>2, <2>3 DEF OneEach
<1>12. Heard'
  <2>1. \A k \in Names :
           /\ \A i : LastOwner(r, i, k) => (r[i].gone <=> k \notin owned)
           /\ \A i : LastChange(r, i, k) => k \in stale \/ r[i].text = text[k]
           /\ HasChange(r, k) => subs[k] = 1
    BY <1>2, HeardRest
  <2>2. \A k \in Names : HasChange(signals', k) => subs'[k] = 1
    BY <1>8, <1>9, <2>1
  <2> QED
    BY <1>1, <1>5, <1>8, <2>1, <2>2 DEF Heard
<1>13. Present'
  <2>1. \A k \in Names \ {n} : k \notin unwatched' /\ ~HasOwner(r, k) => (k \in owned <=> Named(k)' # {})
    BY <1>1, <1>4, <1>5, <1>7 DEF Present
  <2> QED
    BY <1>1, <1>5, <1>7, <1>8, <2>1 DEF Present
<1>14. Shown'
  <2>1. \A k, s : s \in Named(k)' => players'[s] = players[s]
    BY <1>7 DEF Named
  <2>2. \A k \in Names \ {n} : \/ k \in stale \/ HasChange(signals', k)
                               \/ \A s \in Named(k)' : players'[s].text = text[k]
    BY <1>4, <1>5, <1>7, <1>8, <2>1 DEF Shown, Adding
  <2> QED
    BY <1>1, <1>7, <2>2 DEF Shown
<1> QED
  BY <1>10, <1>11, <1>12, <1>13, <1>14

LEMMA StepPropertiesChanged ==
  ASSUME LinuxAssumption, LinuxInv, on_properties_changed
  PROVE  LinuxInv'
<1> USE DEF LinuxInv
<1> DEFINE r == Tail(signals)
<1>0. PICK m : m = Head(signals)
  OBVIOUS
<1>1. PICK n : n = m.name
  OBVIOUS
<1>2. /\ UNCHANGED <<owned, text, taken, watching, subs, pc, todo, cur, unwatched>>
      /\ pc = "loop" /\ signals # <<>> /\ m.what = "properties" /\ signals' = r
      /\ IF Named(n) = {} THEN UNCHANGED <<players, stale>>
         ELSE /\ players' = [players EXCEPT ![Min(Named(n))].text = m.text]
              /\ stale' = IF m.text = text[n] /\ Latest(m) THEN stale \ {n} ELSE stale
  BY <1>0, <1>1 DEF on_properties_changed, world, Received, Shows
<1>3. Taken(r)
  BY <1>2, TakenFacts
<1>4. /\ r \in Seq(Signals) /\ n \in Names /\ m.text \in Texts
      /\ IsChange(m, n) /\ m = signals[1]
      /\ \A k : ~IsOwner(m, k) /\ (k # n => ~IsChange(m, k))
  BY <1>0, <1>1, <1>2, <1>3, SignalFacts DEF Taken, IsOwner, IsChange
<1>5. /\ \A k : HasOwner(signals, k) <=> HasOwner(r, k)
      /\ \A k : k # n /\ HasChange(signals, k) => HasChange(r, k)
      /\ HasChange(signals, n)
      /\ ~HasChange(r, n) => LastChange(signals, 1, n)
  BY <1>0, <1>3, <1>4 DEF Taken
<1>6. Latest(m) => ~HasChange(r, n)
  <2>1. Len(signals) \in Nat /\ DOMAIN r = 1..(Len(signals) - 1) /\ \A i \in DOMAIN r : r[i] = signals[i + 1]
    BY <1>2 DEF TypeOK
  <2>2. \A i \in 1..(Len(signals) - 1) : i + 1 \in 2..Len(signals)
    BY <2>1
  <2> QED
    BY <1>1, <2>1, <2>2 DEF Latest, HasChange
<1> HIDE DEF r
<1>7. cur = -1 /\ ~Adding /\ subs[n] = 1
  BY <1>2, <1>4, <1>5 DEF OneEach, Adding, Asking, Heard
<1>8. PICK s \in Own : Named(n) = {s} /\ players[s].name = n
  BY <1>4, <1>7 DEF OneEach, Named
<1>9. /\ players' = [players EXCEPT ![s].text = m.text]
      /\ stale' = IF m.text = text[n] /\ Latest(m) THEN stale \ {n} ELSE stale
  <2>1. Named(n) \in SUBSET Slots /\ Named(n) # {}
    BY <1>8 DEF Own
  <2>2. Min(Named(n)) \in Named(n)
    BY <2>1, MinSlot, Zenon
  <2>3. Min(Named(n)) = s
    BY <2>2, <1>8
  <2> QED
    BY <2>1, <2>3, <1>2
<1>10. /\ players' \in [Slots -> Entries \cup {Free}] /\ Own' = Own
       /\ \A q \in Slots : players'[q].name = players[q].name
       /\ \A k : Named(k)' = Named(k)
       /\ players'[s].text = m.text
       /\ \A q \in Slots \ {s} : players'[q] = players[q]
  <2>1. m.text \in Texts \cup {NoText}
    BY <1>4
  <2> QED
    BY <1>9, <2>1, TextSet
<1>11. /\ \A k \in Names \ {n} : k \in stale' <=> k \in stale
       /\ stale' \subseteq stale /\ (n \in stale /\ n \notin stale' => m.text = text[n] /\ ~HasChange(r, n))
  BY <1>6, <1>9
<1>12. TypeOK'
  BY <1>2, <1>4, <1>10, <1>11 DEF TypeOK, Entries
<1>13. OneEach'
  BY <1>2, <1>10, EachFrame DEF Adding, Asking
<1>14. Heard'
  <2>1. \A k \in Names :
           /\ \A i : LastOwner(r, i, k) => (r[i].gone <=> k \notin owned)
           /\ \A i : LastChange(r, i, k) => k \in stale \/ r[i].text = text[k]
           /\ HasChange(r, k) => subs[k] = 1
           /\ HasOwner(r, k) => watching
    BY <1>3, HeardRest
  <2>2. \A i : LastChange(r, i, n) => HasChange(r, n)
    BY DEF LastChange, HasChange
  <2>3. \A k \in Names : \A i : LastChange(r, i, k) => k \in stale' \/ r[i].text = text[k]
    BY <1>11, <2>1, <2>2
  <2> QED
    BY <1>2, <2>1, <2>3 DEF Heard
<1>15. Present'
  BY <1>2, <1>5, <1>10 DEF Present
<1>16. Shown'
  <2>1. HasChange(r, n) \/ n \in stale' \/ m.text = text[n]
    BY <1>4, <1>5, <1>11 DEF Heard
  <2>2. \A k \in Names \ {n} : \A q \in Named(k) : players'[q] = players[q]
    BY <1>8, <1>10 DEF Named, Own
  <2>3. \A k \in Names \ {n} : \/ k \in stale' \/ HasChange(r, k)
                               \/ \A q \in Named(k) : players'[q].text = text[k]
    BY <1>5, <1>7, <1>11, <2>2 DEF Shown, Adding
  <2> QED
    BY <1>2, <1>8, <1>10, <2>1, <2>3 DEF Shown
<1> QED
  BY <1>12, <1>13, <1>14, <1>15, <1>16

-----------------------------------------------------------------------------
(* The bus.                                                                 *)

LEMMA QueuedFacts ==
  ASSUME TypeOK, NEW m \in Signals, Queued(<<m>>)
  PROVE  /\ signals' \in Seq(Signals)
         /\ \A n : /\ HasOwner(signals', n) <=> HasOwner(signals, n) \/ IsOwner(m, n)
                   /\ HasChange(signals', n) <=> HasChange(signals, n) \/ IsChange(m, n)
         /\ \A i, n : LastOwner(signals', i, n) =>
              IF IsOwner(m, n) THEN signals'[i] = m
              ELSE LastOwner(signals, i, n) /\ signals'[i] = signals[i]
         /\ \A i, n : LastChange(signals', i, n) =>
              IF IsChange(m, n) THEN signals'[i] = m
              ELSE LastChange(signals, i, n) /\ signals'[i] = signals[i]
<1>1. signals \in Seq(Signals) /\ Grown(signals, signals', m)
  BY DEF TypeOK, Queued, Grown
<1> QED
  BY ONLY <1>1, m \in Signals, Pushed, Zenon

LEMMA NothingQueued ==
  ASSUME TypeOK, Queued(<< >>)
  PROVE  signals' = signals
BY DEF TypeOK, Queued

(* A queue that grew by one signal about a name, or not at all.             *)
OwnerTold(n, gone) ==
  /\ signals' \in Seq(Signals)
  /\ watching => HasOwner(signals', n)
  /\ \A k : k # n => (HasOwner(signals', k) <=> HasOwner(signals, k))
  /\ \A k : HasChange(signals', k) <=> HasChange(signals, k)
  /\ \A i : LastOwner(signals', i, n) => watching /\ (signals'[i].gone <=> gone)
  /\ \A i, k : k # n /\ LastOwner(signals', i, k) => LastOwner(signals, i, k) /\ signals'[i] = signals[i]
  /\ \A i, k : LastChange(signals', i, k) => LastChange(signals, i, k) /\ signals'[i] = signals[i]
  /\ HasOwner(signals', n) => watching

LEMMA OwnerToldFacts ==
  ASSUME TypeOK, Heard, NEW n \in Names, NEW gone \in BOOLEAN, Queued(IfWatching(n, gone))
  PROVE  OwnerTold(n, gone)
<1>1. CASE watching
  <2> DEFINE m == OwnerChanged(n, gone)
  <2>1. m \in Signals /\ Queued(<<m>>)
    BY <1>1 DEF Signals, IfWatching
  <2>2. IsOwner(m, n) /\ m.gone = gone /\ \A k : ~IsChange(m, k) /\ (k # n => ~IsOwner(m, k))
    BY DEF IsOwner, IsChange, OwnerChanged
  <2> HIDE DEF m
  <2> QED
    BY <1>1, <2>1, <2>2, QueuedFacts DEF OwnerTold
<1>2. CASE ~watching
  <2>1. signals' = signals
    BY <1>2, NothingQueued DEF IfWatching
  <2>2. ~HasOwner(signals, n) /\ signals \in Seq(Signals)
    BY <1>2 DEF Heard, TypeOK
  <2>3. \A i : ~LastOwner(signals, i, n)
    BY <2>2 DEF HasOwner, LastOwner
  <2> QED
    BY <1>2, <2>1, <2>2, <2>3 DEF OwnerTold
<1> QED
  BY <1>1, <1>2

ChangeTold(n, t) ==
  /\ signals' \in Seq(Signals)
  /\ \A k : HasOwner(signals', k) <=> HasOwner(signals, k)
  /\ \A k : k # n => (HasChange(signals', k) <=> HasChange(signals, k))
  /\ subs[n] > 0 => HasChange(signals', n)
  /\ HasChange(signals', n) => subs[n] > 0
  /\ \A i, k : LastOwner(signals', i, k) => LastOwner(signals, i, k) /\ signals'[i] = signals[i]
  /\ \A i : LastChange(signals', i, n) => signals'[i].text = t
  /\ \A i, k : k # n /\ LastChange(signals', i, k) => LastChange(signals, i, k) /\ signals'[i] = signals[i]

LEMMA ChangeToldFacts ==
  ASSUME TypeOK, Heard, NEW n \in Names, NEW t \in Texts, Queued(IfSubscribed(n, t))
  PROVE  ChangeTold(n, t)
<1>1. CASE subs[n] > 0
  <2> DEFINE m == PropertiesChanged(n, t)
  <2>1. m \in Signals /\ Queued(<<m>>)
    BY <1>1 DEF Signals, IfSubscribed
  <2>2. IsChange(m, n) /\ m.text = t /\ \A k : ~IsOwner(m, k) /\ (k # n => ~IsChange(m, k))
    BY DEF IsOwner, IsChange, PropertiesChanged
  <2> HIDE DEF m
  <2> QED
    BY <1>1, <2>1, <2>2, QueuedFacts DEF ChangeTold
<1>2. CASE ~(subs[n] > 0)
  <2>1. signals' = signals
    BY <1>2, NothingQueued DEF IfSubscribed
  <2>2. ~HasChange(signals, n) /\ signals \in Seq(Signals)
    BY <1>2 DEF Heard, TypeOK
  <2>3. \A i : ~LastChange(signals, i, n)
    BY <2>2 DEF HasChange, LastChange
  <2> QED
    BY <1>2, <2>1, <2>2, <2>3 DEF ChangeTold
<1> QED
  BY <1>1, <1>2

(* What the bus does leaves the adapter's own state alone.                  *)
LEMMA LocalFrame ==
  ASSUME OneEach, UNCHANGED Local
  PROVE  /\ OneEach' /\ Own' = Own /\ (Asking' <=> Asking) /\ \A k : Named(k)' = Named(k)
         /\ UNCHANGED <<taken, watching, subs, players, pc, todo, cur>>
<1>1. UNCHANGED <<taken, watching, subs, players, pc, todo, cur>>
  BY DEF Local
<1> QED
  BY <1>1, TableFrame, EachFrame DEF Adding, Asking

LEMMA StepAppear ==
  ASSUME LinuxAssumption, LinuxInv, NEW n \in Names, NEW t \in Texts, Appear(n, t)
  PROVE  LinuxInv'
<1> USE DEF LinuxInv
<1>1. /\ owned' = owned \cup {n} /\ text' = [text EXCEPT ![n] = t] /\ stale' = stale \cup {n}
      /\ Queued(IfWatching(n, FALSE)) /\ ComesOrGoes(n) /\ UNCHANGED Local
  BY DEF Appear
<1>2. OwnerTold(n, FALSE)
  BY <1>1, OwnerToldFacts
<1>3. /\ OneEach' /\ Own' = Own /\ (Asking' <=> Asking) /\ \A k : Named(k)' = Named(k)
      /\ UNCHANGED <<taken, watching, subs, players, pc, todo, cur>>
  BY <1>1, LocalFrame
<1>4. text' \in [Names -> Texts] /\ \A k \in Names \ {n} : text'[k] = text[k]
  BY <1>1 DEF TypeOK
<1>5. unwatched' = IF watching THEN unwatched ELSE unwatched \cup {n}
  BY <1>1 DEF ComesOrGoes
<1>6. TypeOK'
  BY <1>1, <1>2, <1>3, <1>4, <1>5 DEF TypeOK, OwnerTold
<1>7. Heard'
  BY <1>1, <1>2, <1>3, <1>4 DEF Heard, OwnerTold
<1>8. Present'
  BY <1>1, <1>2, <1>3, <1>5 DEF Present, OwnerTold
<1>9. Shown'
  BY <1>1, <1>2, <1>3, <1>4 DEF Shown, OwnerTold
<1> QED
  BY <1>3, <1>6, <1>7, <1>8, <1>9

LEMMA StepVanish ==
  ASSUME LinuxAssumption, LinuxInv, NEW n \in Names, Vanish(n)
  PROVE  LinuxInv'
<1> USE DEF LinuxInv
<1>1. /\ owned' = owned \ {n} /\ UNCHANGED <<text, stale>>
      /\ Queued(IfWatching(n, TRUE)) /\ ComesOrGoes(n) /\ UNCHANGED Local
  BY DEF Vanish
<1>2. OwnerTold(n, TRUE)
  BY <1>1, OwnerToldFacts
<1>3. /\ OneEach' /\ Own' = Own /\ (Asking' <=> Asking) /\ \A k : Named(k)' = Named(k)
      /\ UNCHANGED <<taken, watching, subs, players, pc, todo, cur>>
  BY <1>1, LocalFrame
<1>4. unwatched' = IF watching THEN unwatched ELSE unwatched \cup {n}
  BY <1>1 DEF ComesOrGoes
<1>5. TypeOK'
  BY <1>1, <1>2, <1>3, <1>4 DEF TypeOK, OwnerTold
<1>6. Heard'
  BY <1>1, <1>2, <1>3 DEF Heard, OwnerTold
<1>7. Present'
  BY <1>1, <1>2, <1>3, <1>4 DEF Present, OwnerTold
<1>8. Shown'
  BY <1>1, <1>2, <1>3 DEF Shown, OwnerTold
<1> QED
  BY <1>3, <1>5, <1>6, <1>7, <1>8

LEMMA StepReplace ==
  ASSUME LinuxAssumption, LinuxInv, NEW n \in Names, NEW t \in Texts, Replace(n, t)
  PROVE  LinuxInv'
<1> USE DEF LinuxInv
<1>1. /\ n \in owned /\ UNCHANGED <<owned, unwatched>>
      /\ text' = [text EXCEPT ![n] = t] /\ stale' = stale \cup {n}
      /\ Queued(IfWatching(n, FALSE)) /\ UNCHANGED Local
  BY DEF Replace
<1>2. OwnerTold(n, FALSE)
  BY <1>1, OwnerToldFacts
<1>3. /\ OneEach' /\ Own' = Own /\ (Asking' <=> Asking) /\ \A k : Named(k)' = Named(k)
      /\ UNCHANGED <<taken, watching, subs, players, pc, todo, cur>>
  BY <1>1, LocalFrame
<1>4. text' \in [Names -> Texts] /\ \A k \in Names \ {n} : text'[k] = text[k]
  BY <1>1 DEF TypeOK
<1>5. TypeOK'
  BY <1>1, <1>2, <1>3, <1>4 DEF TypeOK, OwnerTold
<1>6. Heard'
  BY <1>1, <1>2, <1>3, <1>4 DEF Heard, OwnerTold
<1>7. Present'
  BY <1>1, <1>2, <1>3 DEF Present, OwnerTold, Heard
<1>8. Shown'
  BY <1>1, <1>2, <1>3, <1>4 DEF Shown, OwnerTold
<1> QED
  BY <1>3, <1>5, <1>6, <1>7, <1>8

LEMMA StepPlay ==
  ASSUME LinuxAssumption, LinuxInv, NEW n \in Names, NEW t \in Texts, Play(n, t)
  PROVE  LinuxInv'
<1> USE DEF LinuxInv
<1>1. /\ UNCHANGED <<owned, unwatched>> /\ text' = [text EXCEPT ![n] = t]
      /\ stale' = IF subs[n] = 0 THEN stale \cup {n} ELSE stale
      /\ Queued(IfSubscribed(n, t)) /\ UNCHANGED Local
  BY DEF Play
<1>2. ChangeTold(n, t)
  BY <1>1, ChangeToldFacts
<1>3. /\ OneEach' /\ Own' = Own /\ (Asking' <=> Asking) /\ \A k : Named(k)' = Named(k)
      /\ UNCHANGED <<taken, watching, subs, players, pc, todo, cur>>
  BY <1>1, LocalFrame
<1>4. /\ text' \in [Names -> Texts] /\ text'[n] = t
      /\ \A k \in Names \ {n} : text'[k] = text[k] /\ (k \in stale' <=> k \in stale)
  BY <1>1 DEF TypeOK
<1>5. subs[n] \in {0, 1}
  BY DEF OneEach
<1>6. HasChange(signals', n) \/ n \in stale'
  BY <1>1, <1>2, <1>5 DEF ChangeTold
<1>7. HasChange(signals', n) => subs[n] = 1
  BY <1>2, <1>5 DEF ChangeTold
<1>8. TypeOK'
  BY <1>1, <1>2, <1>3, <1>4 DEF TypeOK, ChangeTold
<1>9. Heard'
  BY <1>1, <1>2, <1>3, <1>4, <1>7 DEF Heard, ChangeTold
<1>10. Present'
  BY <1>1, <1>2, <1>3 DEF Present, ChangeTold
<1>11. Shown'
  BY <1>2, <1>3, <1>4, <1>6 DEF Shown, ChangeTold
<1> QED
  BY <1>3, <1>8, <1>9, <1>10, <1>11

LEMMA StepEvent ==
  ASSUME LinuxAssumption, LinuxInv, NEW s \in Slots, NEW t \in Texts, Event(s, t)
  PROVE  LinuxInv'
<1> USE DEF LinuxInv
<1>0. PICK n : n = players[s].name
  OBVIOUS
<1>1. /\ UNCHANGED <<owned, taken, watching, subs, pc, todo, cur, unwatched, stale>>
      /\ LockFree /\ s \in Own /\ text' = [text EXCEPT ![n] = t]
      /\ Queued(IfSubscribed(n, t)) /\ players' = [players EXCEPT ![s].text = t]
  BY <1>0 DEF Event, unseen
<1>2. n \in Names /\ s \in Named(n) /\ cur = -1 /\ ~Adding /\ -1 \notin Slots
  BY <1>0, <1>1, OwnFacts DEF Named, OneEach, LockFree, Adding, Asking, LinuxAssumption, Slots
<1>3. subs[n] = 1 /\ Named(n) = {s}
  BY <1>0, <1>1, <1>2 DEF OneEach, Named
<1>4. ChangeTold(n, t)
  BY <1>1, <1>2, ChangeToldFacts
<1>5. /\ players' \in [Slots -> Entries \cup {Free}] /\ Own' = Own
      /\ \A q \in Slots : players'[q].name = players[q].name
      /\ \A k : Named(k)' = Named(k)
      /\ \A q \in Slots \ {s} : players'[q] = players[q]
  <2>1. t \in Texts \cup {NoText}
    OBVIOUS
  <2> QED
    BY <1>1, <2>1, TextSet
<1>6. /\ text' \in [Names -> Texts] /\ text'[n] = t
      /\ \A k \in Names \ {n} : text'[k] = text[k]
  BY <1>1, <1>2 DEF TypeOK
<1>7. HasChange(signals', n)
  BY <1>3, <1>4 DEF ChangeTold
<1>8. TypeOK'
  BY <1>1, <1>4, <1>5, <1>6 DEF TypeOK, ChangeTold, Entries
<1>9. OneEach'
  BY <1>1, <1>5, EachFrame DEF Adding, Asking
<1>10. Heard'
  BY <1>1, <1>3, <1>4, <1>6 DEF Heard, ChangeTold
<1>11. Present'
  BY <1>1, <1>4, <1>5 DEF Present, ChangeTold
<1>12. Shown'
  <2>1. \A k \in Names \ {n} : \A q \in Named(k) : players'[q] = players[q]
    BY <1>3, <1>5, <1>0 DEF Named, Own
  <2>2. \A k \in Names \ {n} : \/ k \in stale \/ HasChange(signals', k)
                               \/ \A q \in Named(k) : players[q].text = text[k]
    BY <1>2, <1>4 DEF Shown, ChangeTold, Adding
  <2>3. \A k \in Names : \/ k \in stale \/ HasChange(signals', k)
                         \/ \A q \in Named(k) : players'[q].text = text'[k]
    BY <1>6, <1>7, <2>1, <2>2
  <2>4. stale' = stale
    BY <1>1
  <2> QED
    BY <1>5, <2>3, <2>4 DEF Shown
<1> QED
  BY <1>8, <1>9, <1>10, <1>11, <1>12

LEMMA StepOtherAdapter ==
  ASSUME LinuxAssumption, LinuxInv, NEW s \in Slots, OtherAdapter(s)
  PROVE  LinuxInv'
<1> USE DEF LinuxInv
<1>1. /\ UNCHANGED <<owned, text, watching, subs, signals, players, pc, todo, cur, unwatched, stale>>
      /\ s \notin Own /\ taken' = IF s \in taken THEN taken \ {s} ELSE taken \cup {s}
  BY DEF OtherAdapter, unseen
<1>2. Own' = Own /\ \A n : Named(n)' = Named(n)
  BY <1>1, TableFrame
<1>3. TypeOK'
  BY <1>1, <1>2 DEF TypeOK
<1>4. OneEach'
  BY <1>1, <1>2, TableFrame, EachFrame DEF Adding, Asking
<1>5. Heard' /\ Present' /\ Shown'
  BY <1>1, <1>2 DEF Heard, Present, Shown, Asking
<1> QED
  BY <1>3, <1>4, <1>5

LEMMA StepNothing ==
  ASSUME LinuxInv, UNCHANGED vars
  PROVE  LinuxInv'
<1>1. UNCHANGED <<owned, text, taken, watching, subs, signals, players, pc, todo, cur, unwatched, stale>>
  BY DEF vars, world, unseen
<1>2. Own' = Own /\ \A n : Named(n)' = Named(n)
  BY <1>1, TableFrame
<1> QED
  BY <1>1, <1>2 DEF LinuxInv, TypeOK, OneEach, Heard, Present, Shown, Adding, Asking

-----------------------------------------------------------------------------
(* Whatever the bus does at whatever moment of the adapter's start and of its *)
(* handlers (linux.c:357-625), the queue never lies about the last change it *)
(* holds, and a name nothing is queued about is in the table exactly if it  *)
(* has an owner.                                                            *)
THEOREM LinuxInvariant ==
  ASSUME LinuxAssumption
  PROVE  Spec => []LinuxInv
<1>1. Init => LinuxInv
  BY InitLinuxInv
<1>2. LinuxInv /\ [Next]_vars => LinuxInv'
  <2> SUFFICES ASSUME LinuxInv, [Next]_vars PROVE LinuxInv'
    OBVIOUS
  <2>1. CASE Adapter
    BY <2>1, StepListNames, StepAddListed, StepGetAll, StepSubscribe, StepWatch, StepAppeared,
       StepVanished, StepPropertiesChanged, StepDrop DEF Adapter
  <2>2. ASSUME NEW n \in Names, Vanish(n) PROVE LinuxInv'
    BY <2>2, StepVanish
  <2>3. ASSUME NEW n \in Names, NEW t \in Texts, Appear(n, t) \/ Replace(n, t) \/ Play(n, t)
        PROVE  LinuxInv'
    BY <2>3, StepAppear, StepReplace, StepPlay
  <2>4. ASSUME NEW s \in Slots, OtherAdapter(s) \/ \E t \in Texts : Event(s, t)
        PROVE  LinuxInv'
    BY <2>4, StepOtherAdapter, StepEvent
  <2>5. CASE UNCHANGED vars
    BY <2>5, StepNothing
  <2> QED
    BY <2>1, <2>2, <2>3, <2>4, <2>5 DEF Next
<1> QED
  BY <1>1, <1>2, PTL DEF Spec

(* The types of the adapter's state (linux.c), for any number of names,     *)
(* texts and slots.                                                         *)
THEOREM LinuxTypeOK ==
  ASSUME LinuxAssumption
  PROVE  Spec => []TypeOK
<1>1. LinuxInv => TypeOK
  BY DEF LinuxInv
<1> QED
  BY <1>1, LinuxInvariant, PTL

(* linux.c:403-409, 486, 645: outside a cycle a name has one player at most  *)
(* and as many subscriptions as players.                                    *)
THEOREM LinuxOneSubscriptionEach ==
  ASSUME LinuxAssumption
  PROVE  Spec => []OneSubscriptionEach
<1>1. LinuxInv => OneSubscriptionEach
  <2> SUFFICES ASSUME LinuxInv, LockFree, NEW n \in Names
               PROVE  Cardinality(Named(n)) <= 1 /\ subs[n] = Cardinality(Named(n))
    BY DEF OneSubscriptionEach
  <2>1. cur = -1 /\ -1 \notin Slots
    BY DEF LinuxInv, OneEach, LockFree, Adding, Asking, LinuxAssumption, Slots
  <2>2. CASE Named(n) = {}
    BY <2>2, FS_EmptySet DEF LinuxInv, OneEach
  <2>3. CASE Named(n) # {}
    <3>1. PICK s : Named(n) = {s} /\ s \in Slots
      BY <2>3 DEF LinuxInv, OneEach, Named, Own
    <3>2. Cardinality(Named(n)) = 1
      BY <3>1, FS_Singleton
    <3>3. subs[n] = 1
      BY <3>1, <2>1 DEF LinuxInv, OneEach
    <3> QED
      BY <3>2, <3>3
  <2> QED
    BY <2>2, <2>3
<1> QED
  BY <1>1, LinuxInvariant, PTL

(* linux.c:520-543, 607-610: with no signal left to handle the table is the  *)
(* bus, up to the listed losses.                                            *)
THEOREM LinuxFollowsBus ==
  ASSUME LinuxAssumption
  PROVE  Spec => []FollowsBus
<1>1. LinuxInv => FollowsBus
  <2> SUFFICES ASSUME LinuxInv, Idle, NEW n \in Names \ unwatched
               PROVE  /\ Named(n) # {} <=> n \in owned
                      /\ \A s \in Named(n) : n \in stale \/ players[s].text = text[n]
    BY DEF FollowsBus
  <2>1. ~HasOwner(signals, n) /\ ~HasChange(signals, n) /\ pc = "loop" /\ ~Asking
    BY DEF Idle, HasOwner, HasChange, Asking
  <2> QED
    BY <2>1 DEF LinuxInv, Present, Shown
<1> QED
  BY <1>1, LinuxInvariant, PTL

=============================================================================
