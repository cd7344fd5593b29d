------------------------- MODULE WindowsAdapterProofs -------------------------
(***************************************************************************)
(* The Windows adapter, for any number of slots, sessions and application  *)
(* ids: the types of its state, and what a cycle that got the list of the  *)
(* sessions leaves of the players that were there when it began.           *)
(***************************************************************************)
EXTENDS WindowsAdapter, TLAPS, WellFoundedInduction

(* The slots the cycle still reads hold players.                           *)
CycleInOwn ==
  /\ pc \in {"list", "match"} => snapshot \subseteq Own
  /\ pc = "refresh" => todo \subseteq Own
  /\ pc # "refresh" => todo = {}

OfItsApp == \A s \in Own : app[players[s].session] = players[s].app

(* The first loop has taken the mark only off the first player of each       *)
(* application id, as _windows_get_player_from_session_id finds no other;    *)
(* the second loop leaves no mark behind it.                                *)
First(id)  == Min({s \in snapshot : players[s].app = id})
Unmarked   == {s \in snapshot \cap Own : ~players[s].should_remove}

Survivors ==
  /\ pc = "list" => Unmarked = {}
  /\ pc = "match" => \A s \in Unmarked : s = First(players[s].app)
  /\ pc = "refresh" => /\ \A s, r \in Unmarked : players[s].app = players[r].app => s = r
                       /\ (snapshot \cap Own) \ todo \subseteq Unmarked

WindowsInv == TypeOK /\ CycleInOwn /\ OfItsApp /\ Survivors

LEMMA MinOf ==
  ASSUME NEW T \in SUBSET Nat, T # {}
  PROVE  Min(T) \in T
<1>1. PICK x \in T : \A y \in T : ~(<<y, x>> \in OpToRel(<, Nat))
  BY NatLessThanWellFounded, WFMin, Zenon
<1>2. \A y \in T : x <= y
  <2> SUFFICES ASSUME NEW y \in T PROVE x <= y
    OBVIOUS
  <2>1. <<y, x>> \notin OpToRel(<, Nat)
    BY <1>1, Zenon
  <2> QED
    BY <2>1 DEF OpToRel
<1> QED
  BY <1>2, Zenon DEF Min

LEMMA FreeIsNoPlayer == Free \notin Players
BY DEF Free, Players

LEMMA OwnAre ==
  ASSUME TypeOK
  PROVE  /\ Own \subseteq Slots
         /\ \A s \in Own : /\ players[s] \in Players
                           /\ players[s].app \in Apps /\ players[s].session \in Sessions
                           /\ players[s].should_remove \in BOOLEAN
         /\ \A s \in Slots \ Own : players[s] = Free
BY DEF TypeOK, Own, Players

LEMMA InitInv == WindowsAssumption /\ Init => WindowsInv
<1> SUFFICES ASSUME WindowsAssumption, Init PROVE WindowsInv
  OBVIOUS
<1>1. Own = {}
  BY DEF Init, Own
<1> QED
  BY <1>1 DEF Init, WindowsInv, TypeOK, CycleInOwn, OfItsApp, Survivors

(* Steps that leave the table and the cycle alone.                          *)
LEMMA WorldInv ==
  ASSUME WindowsInv,
         app' = app, open' \subseteq Sessions, text' \in [Sessions -> Texts],
         taken' \subseteq Slots, taken' \cap Own = {},
         UNCHANGED <<players, thread>>
  PROVE  WindowsInv'
<1>1. Own' = Own /\ Unmarked' = Unmarked /\ \A id : First(id)' = First(id)
  BY DEF Own, Unmarked, First, thread
<1> QED
  BY <1>1 DEF WindowsInv, TypeOK, CycleInOwn, OfItsApp, Survivors, thread

LEMMA WakeInv == ASSUME WindowsInv, Wake PROVE WindowsInv'
<1>1. Own' = Own
  BY DEF Own, Wake
<1> QED
  BY <1>1 DEF Wake, world, WindowsInv, TypeOK, CycleInOwn, OfItsApp, Survivors

LEMMA StartInv == ASSUME WindowsInv, StartCycle PROVE WindowsInv'
<1>1. TypeOK
  BY DEF WindowsInv
<1>2. players' = [s \in Slots |-> IF s \in Own THEN [players[s] EXCEPT !.should_remove = TRUE] ELSE Free]
  BY DEF StartCycle
<1>3. ASSUME NEW s \in Own
      PROVE  /\ players'[s] \in Players /\ players'[s] # Free
             /\ players'[s].session = players[s].session /\ players'[s].app = players[s].app
             /\ players'[s].should_remove = TRUE
  <2>1. players'[s] = [players[s] EXCEPT !.should_remove = TRUE] /\ players[s] \in Players
    BY <1>1, <1>2, <1>3, OwnAre
  <2>2. players'[s] \in Players
    BY <2>1 DEF Players
  <2> QED
    BY <2>1, <2>2, FreeIsNoPlayer DEF Players
<1>4. \A s \in Slots \ Own : players'[s] = Free
  BY <1>2
<1>5. Own' = Own
  BY <1>1, <1>3, <1>4, OwnAre DEF Own
<1>6. players' \in [Slots -> Players \cup {Free}]
  <2>1. \A s \in Slots : players'[s] \in Players \cup {Free}
    BY <1>3, <1>4
  <2> QED
    BY <1>2, <2>1
<1>7. Unmarked' = {}
  BY <1>3, <1>5 DEF Unmarked
<1>8. TypeOK'
  BY <1>1, <1>5, <1>6, OwnAre DEF StartCycle, world, TypeOK, WindowsInv, CycleInOwn
<1>9. OfItsApp'
  BY <1>3, <1>5 DEF StartCycle, world, WindowsInv, OfItsApp
<1>10. CycleInOwn'
  BY <1>5 DEF StartCycle, WindowsInv, CycleInOwn
<1> QED
  BY <1>7, <1>8, <1>9, <1>10 DEF StartCycle, WindowsInv, Survivors

LEMMA ListInv == ASSUME WindowsInv, GetSessions \/ NoSessions PROVE WindowsInv'
<1>1. Own' = Own
  BY DEF Own, GetSessions, NoSessions
<1>2. CASE GetSessions
  <2>1. Unmarked' = {}
    BY <1>1, <1>2 DEF GetSessions, Unmarked, WindowsInv, Survivors
  <2> QED
    BY <1>1, <1>2, <2>1 DEF GetSessions, world, WindowsInv, TypeOK, CycleInOwn, OfItsApp, Survivors
<1>3. CASE NoSessions
  BY <1>1, <1>3 DEF NoSessions, world, WindowsInv, TypeOK, CycleInOwn, OfItsApp, Survivors
<1> QED
  BY <1>2, <1>3

(* The player the loop matches is of the session's application id, and no    *)
(* player of the snapshot leaves its id.                                    *)
LEMMA KnownInv == ASSUME WindowsInv, pc = "match", NEW session \in listed, Known(session),
                         listed' = listed \ {session}, UNCHANGED <<world, pc, odd, snapshot, todo>>
                  PROVE  WindowsInv'
<1>1. TypeOK /\ snapshot \subseteq Own /\ session \in Sessions
  BY DEF WindowsInv, CycleInOwn, TypeOK
<1> DEFINE s == Min(WithAppId(session))
<1>2. s \in snapshot /\ players[s].app = app[session] /\ s = First(app[session])
  <2>1. WithAppId(session) \in SUBSET Nat
    BY <1>1, OwnAre DEF WithAppId, Slots
  <2>2. s \in WithAppId(session)
    BY <2>1, MinOf DEF Known
  <2>3. WithAppId(session) = {r \in snapshot : players[r].app = app[session]}
    BY DEF WithAppId
  <2> QED
    BY <2>2, <2>3 DEF WithAppId, First
<1>3. players' = [players EXCEPT ![s].session = session, ![s].should_remove = FALSE]
  BY DEF Known
<1> HIDE DEF s
<1>4. s \in Own /\ s \in Slots /\ players[s] \in Players
  BY <1>1, <1>2, OwnAre
<1>5. /\ players'[s] \in Players /\ players'[s] # Free
      /\ players'[s].session = session /\ players'[s].app = app[session]
      /\ players'[s].should_remove = FALSE
  <2>1. players'[s] = [[players[s] EXCEPT !.session = session] EXCEPT !.should_remove = FALSE]
    BY <1>1, <1>3, <1>4 DEF TypeOK
  <2>2. players'[s] \in Players
    BY <1>1, <1>4, <2>1 DEF Players
  <2>3. /\ players'[s].session = session /\ players'[s].app = players[s].app
        /\ players'[s].should_remove = FALSE
    BY <1>4, <2>1 DEF Players
  <2> QED
    BY <1>2, <2>2, <2>3, FreeIsNoPlayer
<1>6. \A r \in Slots : r # s => players'[r] = players[r]
  BY <1>1, <1>3 DEF TypeOK
<1>7. Own' = Own
  BY <1>1, <1>4, <1>5, <1>6, OwnAre DEF Own
<1>8. players' \in [Slots -> Players \cup {Free}]
  <2>1. \A r \in Slots : players'[r] \in Players \cup {Free}
    BY <1>1, <1>5, <1>6 DEF TypeOK
  <2>2. players' = [r \in Slots |-> players'[r]]
    BY <1>1, <1>3 DEF TypeOK
  <2> QED
    BY <2>1, <2>2
<1>9. TypeOK'
  BY <1>1, <1>7, <1>8 DEF world, TypeOK
<1>10. CycleInOwn'
  BY <1>7 DEF WindowsInv, CycleInOwn
<1>11. OfItsApp'
  BY <1>1, <1>5, <1>6, <1>7, OwnAre DEF world, WindowsInv, OfItsApp
<1>12. \A r \in snapshot : players'[r].app = players[r].app
  BY <1>1, <1>2, <1>5, <1>6, OwnAre
<1>13. \A id : First(id)' = First(id)
  <2> SUFFICES ASSUME NEW id PROVE First(id)' = First(id)
    OBVIOUS
  <2>1. {r \in snapshot' : players'[r].app = id} = {r \in snapshot : players[r].app = id}
    BY <1>12
  <2> QED
    BY <2>1 DEF First
<1>14. Unmarked' \subseteq Unmarked \cup {s}
  BY <1>1, <1>6, <1>7, OwnAre DEF Unmarked
<1>15. Survivors'
  <2>1. ASSUME NEW r \in Unmarked' PROVE r = First(players'[r].app)
    <3>1. CASE r = s
      BY <1>2, <1>5, <3>1
    <3>2. CASE r \in Unmarked /\ r # s
      BY <1>1, <1>6, <3>2, OwnAre DEF Unmarked, WindowsInv, Survivors
    <3> QED
      BY <1>14, <2>1, <3>1, <3>2
  <2> QED
    BY <1>13, <2>1 DEF Survivors
<1> QED
  BY <1>9, <1>10, <1>11, <1>15 DEF WindowsInv

LEMMA AddedInv == ASSUME WindowsAssumption, WindowsInv, pc = "match", NEW session \in listed, Added(session),
                         listed' = listed \ {session}, UNCHANGED <<world, pc, odd, snapshot, todo>>
                  PROVE  WindowsInv'
<1>1. TypeOK /\ snapshot \subseteq Own /\ session \in Sessions
  BY DEF WindowsInv, CycleInOwn, TypeOK
<1> DEFINE s == Min(Slots \ InUse)
           new == NewPlayer(session)
<1>2. s \in Slots /\ s \notin Own /\ s \notin taken
  <2>1. Slots \ InUse \in SUBSET Nat /\ Slots \ InUse # {}
    <3>1. InUse \subseteq Slots /\ InUse # Slots
      BY <1>1 DEF Added, InUse, TypeOK, Own
    <3>2. Slots \subseteq Nat
      BY DEF Slots
    <3> QED
      BY <3>1, <3>2
  <2>2. s \in Slots \ InUse
    BY <2>1, MinOf
  <2> QED
    BY <2>2 DEF InUse
<1>3. players' = [players EXCEPT ![s] = new]
  BY DEF Added
<1>4. /\ new \in Players /\ new # Free
      /\ new.session = session /\ new.app = app[session]
  <2>1. new \in Players
    BY <1>1 DEF NewPlayer, Players, TypeOK
  <2> QED
    BY <2>1, FreeIsNoPlayer DEF NewPlayer
<1> HIDE DEF s, new
<1>5. players'[s] = new /\ \A r \in Slots : r # s => players'[r] = players[r]
  BY <1>1, <1>2, <1>3 DEF TypeOK
<1>6. Own' = Own \cup {s}
  BY <1>1, <1>2, <1>4, <1>5, OwnAre DEF Own
<1>7. players' \in [Slots -> Players \cup {Free}]
  BY <1>1, <1>3, <1>4 DEF TypeOK
<1>8. TypeOK'
  BY <1>1, <1>2, <1>6, <1>7 DEF world, TypeOK
<1>9. CycleInOwn'
  BY <1>6 DEF WindowsInv, CycleInOwn
<1>10. OfItsApp'
  BY <1>1, <1>2, <1>4, <1>5, <1>6, OwnAre DEF world, WindowsInv, OfItsApp
<1>11. \A r \in snapshot : players'[r] = players[r] /\ r # s
  BY <1>1, <1>2, <1>5, OwnAre
<1>12. \A id : First(id)' = First(id)
  <2> SUFFICES ASSUME NEW id PROVE First(id)' = First(id)
    OBVIOUS
  <2>1. {r \in snapshot' : players'[r].app = id} = {r \in snapshot : players[r].app = id}
    BY <1>11
  <2> QED
    BY <2>1 DEF First
<1>13. Unmarked' = Unmarked
  BY <1>6, <1>11 DEF Unmarked
<1>14. Survivors'
  BY <1>11, <1>12, <1>13 DEF WindowsInv, Survivors, Unmarked
<1> QED
  BY <1>8, <1>9, <1>10, <1>14 DEF WindowsInv

LEMMA MatchInv == ASSUME WindowsAssumption, WindowsInv, Match PROVE WindowsInv'
<1>1. PICK session \in listed : /\ Known(session) \/ Added(session) \/ NoRoom(session)
                                /\ listed' = listed \ {session}
  BY DEF Match
<1>2. pc = "match" /\ UNCHANGED <<world, pc, odd, snapshot, todo>>
  BY DEF Match
<1>3. CASE Known(session)
  BY <1>1, <1>2, <1>3, KnownInv
<1>4. CASE Added(session)
  BY <1>1, <1>2, <1>4, AddedInv
<1>5. CASE NoRoom(session)
  <2>1. players' = players
    BY <1>5 DEF NoRoom
  <2>2. Own' = Own /\ Unmarked' = Unmarked /\ \A id : First(id)' = First(id)
    BY <1>2, <2>1 DEF Own, Unmarked, First
  <2> QED
    BY <1>1, <1>2, <2>1, <2>2 DEF WindowsInv, TypeOK, CycleInOwn, OfItsApp, Survivors, world
<1> QED
  BY <1>1, <1>3, <1>4, <1>5

LEMMA MatchedInv == ASSUME WindowsInv, Matched PROVE WindowsInv'
<1>1. /\ pc = "match" /\ pc' = "refresh" /\ todo' = snapshot /\ snapshot' = snapshot
      /\ players' = players /\ app' = app /\ snapshot \subseteq Own
  BY DEF Matched, Copied, world, WindowsInv, CycleInOwn
<1>2. Own' = Own /\ Unmarked' = Unmarked
  BY <1>1 DEF Own, Unmarked
<1>3. \A s, r \in Unmarked : players[s].app = players[r].app => s = r
  BY <1>1 DEF WindowsInv, Survivors
<1>4. TypeOK'
  BY <1>1, <1>2 DEF Matched, world, WindowsInv, TypeOK
<1> QED
  BY <1>1, <1>2, <1>3, <1>4 DEF WindowsInv, CycleInOwn, OfItsApp, Survivors

LEMMA RefreshInv == ASSUME WindowsInv, NEW s \in Slots, Refresh(s) \/ RefreshFails(s) PROVE WindowsInv'
<1>1. /\ pc = "refresh" /\ pc' = "refresh" /\ todo' = todo \ {s} /\ snapshot' = snapshot
      /\ app' = app /\ text' = text /\ taken' = taken /\ open' = open /\ odd' = odd /\ listed' = listed
      /\ todo # {} /\ s = Min(todo)
  BY DEF Refresh, RefreshFails, world
<1>2. TypeOK /\ todo \subseteq Own /\ todo \subseteq snapshot
  BY <1>1 DEF WindowsInv, CycleInOwn, TypeOK
<1>3. s \in todo /\ s \in Own
  <2>1. todo \in SUBSET Nat
    BY <1>2, OwnAre DEF Slots
  <2> QED
    BY <1>1, <1>2, <2>1, MinOf
<1>4. /\ players[s] \in Players /\ players[s].session \in Sessions /\ players[s].app \in Apps
      /\ players[s].should_remove \in BOOLEAN
  BY <1>2, <1>3, OwnAre
<1>5. CASE Refresh(s) /\ players[s].should_remove
  <2>1. players' = [players EXCEPT ![s] = Free]
    BY <1>5 DEF Refresh
  <2>2. players'[s] = Free /\ \A r \in Slots : r # s => players'[r] = players[r]
    BY <1>2, <2>1 DEF TypeOK
  <2>3. Own' = Own \ {s} /\ Own \subseteq Slots
    BY <1>2, <2>2, OwnAre DEF Own
  <2>4. players' \in [Slots -> Players \cup {Free}]
    BY <1>2, <2>1 DEF TypeOK
  <2>5. Unmarked' = Unmarked \ {s}
    BY <1>1, <2>2, <2>3 DEF Unmarked
  <2>6. TypeOK'
    BY <1>1, <1>2, <2>3, <2>4 DEF TypeOK
  <2>7. \A r \in Own' : players'[r] = players[r]
    BY <2>2, <2>3
  <2> QED
    BY <1>1, <1>2, <2>3, <2>5, <2>6, <2>7 DEF WindowsInv, CycleInOwn, OfItsApp, Survivors, Unmarked
<1>6. CASE ~players[s].should_remove
  <2>1. players' = players \/ players' = [players EXCEPT ![s].text = text[players[s].session]]
    BY <1>6 DEF Refresh, RefreshFails
  <2>2. /\ players'[s] \in Players /\ players'[s] # Free
        /\ players'[s].session = players[s].session /\ players'[s].app = players[s].app
        /\ players'[s].should_remove = players[s].should_remove
    <3>1. CASE players' = players
      BY <1>4, <3>1, FreeIsNoPlayer
    <3>2. CASE players' = [players EXCEPT ![s].text = text[players[s].session]]
      <4>1. players'[s] = [players[s] EXCEPT !.text = text[players[s].session]]
        BY <1>2, <3>2 DEF TypeOK
      <4>2. text[players[s].session] \in Texts
        BY <1>2, <1>4 DEF TypeOK
      <4>3. players'[s] \in Players
        BY <1>4, <4>1, <4>2 DEF Players
      <4> QED
        BY <1>4, <4>1, <4>3, FreeIsNoPlayer DEF Players
    <3> QED
      BY <2>1, <3>1, <3>2
  <2>3. /\ \A r \in Slots : r # s => players'[r] = players[r]
        /\ players' = [r \in Slots |-> players'[r]]
    BY <1>2, <2>1 DEF TypeOK
  <2>4. players' \in [Slots -> Players \cup {Free}]
    <3>1. \A r \in Slots : players'[r] \in Players \cup {Free}
      BY <1>2, <2>2, <2>3 DEF TypeOK
    <3> QED
      BY <2>3, <3>1
  <2>5. Own' = Own /\ Own \subseteq Slots
    BY <1>2, <1>3, <2>2, <2>3, OwnAre DEF Own
  <2>6. \A r \in Own : /\ players'[r].session = players[r].session /\ players'[r].app = players[r].app
                       /\ players'[r].should_remove = players[r].should_remove
    BY <2>2, <2>3, <2>5
  <2>7. Unmarked' = Unmarked /\ s \in Unmarked
    BY <1>1, <1>2, <1>3, <1>6, <2>5, <2>6 DEF Unmarked
  <2>8. TypeOK'
    BY <1>1, <1>2, <2>4, <2>5 DEF TypeOK
  <2> QED
    BY <1>1, <1>2, <2>5, <2>6, <2>7, <2>8 DEF WindowsInv, CycleInOwn, OfItsApp, Survivors, Unmarked
<1>7. RefreshFails(s) => ~players[s].should_remove
  BY DEF RefreshFails
<1> QED
  BY <1>4, <1>5, <1>6, <1>7

LEMMA EndInv == ASSUME WindowsInv, EndCycle \/ Positions PROVE WindowsInv'
<1>1. Own' = Own
  BY DEF Own, EndCycle, Positions
<1>2. CASE EndCycle
  BY <1>1, <1>2 DEF EndCycle, world, WindowsInv, TypeOK, CycleInOwn, OfItsApp, Survivors
<1>3. CASE Positions
  BY <1>1, <1>3 DEF Positions, world, WindowsInv, TypeOK, CycleInOwn, OfItsApp, Survivors
<1> QED
  BY <1>2, <1>3

LEMMA EventInv == ASSUME WindowsInv, NEW s \in Slots, NEW t \in Texts, Event(s, t) PROVE WindowsInv'
<1>1. /\ pc \in {"wait", "start", "position"} /\ s \in Own /\ TypeOK
      /\ app' = app /\ open' = open /\ taken' = taken /\ UNCHANGED thread
      /\ text' = [text EXCEPT ![players[s].session] = t]
      /\ players' = [players EXCEPT ![s].text = t]
  BY DEF Event, LockFree, WindowsInv
<1>2. players[s] \in Players
  BY <1>1, OwnAre
<1>3. /\ players'[s] = [players[s] EXCEPT !.text = t]
      /\ \A r \in Slots : r # s => players'[r] = players[r]
  BY <1>1 DEF TypeOK
<1>4. players'[s] \in Players
  BY <1>2, <1>3 DEF Players
<1>5. players'[s] # Free /\ players'[s].session = players[s].session /\ players'[s].app = players[s].app
  BY <1>2, <1>3, <1>4, FreeIsNoPlayer DEF Players
<1>6. Own' = Own /\ Own \subseteq Slots
  BY <1>1, <1>3, <1>5, OwnAre DEF Own
<1>7. players' \in [Slots -> Players \cup {Free}]
  BY <1>1, <1>3, <1>4 DEF TypeOK
<1>8. text' \in [Sessions -> Texts]
  BY <1>1 DEF TypeOK
<1>9. TypeOK'
  BY <1>1, <1>6, <1>7, <1>8 DEF TypeOK, thread
<1> QED
  BY <1>1, <1>3, <1>5, <1>6, <1>9 DEF WindowsInv, CycleInOwn, OfItsApp, Survivors, thread

LEMMA StepInv ==
  ASSUME WindowsAssumption, WindowsInv, [Next]_vars
  PROVE  WindowsInv'
<1>0. TypeOK
  BY DEF WindowsInv
<1>1. CASE Poll
  BY <1>1, WakeInv, StartInv, ListInv, MatchInv, MatchedInv, RefreshInv, EndInv DEF Poll
<1>2. ASSUME NEW session \in Sessions, Open(session) \/ Close(session) PROVE WindowsInv'
  BY <1>0, <1>2, WorldInv DEF Open, Close, TypeOK
<1>3. ASSUME NEW session \in Sessions, NEW t \in Texts, Show(session, t) PROVE WindowsInv'
  BY <1>0, <1>3, WorldInv DEF Show, TypeOK
<1>4. ASSUME NEW s \in Slots, OtherAdapter(s) PROVE WindowsInv'
  BY <1>0, <1>4, WorldInv DEF OtherAdapter, TypeOK
<1>5. ASSUME NEW s \in Slots, NEW t \in Texts, Event(s, t) PROVE WindowsInv'
  BY <1>5, EventInv
<1>6. CASE UNCHANGED vars
  BY <1>0, <1>6, WorldInv DEF vars, world, thread, TypeOK
<1> QED
  BY <1>1, <1>2, <1>3, <1>4, <1>5, <1>6 DEF Next

(* windows.cpp:345-453: the types of the adapter's state, in every round of   *)
(* its thread, whatever the system does to its sessions between two steps.    *)
THEOREM WindowsTypes ==
  ASSUME WindowsAssumption
  PROVE  Spec => [](TypeOK /\ OfItsApp)
<1>1. Init => WindowsInv
  BY InitInv
<1>2. WindowsInv /\ [Next]_vars => WindowsInv'
  BY StepInv
<1>3. WindowsInv => TypeOK /\ OfItsApp
  BY DEF WindowsInv
<1> QED
  BY <1>1, <1>2, <1>3, PTL DEF Spec

(* What a cycle leaves of the players it began with: none that is marked,    *)
(* and of each application id at most one, although several sessions of one   *)
(* id may have come and gone meanwhile.                                     *)
LeavesOneEach ==
  EndCycle => \A s \in snapshot \cap Own :
                /\ ~players'[s].should_remove
                /\ \A r \in snapshot \cap Own : players'[s].app = players'[r].app => s = r

(* windows.cpp:345-419: a cycle that got the list of the sessions ends with   *)
(* the players of the ones that are gone removed, and with no two of those    *)
(* it began with of one application id.                                     *)
THEOREM WindowsCycles ==
  ASSUME WindowsAssumption
  PROVE  Spec => [][LeavesOneEach]_vars
<1>1. Init => WindowsInv
  BY InitInv
<1>2. WindowsInv /\ [Next]_vars => WindowsInv'
  BY StepInv
<1>3. WindowsInv => LeavesOneEach
  <2> SUFFICES ASSUME WindowsInv, EndCycle
               PROVE  \A s \in snapshot \cap Own :
                        /\ ~players'[s].should_remove
                        /\ \A r \in snapshot \cap Own : players'[s].app = players'[r].app => s = r
    BY DEF LeavesOneEach
  <2>1. pc = "refresh" /\ todo = {} /\ players' = players
    BY DEF EndCycle
  <2>2. /\ \A s, r \in Unmarked : players[s].app = players[r].app => s = r
        /\ snapshot \cap Own \subseteq Unmarked
    BY <2>1 DEF WindowsInv, Survivors
  <2> QED
    BY <2>1, <2>2 DEF Unmarked
<1> QED
  BY <1>1, <1>2, <1>3, PTL DEF Spec
=============================================================================
