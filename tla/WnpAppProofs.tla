----------------------------- MODULE WnpAppProofs -----------------------------
(***************************************************************************)
(* The library core, and the applications that listen to it.  First its    *)
(* safety for any number of slots, adapter threads and application threads. *)
(* Then with one adapter thread, whatever the size of its table: the active *)
(* player is the selected one when nothing is going on, and an application  *)
(* that follows the callbacks is promised what wnp.h says, and has a copy   *)
(* of the table.                                                            *)
(***************************************************************************)
EXTENDS WnpApp, TLAPS, FiniteSetTheorems, WellFoundedInduction

(* How the locals of a thread go with its program counter.                 *)
ThreadShape(t) ==
  /\ pc[t] \in {"list", "clear"} => call[t] \in {"added", "updated", "removed"}
  /\ pc[t] = "hand_over" => call[t] = "removed"
  /\ pc[t] \in {"idle", "cycle", "sweep", "recalculate", "compare", "publish"}
       => call[t] = "none"
  /\ pc[t] = "reread" => call[t] = "get_active"
  /\ pc[t] \in {"lookup", "copy"} => cur[t] \in Slots /\ call[t] \notin {"none", "removed"}
  /\ ~Delivering(t) => at[t] = 0
  /\ mine[t] # {} => InCycle(t)
  /\ t \in Apps => /\ pc[t] \in {"idle", "lookup", "copy", "reread"}
                   /\ call[t] \in {"none", "get_player", "get_active", "event"}

BasicInv == TypeOK /\ CycleHoldsLock /\ \A t \in Threads : ThreadShape(t)

LEMMA DefaultPlayer == /\ WNP_DEFAULT_PLAYER \in Player
                       /\ WNP_DEFAULT_PLAYER.id = -1
                       /\ WNP_DEFAULT_PLAYER.data = "NULL"
                       /\ WNP_DEFAULT_PLAYER.platform = "NONE"
BY DEF WNP_DEFAULT_PLAYER, Player, States, Platforms

(* What the three operations on a slot write into it is a player.           *)
LEMMA NewIsPlayer ==
  ASSUME NEW t \in Owners, NEW s \in Slots, NEW browser \in BOOLEAN
  PROVE  /\ New(t, s, browser) \in Player
         /\ New(t, s, browser).id = s /\ New(t, s, browser).data = t
         /\ New(t, s, browser).platform = IF t \in Web THEN "WEB" ELSE "NATIVE"
BY DefaultPlayer DEF New, Player, Platforms

LEMMA ReportedIsPlayer ==
  ASSUME NEW p \in Player, NEW c \in Contents, NEW browser \in BOOLEAN
  PROVE  /\ Reported(p, c, browser) \in Player
         /\ Reported(p, c, browser).id = p.id /\ Reported(p, c, browser).data = p.data
         /\ Reported(p, c, browser).platform = p.platform
<1>1. c.state \in States /\ c.volume \in Nat /\ c.active_at \in Nat
  BY ContentsAssumption
<1> QED
  BY <1>1 DEF Reported, Player

LEMMA FreedIsPlayer ==
  ASSUME NEW p \in Player
  PROVE  /\ Freed(p) \in Player /\ Freed(p).id = p.id /\ Freed(p).data = "NULL"
BY DEF Freed, Player

LEMMA SlotsFacts == 0 \in Slots /\ Slots \subseteq Nat /\ -1 \notin Slots
BY MaxPlayersAssumption DEF Slots

LEMMA InitBasic == Init => BasicInv
<1> SUFFICES ASSUME Init PROVE BasicInv
  OBVIOUS
<1>1. NoOut \in Outs
  BY DefaultPlayer DEF NoOut, Outs, Calls
<1>2. TypeOK
  <2>2. update_cycle \in BOOLEAN
    BY DEF Init
  <2>3. out \in Outs
    BY <1>1 DEF Init
  <2>4. /\ players \in [Slots -> Player]
        /\ removed_players \in [Slots -> Player]
        /\ seen \in [Threads -> Player]
    BY DefaultPlayer DEF Init
  <2>5. /\ total_web_players \in Int
        /\ players_lock \in Threads \cup {NoThread}
        /\ added_players \in [Slots -> Slots \cup {-1}]
        /\ updated_players \in [Slots -> Slots \cup {-1}]
        /\ active_player_id \in Slots \cup {-1}
        /\ at \in [Threads -> Slots]
        /\ cur \in [Threads -> Slots \cup {-1}]
    BY SlotsFacts DEF Init
  <2>6. /\ pc \in [Threads -> PCs]
        /\ call \in [Threads -> Calls]
        /\ mine \in [Threads -> SUBSET Slots]
    BY DEF Init, PCs, Calls
  <2> QED
    BY <2>2, <2>3, <2>4, <2>5, <2>6 DEF TypeOK
<1>3. CycleHoldsLock
  BY ThreadsAssumption DEF Init, CycleHoldsLock, InCycle
<1>4. \A t \in Threads : ThreadShape(t)
  BY DEF Init, ThreadShape, Delivering, InCycle
<1> QED
  BY <1>2, <1>3, <1>4 DEF BasicInv

(* The locals of a thread that a step does not touch keep their shape.      *)
LEMMA ShapeFrame ==
  ASSUME NEW u \in Threads, ThreadShape(u),
         pc'[u] = pc[u], call'[u] = call[u], at'[u] = at[u], cur'[u] = cur[u],
         mine'[u] = mine[u]
  PROVE  ThreadShape(u)'
BY DEF ThreadShape, Delivering, InCycle

(* What the end of an iteration leaves: the next iteration, the next loop   *)
(* or the recalculation.                                                    *)
LEMMA AdvanceShape ==
  ASSUME TypeOK, NEW t \in Threads, call[t] \in {"added", "updated", "removed"}, Advance(t)
  PROVE  /\ pc' \in [Threads -> PCs] /\ call' \in [Threads -> Calls] /\ at' \in [Threads -> Slots]
         /\ \A u \in Threads \ {t} : pc'[u] = pc[u] /\ call'[u] = call[u] /\ at'[u] = at[u]
         /\ \/ /\ pc'[t] = "list" /\ call'[t] = call[t] /\ at'[t] = at[t] + 1
               /\ at[t] # MaxPlayers - 1
            \/ /\ pc'[t] = "list" /\ at'[t] = 0 /\ at[t] = MaxPlayers - 1
               /\ call[t] = "added" /\ call'[t] = "updated"
            \/ /\ pc'[t] = "list" /\ at'[t] = 0 /\ at[t] = MaxPlayers - 1
               /\ call[t] = "updated" /\ call'[t] = "removed"
            \/ /\ pc'[t] = "recalculate" /\ at'[t] = 0 /\ at[t] = MaxPlayers - 1
               /\ call[t] = "removed" /\ call'[t] = "none"
<1>1. CASE LastEntry(t)
  BY <1>1, SlotsFacts DEF Advance, LastEntry, TypeOK, Goto, PCs, Calls
<1>2. CASE ~LastEntry(t)
  <2>1. at[t] + 1 \in Slots
    BY <1>2, MaxPlayersAssumption DEF LastEntry, TypeOK, Slots
  <2> QED
    BY <1>2, <2>1 DEF Advance, LastEntry, TypeOK, Goto, PCs
<1> QED
  BY <1>1, <1>2

-----------------------------------------------------------------------------
(* BasicInv is kept by every step.                                          *)

(* Only t moves, and t's locals have the right shape afterwards.            *)
OnlyMoves(t) ==
  \A u \in Threads \ {t} : /\ pc'[u] = pc[u] /\ call'[u] = call[u] /\ at'[u] = at[u]
                           /\ cur'[u] = cur[u] /\ mine'[u] = mine[u]

LEMMA ShapeStep ==
  ASSUME NEW t \in Threads, \A u \in Threads : ThreadShape(u),
         OnlyMoves(t), ThreadShape(t)'
  PROVE  \A u \in Threads : ThreadShape(u)'
BY ShapeFrame DEF OnlyMoves

(* A step outside update cycles does not touch the lock.                    *)
LEMMA LockFrame ==
  ASSUME CycleHoldsLock, NEW t \in Threads, OnlyMoves(t), ~InCycle(t), ~InCycle(t)',
         UNCHANGED <<players_lock, update_cycle>>
  PROVE  CycleHoldsLock'
BY DEF CycleHoldsLock, OnlyMoves, InCycle

(* The code under the lock: wnp.c:209-306.                                  *)
LEMMA CycleBasic ==
  ASSUME BasicInv, NEW t \in Adapters,
         StartCycle(t) \/ AddPlayer(t) \/ UpdatePlayer(t) \/ RemovePlayer(t) \/ EndCycle(t)
  PROVE  BasicInv'
<1> USE DEF BasicInv
<1>0. t \in Threads /\ t \notin Apps /\ t # NoThread /\ t \in Owners
  BY ThreadsAssumption DEF Adapters, Threads
<1>n. NoOut \in Outs
  BY DefaultPlayer DEF NoOut, Outs, Calls
<1>t. TypeOK /\ ThreadShape(t)
  BY <1>0
<1>1. CASE StartCycle(t)
  <2>1. TypeOK'
    BY <1>1, <1>0, <1>n, <1>t DEF StartCycle, TypeOK, table, queues, Goto, PCs, Silent
  <2>2. OnlyMoves(t)
    BY <1>1, <1>0, <1>t DEF StartCycle, OnlyMoves, Goto, TypeOK
  <2>3. ThreadShape(t)'
    BY <1>1, <1>0, <1>t DEF StartCycle, ThreadShape, Goto, TypeOK, InCycle, Delivering
  <2>4. CycleHoldsLock'
    BY <1>1, <1>0, <1>t, <2>2, ThreadsAssumption
       DEF StartCycle, CycleHoldsLock, OnlyMoves, InCycle, Lockable, Goto, TypeOK
  <2> QED
    BY <1>0, <2>1, <2>2, <2>3, <2>4, ShapeStep
<1>2. CASE AddPlayer(t)
  <2> PICK s \in Slots, browser \in Flags(t) :
             /\ players' = [players EXCEPT ![s] = New(t, s, browser)]
             /\ total_web_players' = total_web_players + (IF t \in Web THEN 1 ELSE 0)
             /\ added_players' = Enqueue(added_players, -1, s)
    BY <1>2 DEF AddPlayer
  <2>1. browser \in BOOLEAN
    BY DEF Flags
  <2>2. New(t, s, browser) \in Player
    BY <2>1, <1>0, NewIsPlayer
  <2>3. players' \in [Slots -> Player] /\ total_web_players' \in Int
    BY <2>2, <1>t DEF TypeOK
  <2>4. added_players' \in [Slots -> Slots \cup {-1}]
    BY <1>t DEF TypeOK, Enqueue
  <2>5. UNCHANGED <<players_lock, update_cycle, updated_players, removed_players,
                    active_player_id, pc, call, at, cur, seen, mine>> /\ out' = NoOut
    BY <1>2 DEF AddPlayer, Silent
  <2>6. TypeOK'
    BY <2>3, <2>4, <2>5, <1>n, <1>t DEF TypeOK
  <2>7. CycleHoldsLock' /\ \A u \in Threads : ThreadShape(u)'
    BY <2>5 DEF CycleHoldsLock, ThreadShape, InCycle, Delivering
  <2> QED
    BY <2>6, <2>7
<1>3. CASE UpdatePlayer(t)
  <2> PICK s \in Slots, c \in Contents, browser \in Flags(t) :
             /\ s \in mine[t] \/ pc[t] = "cycle"
             /\ players' = [players EXCEPT ![s] = Reported(@, c, browser)]
             /\ updated_players' = IF AlreadyQueued(s) THEN updated_players
                                   ELSE Enqueue(updated_players, -1, s)
             /\ Goto(t, IF s \in mine[t] THEN "sweep" ELSE "cycle")
             /\ mine' = [mine EXCEPT ![t] = @ \ {s}]
    BY <1>3 DEF UpdatePlayer
  <2>1. browser \in BOOLEAN
    BY DEF Flags
  <2>a. players[s] \in Player
    BY <1>t DEF TypeOK
  <2>b. Reported(players[s], c, browser) \in Player
    BY <2>1, <2>a, ReportedIsPlayer
  <2>2. players' \in [Slots -> Player]
    BY <2>b, <1>t DEF TypeOK
  <2>3. updated_players' \in [Slots -> Slots \cup {-1}]
    BY <1>t DEF TypeOK, Enqueue
  <2>4. UNCHANGED <<total_web_players, players_lock, update_cycle, added_players,
                    removed_players, active_player_id, call, at, cur, seen>> /\ out' = NoOut
    BY <1>3 DEF UpdatePlayer, Silent
  <2>5. pc' \in [Threads -> PCs] /\ mine' \in [Threads -> SUBSET Slots]
    BY <1>t, <1>0 DEF TypeOK, Goto, PCs
  <2>6. TypeOK'
    BY <2>2, <2>3, <2>4, <2>5, <1>n, <1>t DEF TypeOK
  <2>7. OnlyMoves(t) /\ InCycle(t) /\ InCycle(t)'
    BY <1>3, <1>0, <1>t, <2>4 DEF UpdatePlayer, OnlyMoves, Goto, TypeOK, InCycle
  <2>8. ThreadShape(t)'
    BY <1>0, <1>t, <2>4, <2>7 DEF ThreadShape, InCycle, Delivering, TypeOK
  <2>9. CycleHoldsLock'
    BY <2>4, <2>7 DEF CycleHoldsLock, OnlyMoves, InCycle
  <2> QED
    BY <1>0, <2>6, <2>7, <2>8, <2>9, ShapeStep
<1>4. CASE RemovePlayer(t)
  <2> PICK s \in mine[t] :
             /\ total_web_players' = total_web_players - WebShare(s)
             /\ removed_players' = Enqueue(removed_players, WNP_DEFAULT_PLAYER,
                                           Freed(players[s]))
             /\ players' = [players EXCEPT ![s] = WNP_DEFAULT_PLAYER]
             /\ mine' = [mine EXCEPT ![t] = @ \ {s}]
    BY <1>4 DEF RemovePlayer
  <2>1. s \in Slots
    BY <1>0, <1>t DEF TypeOK
  <2>2. players[s] \in Player /\ Freed(players[s]) \in Player
    BY <2>1, <1>t, FreedIsPlayer DEF TypeOK
  <2>3. removed_players' \in [Slots -> Player]
    BY <2>2, <1>t DEF TypeOK, Enqueue
  <2>4. UNCHANGED <<players_lock, update_cycle, added_players, updated_players,
                    active_player_id, call, at, cur, seen>> /\ out' = NoOut
    BY <1>4 DEF RemovePlayer, Silent
  <2>a. players' \in [Slots -> Player]
    BY <1>t, DefaultPlayer DEF TypeOK
  <2>b. total_web_players' \in Int
    BY <1>t DEF TypeOK, WebShare
  <2>5. players' \in [Slots -> Player] /\ total_web_players' \in Int
    BY <2>a, <2>b
  <2>6. pc' \in [Threads -> PCs] /\ mine' \in [Threads -> SUBSET Slots]
    BY <1>4, <1>t, <1>0 DEF RemovePlayer, TypeOK, Goto, PCs
  <2>7. TypeOK'
    BY <2>3, <2>4, <2>5, <2>6, <1>n, <1>t DEF TypeOK
  <2>8. OnlyMoves(t) /\ InCycle(t) /\ InCycle(t)'
    BY <1>4, <1>0, <1>t, <2>4 DEF RemovePlayer, OnlyMoves, Goto, TypeOK, InCycle
  <2>9. ThreadShape(t)'
    BY <1>0, <1>t, <2>4, <2>8 DEF ThreadShape, InCycle, Delivering, TypeOK
  <2>10. CycleHoldsLock'
    BY <2>4, <2>8 DEF CycleHoldsLock, OnlyMoves, InCycle
  <2> QED
    BY <1>0, <2>7, <2>8, <2>9, <2>10, ShapeStep
<1>5. CASE EndCycle(t)
  <2>1. TypeOK'
    BY <1>5, <1>0, <1>n, <1>t DEF EndCycle, TypeOK, table, queues, Goto, PCs, Calls, Silent
  <2>2. OnlyMoves(t)
    BY <1>5, <1>0, <1>t DEF EndCycle, OnlyMoves, Goto, TypeOK
  <2>3. ThreadShape(t)'
    BY <1>5, <1>0, <1>t DEF EndCycle, ThreadShape, Goto, TypeOK, InCycle, Delivering
  <2>4. CycleHoldsLock'
    BY <1>5, <1>0, <1>t, <2>2, ThreadsAssumption
       DEF EndCycle, CycleHoldsLock, OnlyMoves, InCycle, Goto, TypeOK
  <2> QED
    BY <1>0, <2>1, <2>2, <2>3, <2>4, ShapeStep
<1> QED
  BY <1>1, <1>2, <1>3, <1>4, <1>5

LEMMA TornIsPlayer ==
  ASSUME NEW a \in Player, NEW b \in Player
  PROVE  Torn(a, b) \subseteq Player
<1>1. /\ {a.id, b.id} \subseteq Slots \cup {-1}
      /\ {a.platform, b.platform} \subseteq Platforms
      /\ {a.is_web_browser, b.is_web_browser} \subseteq BOOLEAN
      /\ {a.state, b.state} \subseteq States
      /\ {a.volume, b.volume} \subseteq Nat
      /\ {a.active_at, b.active_at} \subseteq Nat
      /\ {a.data, b.data} \subseteq Owners \cup {"NULL"}
  BY DEF Player
<1> SUFFICES ASSUME NEW p \in Torn(a, b) PROVE p \in Player
  OBVIOUS
<1> QED
  BY <1>1 DEF Torn, Player

(* The delivery loops: wnp.c:314-338.                                       *)
LEMMA DeliverBasic ==
  ASSUME BasicInv, NEW t \in Adapters, Deliver(t)
  PROVE  BasicInv'
<1> USE DEF BasicInv
<1>0. t \in Threads /\ t \notin Apps
  BY ThreadsAssumption DEF Adapters, Threads
<1>n. NoOut \in Outs
  BY DefaultPlayer DEF NoOut, Outs, Calls
<1>t. TypeOK /\ ThreadShape(t) /\ CycleHoldsLock
  BY <1>0
<1>1. CASE ReadEntry(t)
  <2>1. UNCHANGED <<shared, seen, mine>> /\ out' = NoOut /\ pc[t] = "list"
        /\ call[t] \in {"added", "updated"}
    BY <1>1 DEF ReadEntry, Silent
  <2>2. CASE Entry(t) = -1 /\ Advance(t) /\ UNCHANGED cur
    <3>1. TypeOK'
      BY <2>1, <2>2, <1>0, <1>n, <1>t, AdvanceShape DEF TypeOK, shared, table, queues
    <3>2. OnlyMoves(t) /\ ~InCycle(t) /\ ~InCycle(t)'
      BY <2>1, <2>2, <1>0, <1>t, AdvanceShape DEF OnlyMoves, InCycle
    <3>3. ThreadShape(t)'
      BY <2>1, <2>2, <1>0, <1>t, AdvanceShape DEF ThreadShape, InCycle, Delivering
    <3>4. CycleHoldsLock'
      BY <3>2, <2>1, <1>0, <1>t, LockFrame DEF shared
    <3> QED
      BY <1>0, <3>1, <3>2, <3>3, <3>4, ShapeStep
  <2>3. CASE /\ Entry(t) # -1 /\ cur' = [cur EXCEPT ![t] = Entry(t)]
             /\ Goto(t, "lookup") /\ UNCHANGED <<call, at>>
    <3>e. Entry(t) \in Slots
      BY <2>3, <2>1, <1>0, <1>t DEF Entry, TypeOK
    <3>1. TypeOK'
      BY <2>1, <2>3, <3>e, <1>0, <1>n, <1>t DEF TypeOK, shared, table, queues, Goto, PCs
    <3>2. OnlyMoves(t) /\ ~InCycle(t) /\ ~InCycle(t)'
      BY <2>1, <2>3, <1>0, <1>t DEF OnlyMoves, InCycle, Goto, TypeOK
    <3>3. ThreadShape(t)'
      BY <2>1, <2>3, <3>e, <1>0, <1>t DEF ThreadShape, InCycle, Delivering, Goto, TypeOK
    <3>4. CycleHoldsLock'
      BY <3>2, <2>1, <1>0, <1>t, LockFrame DEF shared
    <3> QED
      BY <1>0, <3>1, <3>2, <3>3, <3>4, ShapeStep
  <2> QED
    BY <2>2, <2>3, <1>1 DEF ReadEntry
<1>2. CASE ReadRemoved(t)
  <2>1. UNCHANGED <<shared, cur, mine>> /\ out' = NoOut /\ pc[t] = "list"
        /\ call[t] = "removed"
    BY <1>2 DEF ReadRemoved, Silent
  <2>r. removed_players[at[t]] \in Player
    BY <1>0, <1>t DEF TypeOK
  <2>2. CASE Advance(t) /\ UNCHANGED seen
    <3>1. TypeOK'
      BY <2>1, <2>2, <1>0, <1>n, <1>t, AdvanceShape DEF TypeOK, shared, table, queues
    <3>2. OnlyMoves(t) /\ ~InCycle(t) /\ ~InCycle(t)'
      BY <2>1, <2>2, <1>0, <1>t, AdvanceShape DEF OnlyMoves, InCycle
    <3>3. ThreadShape(t)'
      BY <2>1, <2>2, <1>0, <1>t, AdvanceShape DEF ThreadShape, InCycle, Delivering
    <3>4. CycleHoldsLock'
      BY <3>2, <2>1, <1>0, <1>t, LockFrame DEF shared
    <3> QED
      BY <1>0, <3>1, <3>2, <3>3, <3>4, ShapeStep
  <2>3. CASE /\ seen' = [seen EXCEPT ![t] = removed_players[at[t]]]
             /\ Goto(t, "hand_over") /\ UNCHANGED <<call, at>>
    <3>1. TypeOK'
      BY <2>1, <2>r, <2>3, <1>0, <1>n, <1>t DEF TypeOK, shared, table, queues, Goto, PCs
    <3>2. OnlyMoves(t) /\ ~InCycle(t) /\ ~InCycle(t)'
      BY <2>1, <2>3, <1>0, <1>t DEF OnlyMoves, InCycle, Goto, TypeOK
    <3>3. ThreadShape(t)'
      BY <2>1, <2>3, <1>0, <1>t DEF ThreadShape, InCycle, Delivering, Goto, TypeOK
    <3>4. CycleHoldsLock'
      BY <3>2, <2>1, <1>0, <1>t, LockFrame DEF shared
    <3> QED
      BY <1>0, <3>1, <3>2, <3>3, <3>4, ShapeStep
  <2> QED
    BY <2>2, <2>3, <1>2 DEF ReadRemoved
<1>3. CASE HandOver(t)
  <2>1. UNCHANGED <<shared, call, at, cur, mine>> /\ pc[t] = "hand_over" /\ Goto(t, "clear")
        /\ seen' = [seen EXCEPT ![t] = WNP_DEFAULT_PLAYER]
    BY <1>3 DEF HandOver
  <2>2. PICK player \in Torn(seen[t], removed_players[at[t]]) :
               out' = Out("removed", seen[t].id, player)
    BY <1>3 DEF HandOver
  <2>3. removed_players[at[t]] \in Player /\ seen[t] \in Player
    BY <1>0, <1>t DEF TypeOK
  <2>4. player \in Player /\ seen[t].id \in Slots \cup {-1}
    BY <2>3, TornIsPlayer DEF Player
  <2>5. out' \in Outs
    BY <2>2, <2>4 DEF Out, Outs, Calls
  <2>6. TypeOK'
    BY <2>1, <2>5, <1>0, <1>t, DefaultPlayer DEF TypeOK, shared, table, queues, Goto, PCs
  <2>7. OnlyMoves(t) /\ ~InCycle(t) /\ ~InCycle(t)'
    BY <2>1, <1>0, <1>t DEF OnlyMoves, InCycle, Goto, TypeOK
  <2>8. ThreadShape(t)'
    BY <2>1, <1>0, <1>t DEF ThreadShape, InCycle, Delivering, Goto, TypeOK
  <2>9. CycleHoldsLock'
    BY <2>1, <2>7, <1>0, <1>t, LockFrame DEF shared
  <2> QED
    BY <1>0, <2>6, <2>7, <2>8, <2>9, ShapeStep
<1>4. CASE Clear(t)
  <2>1. /\ UNCHANGED <<table, players_lock, update_cycle, active_player_id, seen, mine>>
        /\ out' = NoOut /\ pc[t] = "clear" /\ cur' = [cur EXCEPT ![t] = -1]
        /\ Advance(t) /\ call[t] \in {"added", "updated", "removed"}
    BY <1>4, <1>t DEF Clear, Silent, ThreadShape
  <2>2. added_players' \in [Slots -> Slots \cup {-1}]
    BY <1>4, <1>t DEF Clear, TypeOK
  <2>3. updated_players' \in [Slots -> Slots \cup {-1}]
    BY <1>4, <1>t DEF Clear, TypeOK
  <2>4. removed_players' \in [Slots -> Player]
    BY <1>4, <1>t, DefaultPlayer DEF Clear, TypeOK
  <2>5. TypeOK'
    BY <2>1, <2>2, <2>3, <2>4, <1>0, <1>n, <1>t, AdvanceShape DEF TypeOK, table
  <2>6. OnlyMoves(t) /\ ~InCycle(t) /\ ~InCycle(t)'
    BY <2>1, <1>0, <1>t, AdvanceShape DEF OnlyMoves, InCycle, TypeOK
  <2>7. ThreadShape(t)'
    BY <2>1, <1>0, <1>t, AdvanceShape DEF ThreadShape, InCycle, Delivering
  <2>8. CycleHoldsLock'
    BY <2>1, <2>6, <1>0, <1>t, LockFrame
  <2> QED
    BY <1>0, <2>5, <2>6, <2>7, <2>8, ShapeStep
<1> QED
  BY <1>1, <1>2, <1>3, <1>4 DEF Deliver

(* What wnp_get_player's caller does next keeps the locals in shape.        *)
LEMMA AfterCallShape ==
  ASSUME TypeOK, NEW t \in Threads, ThreadShape(t), pc[t] \in {"lookup", "copy"},
         AfterCall(t), UNCHANGED <<at, mine>>
  PROVE  /\ pc' \in [Threads -> PCs] /\ call' \in [Threads -> Calls]
         /\ cur' \in [Threads -> Slots \cup {-1}]
         /\ OnlyMoves(t) /\ ~InCycle(t) /\ ~InCycle(t)' /\ ThreadShape(t)'
         /\ pc'[t] \in {"clear", "idle"}
<1>1. CASE call[t] \in {"added", "updated"}
  <2>1. Goto(t, "clear") /\ UNCHANGED <<call, cur>>
    BY <1>1 DEF AfterCall
  <2> QED
    BY <1>1, <2>1 DEF Goto, TypeOK, PCs, OnlyMoves, InCycle, ThreadShape, Delivering
<1>2. CASE call[t] \notin {"added", "updated"}
  <2>1. Return(t)
    BY <1>2 DEF AfterCall
  <2>2. /\ pc' = [pc EXCEPT ![t] = "idle"] /\ call' = [call EXCEPT ![t] = "none"]
        /\ cur' = [cur EXCEPT ![t] = -1]
    BY <2>1 DEF Return, Goto
  <2> QED
    BY <1>2, <2>2 DEF TypeOK, PCs, Calls, OnlyMoves, InCycle, ThreadShape, Delivering
<1> QED
  BY <1>1, <1>2

(* wnp.c:625-655.                                                           *)
LEMMA GetPlayerBasic ==
  ASSUME BasicInv, NEW t \in Threads, GetPlayer(t)
  PROVE  BasicInv'
<1> USE DEF BasicInv
<1>n. NoOut \in Outs
  BY DefaultPlayer DEF NoOut, Outs, Calls
<1>t. TypeOK /\ ThreadShape(t) /\ CycleHoldsLock
  OBVIOUS
<1>1. CASE Lookup(t)
  <2>1. UNCHANGED <<shared, at, mine>> /\ pc[t] = "lookup"
    BY <1>1 DEF Lookup
  <2>c. cur[t] \in Slots /\ players[cur[t]] \in Player
    BY <2>1, <1>t DEF ThreadShape, TypeOK
  <2>2. CASE /\ seen' = [seen EXCEPT ![t] = players[cur[t]]] /\ Goto(t, "copy") /\ Silent
             /\ UNCHANGED <<call, cur>>
    <3>1. TypeOK'
      BY <2>1, <2>2, <2>c, <1>n, <1>t DEF TypeOK, shared, table, queues, Goto, PCs, Silent
    <3>2. OnlyMoves(t) /\ ~InCycle(t) /\ ~InCycle(t)'
      BY <2>1, <2>2, <1>t DEF OnlyMoves, InCycle, Goto, TypeOK
    <3>3. ThreadShape(t)'
      BY <2>1, <2>2, <2>c, <1>t DEF ThreadShape, InCycle, Delivering, Goto, TypeOK
    <3>4. CycleHoldsLock'
      BY <3>2, <2>1, <1>t, LockFrame DEF shared
    <3> QED
      BY <3>1, <3>2, <3>3, <3>4, ShapeStep
  <2>3. CASE /\ out' = IF call[t] = "get_active"
                       THEN Out(call[t], cur[t], WNP_DEFAULT_PLAYER) ELSE NoOut
             /\ AfterCall(t) /\ UNCHANGED seen
    <3>o. Out("get_active", cur[t], WNP_DEFAULT_PLAYER) \in Outs
      BY <2>c, DefaultPlayer DEF Out, Outs, Calls
    <3>p. out' \in Outs
      BY <2>3, <3>o, <1>n
    <3>1. TypeOK'
      BY <2>1, <2>3, <3>p, <1>t, AfterCallShape DEF TypeOK, shared, table, queues
    <3>2. OnlyMoves(t) /\ ~InCycle(t) /\ ~InCycle(t)' /\ ThreadShape(t)'
      BY <2>1, <2>3, <1>t, AfterCallShape
    <3>4. CycleHoldsLock'
      BY <3>2, <2>1, <1>t, LockFrame DEF shared
    <3> QED
      BY <3>1, <3>2, <3>4, ShapeStep
  <2> QED
    BY <1>1, <2>2, <2>3 DEF Lookup
<1>2. CASE Copy(t)
  <2>1. UNCHANGED <<shared, at, mine>> /\ pc[t] = "copy" /\ AfterCall(t)
        /\ seen' = [seen EXCEPT ![t] = WNP_DEFAULT_PLAYER]
    BY <1>2 DEF Copy
  <2>c. cur[t] \in Slots /\ players[cur[t]] \in Player /\ seen[t] \in Player
        /\ call[t] \in Calls
    BY <2>1, <1>t DEF ThreadShape, TypeOK
  <2>2. PICK player \in Torn(seen[t], players[cur[t]]) :
               out' = Out(IF call[t] = "event" THEN "updated" ELSE call[t], cur[t], player)
    BY <1>2 DEF Copy
  <2>3. player \in Player
    BY <2>c, TornIsPlayer
  <2>4. out' \in Outs
    BY <2>2, <2>3, <2>c DEF Out, Outs, Calls
  <2>5. TypeOK'
    BY <2>1, <2>4, <1>t, AfterCallShape, DefaultPlayer DEF TypeOK, shared, table, queues
  <2>6. OnlyMoves(t) /\ ~InCycle(t) /\ ~InCycle(t)' /\ ThreadShape(t)'
    BY <2>1, <1>t, AfterCallShape
  <2>7. CycleHoldsLock'
    BY <2>6, <2>1, <1>t, LockFrame DEF shared
  <2> QED
    BY <2>5, <2>6, <2>7, ShapeStep
<1> QED
  BY <1>1, <1>2 DEF GetPlayer

(* wnp.c:110-143.                                                           *)
LEMMA RecalcBasic ==
  ASSUME BasicInv, NEW t \in Adapters, Recalc(t)
  PROVE  BasicInv'
<1> USE DEF BasicInv
<1>0. t \in Threads /\ t \notin Apps
  BY ThreadsAssumption DEF Adapters, Threads
<1>n. NoOut \in Outs
  BY DefaultPlayer DEF NoOut, Outs, Calls
<1>t. TypeOK /\ ThreadShape(t) /\ CycleHoldsLock
  BY <1>0
<1>1. CASE Recalculate(t)
  <2>1. /\ UNCHANGED <<shared, call, at, seen, mine>> /\ pc[t] = "recalculate"
        /\ Goto(t, "compare") /\ out' = NoOut
    BY <1>1 DEF Recalculate, Silent
  <2>2. PICK r \in Slots \cup {-1} : cur' = [cur EXCEPT ![t] = r]
    BY <1>1 DEF Recalculate
  <2>3. TypeOK'
    BY <2>1, <2>2, <1>0, <1>n, <1>t DEF TypeOK, shared, table, queues, Goto, PCs
  <2>4. OnlyMoves(t) /\ ~InCycle(t) /\ ~InCycle(t)'
    BY <2>1, <2>2, <1>0, <1>t DEF OnlyMoves, InCycle, Goto, TypeOK
  <2>5. ThreadShape(t)'
    BY <2>1, <1>0, <1>t DEF ThreadShape, InCycle, Delivering, Goto, TypeOK
  <2>6. CycleHoldsLock'
    BY <2>4, <2>1, <1>0, <1>t, LockFrame DEF shared
  <2> QED
    BY <1>0, <2>3, <2>4, <2>5, <2>6, ShapeStep
<1>2. CASE Compare(t)
  <2>1. UNCHANGED <<shared, at, seen, mine>> /\ pc[t] = "compare" /\ out' = NoOut
    BY <1>2 DEF Compare, Silent
  <2>2. \/ pc' = [pc EXCEPT ![t] = "publish"] /\ UNCHANGED <<call, cur>>
        \/ /\ pc' = [pc EXCEPT ![t] = "idle"] /\ call' = [call EXCEPT ![t] = "none"]
           /\ cur' = [cur EXCEPT ![t] = -1]
    BY <1>2 DEF Compare, Return, Goto
  <2>3. TypeOK'
    BY <2>1, <2>2, <1>0, <1>n, <1>t DEF TypeOK, shared, table, queues, PCs, Calls
  <2>4. OnlyMoves(t) /\ ~InCycle(t) /\ ~InCycle(t)'
    BY <2>1, <2>2, <1>0, <1>t DEF OnlyMoves, InCycle, TypeOK
  <2>5. ThreadShape(t)'
    BY <2>1, <2>2, <1>0, <1>t DEF ThreadShape, InCycle, Delivering, TypeOK
  <2>6. CycleHoldsLock'
    BY <2>4, <2>1, <1>0, <1>t, LockFrame DEF shared
  <2> QED
    BY <1>0, <2>3, <2>4, <2>5, <2>6, ShapeStep
<1>3. CASE Publish(t)
  <2>1. /\ UNCHANGED <<table, players_lock, update_cycle, queues, at, seen, mine>>
        /\ pc[t] = "publish" /\ active_player_id' = cur[t]
    BY <1>3 DEF Publish
  <2>2. \/ /\ pc' = [pc EXCEPT ![t] = "idle"] /\ call' = [call EXCEPT ![t] = "none"]
           /\ cur' = [cur EXCEPT ![t] = -1]
        \/ /\ pc' = [pc EXCEPT ![t] = "lookup"] /\ call' = [call EXCEPT ![t] = "active"]
           /\ cur' = cur /\ cur[t] # -1
    BY <1>3 DEF Publish, Return, Goto
  <2>o. Out("active", -1, WNP_DEFAULT_PLAYER) \in Outs
    BY DefaultPlayer DEF Out, Outs, Calls
  <2>p. out' \in Outs
    BY <1>3, <2>o, <1>n DEF Publish, Silent
  <2>3. TypeOK'
    BY <2>1, <2>2, <2>p, <1>0, <1>t DEF TypeOK, table, queues, PCs, Calls
  <2>4. OnlyMoves(t) /\ ~InCycle(t) /\ ~InCycle(t)'
    BY <2>1, <2>2, <1>0, <1>t DEF OnlyMoves, InCycle, TypeOK
  <2>5. ThreadShape(t)'
    BY <2>1, <2>2, <1>0, <1>t DEF ThreadShape, InCycle, Delivering, TypeOK
  <2>6. CycleHoldsLock'
    BY <2>4, <2>1, <1>0, <1>t, LockFrame
  <2> QED
    BY <1>0, <2>3, <2>4, <2>5, <2>6, ShapeStep
<1> QED
  BY <1>1, <1>2, <1>3 DEF Recalc

(* A player whose state was set is still that player.                       *)
LEMMA StateSet ==
  ASSUME NEW p \in Player, NEW state \in States
  PROVE  /\ [p EXCEPT !.state = state] \in Player
         /\ [p EXCEPT !.state = state].id = p.id
         /\ [p EXCEPT !.state = state].data = p.data
         /\ [p EXCEPT !.state = state].platform = p.platform
BY DEF Player

(* What wnp_try_set_state does to the table: nothing, or one slot's state.  *)
LEMMA TrySetStateTable ==
  ASSUME TypeOK, NEW t \in Apps, TrySetState(t)
  PROVE  \E s \in Slots, state \in States :
           /\ Used(s) /\ cur' = [cur EXCEPT ![t] = s]
           /\ \/ players' = [players EXCEPT ![s] = [players[s] EXCEPT !.state = state]]
              \/ players' = players
<1>1. PICK s \in Slots, state \in {c.state : c \in Contents} :
             /\ Used(s) /\ cur' = [cur EXCEPT ![t] = s]
             /\ \/ players' = [players EXCEPT ![s].state = state]
                \/ UNCHANGED players
  BY DEF TrySetState
<1>2. state \in States
  BY ContentsAssumption
<1> QED
  BY <1>1, <1>2

(* wnp.c:424-505, 625-655, on the application's own threads.               *)
LEMMA AppsBasic ==
  ASSUME BasicInv, NEW t \in Apps,
         CallGetPlayer(t) \/ CallGetActive(t) \/ Reread(t) \/ TrySetState(t)
  PROVE  BasicInv'
<1> USE DEF BasicInv
<1>0. t \in Threads
  BY DEF Threads
<1>n. NoOut \in Outs
  BY DefaultPlayer DEF NoOut, Outs, Calls
<1>t. TypeOK /\ ThreadShape(t) /\ CycleHoldsLock
  BY <1>0
<1>1. CASE CallGetPlayer(t)
  <2>1. /\ UNCHANGED <<shared, at, seen, mine>> /\ pc[t] = "idle" /\ out' = NoOut
        /\ pc' = [pc EXCEPT ![t] = "lookup"] /\ call' = [call EXCEPT ![t] = "get_player"]
    BY <1>1 DEF CallGetPlayer, Goto, Silent
  <2>2. PICK s \in Slots : cur' = [cur EXCEPT ![t] = s]
    BY <1>1 DEF CallGetPlayer
  <2>3. TypeOK'
    BY <2>1, <2>2, <1>0, <1>n, <1>t DEF TypeOK, shared, table, queues, PCs, Calls
  <2>4. OnlyMoves(t) /\ ~InCycle(t) /\ ~InCycle(t)'
    BY <2>1, <2>2, <1>0, <1>t DEF OnlyMoves, InCycle, TypeOK
  <2>5. ThreadShape(t)'
    BY <2>1, <2>2, <1>0, <1>t DEF ThreadShape, InCycle, Delivering, TypeOK
  <2>6. CycleHoldsLock'
    BY <2>4, <2>1, <1>0, <1>t, LockFrame DEF shared
  <2> QED
    BY <1>0, <2>3, <2>4, <2>5, <2>6, ShapeStep
<1>2. CASE CallGetActive(t)
  <2>1. /\ UNCHANGED <<shared, at, cur, seen, mine>> /\ pc[t] = "idle" /\ out' = NoOut
        /\ pc' = [pc EXCEPT ![t] = "reread"] /\ call' = [call EXCEPT ![t] = "get_active"]
    BY <1>2 DEF CallGetActive, Goto, Silent
  <2>3. TypeOK'
    BY <2>1, <1>0, <1>n, <1>t DEF TypeOK, shared, table, queues, PCs, Calls
  <2>4. OnlyMoves(t) /\ ~InCycle(t) /\ ~InCycle(t)'
    BY <2>1, <1>0, <1>t DEF OnlyMoves, InCycle, TypeOK
  <2>5. ThreadShape(t)'
    BY <2>1, <1>0, <1>t DEF ThreadShape, InCycle, Delivering, TypeOK
  <2>6. CycleHoldsLock'
    BY <2>4, <2>1, <1>0, <1>t, LockFrame DEF shared
  <2> QED
    BY <1>0, <2>3, <2>4, <2>5, <2>6, ShapeStep
<1>3. CASE Reread(t)
  <2>1. UNCHANGED <<shared, at, seen, mine>> /\ pc[t] = "reread"
    BY <1>3 DEF Reread
  <2>2. \/ /\ pc' = [pc EXCEPT ![t] = "idle"] /\ call' = [call EXCEPT ![t] = "none"]
           /\ cur' = [cur EXCEPT ![t] = -1]
        \/ /\ pc' = [pc EXCEPT ![t] = "lookup"] /\ call' = call
           /\ cur' = [cur EXCEPT ![t] = active_player_id] /\ active_player_id # -1
    BY <1>3 DEF Reread, Return, Goto
  <2>o. Out("get_active", -1, WNP_DEFAULT_PLAYER) \in Outs
    BY DefaultPlayer DEF Out, Outs, Calls
  <2>p. out' \in Outs
    BY <1>3, <2>o, <1>n DEF Reread, Silent
  <2>3. TypeOK'
    BY <2>1, <2>2, <2>p, <1>0, <1>t DEF TypeOK, shared, table, queues, PCs, Calls
  <2>4. OnlyMoves(t) /\ ~InCycle(t) /\ ~InCycle(t)'
    BY <2>1, <2>2, <1>0, <1>t DEF OnlyMoves, InCycle, TypeOK
  <2>5. ThreadShape(t)'
    BY <2>1, <2>2, <1>0, <1>t DEF ThreadShape, InCycle, Delivering, TypeOK
  <2>6. CycleHoldsLock'
    BY <2>4, <2>1, <1>0, <1>t, LockFrame DEF shared
  <2> QED
    BY <1>0, <2>3, <2>4, <2>5, <2>6, ShapeStep
<1>4. CASE TrySetState(t)
  <2>1. /\ UNCHANGED <<total_web_players, players_lock, update_cycle, queues,
                       active_player_id, at, seen, mine>> /\ pc[t] = "idle" /\ out' = NoOut
        /\ pc' = [pc EXCEPT ![t] = "lookup"] /\ call' = [call EXCEPT ![t] = "event"]
    BY <1>4 DEF TrySetState, Goto, Silent
  <2>2. PICK s \in Slots, state \in States :
           /\ cur' = [cur EXCEPT ![t] = s]
           /\ \/ players' = [players EXCEPT ![s] = [players[s] EXCEPT !.state = state]]
              \/ players' = players
    BY <1>4, <1>t, TrySetStateTable
  <2>a. players[s] \in Player
    BY <1>t DEF TypeOK
  <2>b. players' \in [Slots -> Player]
    BY <2>a, <2>2, <1>t, StateSet DEF TypeOK
  <2>3. TypeOK'
    BY <2>1, <2>2, <2>b, <1>0, <1>n, <1>t DEF TypeOK, queues, PCs, Calls
  <2>4. OnlyMoves(t) /\ ~InCycle(t) /\ ~InCycle(t)'
    BY <2>1, <2>2, <1>0, <1>t DEF OnlyMoves, InCycle, TypeOK
  <2>5. ThreadShape(t)'
    BY <2>1, <2>2, <1>0, <1>t DEF ThreadShape, InCycle, Delivering, TypeOK
  <2>6. CycleHoldsLock'
    BY <2>4, <2>1, <1>0, <1>t, LockFrame
  <2> QED
    BY <1>0, <2>3, <2>4, <2>5, <2>6, ShapeStep
<1> QED
  BY <1>1, <1>2, <1>3, <1>4

LEMMA StutterBasic == ASSUME BasicInv, UNCHANGED vars PROVE BasicInv'
BY DEF BasicInv, TypeOK, CycleHoldsLock, ThreadShape, InCycle, Delivering,
       vars, shared, table, queues

(* The steps, by the code they stand for.                                   *)
LEMMA NextSteps ==
  ASSUME Next
  PROVE  \/ \E t \in Adapters : \/ StartCycle(t) \/ AddPlayer(t) \/ UpdatePlayer(t)
                                \/ RemovePlayer(t) \/ EndCycle(t)
         \/ \E t \in Adapters : Deliver(t)
         \/ \E t \in Adapters : Recalc(t)
         \/ \E t \in Apps : \/ CallGetPlayer(t) \/ CallGetActive(t) \/ Reread(t)
                            \/ TrySetState(t)
         \/ \E t \in Threads : GetPlayer(t)
BY DEF Next

LEMMA NextBasic == BasicInv /\ [Next]_vars => BasicInv'
<1> SUFFICES ASSUME BasicInv, [Next]_vars PROVE BasicInv'
  OBVIOUS
<1>1. CASE Next
  BY <1>1, NextSteps, CycleBasic, DeliverBasic, RecalcBasic, AppsBasic, GetPlayerBasic
<1>2. CASE UNCHANGED vars
  BY <1>2, StutterBasic
<1> QED
  BY <1>1, <1>2

(* wnp.c:209-342: the types, who holds players_lock, and which locals go    *)
(* with which point of the code.                                           *)
THEOREM CoreBasic == Spec => []BasicInv
BY InitBasic, NextBasic, PTL DEF Spec

(* Every variable of the core keeps its type: in particular no queue entry, *)
(* no active_player_id and no argument of wnp_get_player is ever outside    *)
(* the table.                                                               *)
THEOREM CoreTypeOK == Spec => []TypeOK
<1>1. BasicInv => TypeOK
  BY DEF BasicInv
<1> QED
  BY <1>1, CoreBasic, PTL

(* wnp.c:209-215, 308-312: update_cycle holds exactly while the one thread  *)
(* in a cycle has players_lock.                                             *)
THEOREM CoreCycleHoldsLock == Spec => []CycleHoldsLock
<1>1. BasicInv => CycleHoldsLock
  BY DEF BasicInv
<1> QED
  BY <1>1, CoreBasic, PTL

-----------------------------------------------------------------------------
(* Queues in general: when there is room, and what Enqueue does.            *)

(* The least element of a set of naturals.                                  *)
LEMMA Least ==
  ASSUME NEW T \in SUBSET Nat, T # {}
  PROVE  \E x \in T : \A y \in T : x <= y
<1>1. \E x \in T : \A y \in T : ~(<<y, x>> \in OpToRel(<, Nat))
  BY NatLessThanWellFounded, WFMin, Zenon
<1>2. PICK x \in T : \A y \in T : ~(<<y, x>> \in OpToRel(<, Nat))
  BY <1>1, Zenon
<1>3. ASSUME NEW y \in T PROVE x <= y
  <2>1. <<y, x>> \notin OpToRel(<, Nat)
    BY <1>2, Zenon
  <2>2. x \in Nat /\ y \in Nat
    OBVIOUS
  <2>3. ~(y < x)
    BY <2>1, <2>2 DEF OpToRel
  <2> QED
    BY <2>2, <2>3
<1> QED
  BY <1>2, <1>3, Zenon

(* No two entries of a queue are the same.                                 *)
Distinct(queue) == \A p, q \in Slots : p # q /\ queue[p] # -1 => queue[p] # queue[q]

(* Distinct entries that are not s leave room for s.                        *)
LEMMA Room ==
  ASSUME NEW queue \in [Slots -> Slots \cup {-1}], Distinct(queue),
         NEW s \in Slots, ~Queued(queue, s)
  PROVE  \E q \in Slots : queue[q] = -1
<1> SUFFICES ASSUME \A q \in Slots : queue[q] # -1 PROVE FALSE
  OBVIOUS
<1>1. queue \in [Slots -> Slots \ {s}]
  BY DEF Queued
<1>2. IsFiniteSet(Slots)
  BY MaxPlayersAssumption, FS_Interval DEF Slots
<1>3. Cardinality(Slots) \in Nat
  BY <1>2, FS_CardinalityType
<1>4. IsFiniteSet(Slots \ {s}) /\ Cardinality(Slots \ {s}) = Cardinality(Slots) - 1
  BY <1>2, FS_RemoveElement
<1>5. \E p, q \in Slots : p # q /\ queue[p] = queue[q]
  BY <1>1, <1>2, <1>3, <1>4, FS_PigeonHole
<1> QED
  BY <1>5 DEF Distinct

(* With a free entry, exactly the first of them is written.                *)
LEMMA Enqueued ==
  ASSUME NEW S, NEW queue \in [Slots -> S], NEW empty, NEW entry,
         \E q \in Slots : queue[q] = empty
  PROVE  \E q \in Slots : /\ queue[q] = empty
                          /\ Enqueue(queue, empty, entry) = [queue EXCEPT ![q] = entry]
<1> DEFINE T == {q \in Slots : queue[q] = empty}
<1>1. PICK q \in T : \A p \in T : q <= p
  <2>1. T \in SUBSET Nat /\ T # {}
    BY SlotsFacts
  <2> HIDE DEF T
  <2> QED
    BY <2>1, Least
<1>2. \A p \in Slots : p < q => queue[p] # empty
  BY <1>1, SlotsFacts
<1>3. \A p \in Slots : (\A r \in Slots : r < p => queue[r] # empty) /\ queue[p] = empty <=> p = q
  BY <1>1, <1>2, SlotsFacts
<1>4. Enqueue(queue, empty, entry) = [p \in Slots |-> IF p = q THEN entry ELSE queue[p]]
  BY <1>3 DEF Enqueue
<1> QED
  BY <1>1, <1>4
-----------------------------------------------------------------------------
(* What is in the table: a slot is the default player, or one whose id is   *)
(* the slot, whose data is the adapter that added it and whose platform     *)
(* says which kind of adapter that is.                                      *)

SlotShape(s) ==
  /\ players[s].id \in {s, -1}
  /\ players[s].id = -1 => players[s] = WNP_DEFAULT_PLAYER
  /\ players[s].id = s =>
       /\ players[s].data \in Adapters
       /\ players[s].platform = IF players[s].data \in Web THEN "WEB" ELSE "NATIVE"

TableInv == (\A s \in Slots : SlotShape(s)) /\ WebCount

(* The steps that change the table.                                         *)
LEMMA TableSteps ==
  ASSUME [Next]_vars
  PROVE  \/ \E t \in Adapters : AddPlayer(t) \/ UpdatePlayer(t) \/ RemovePlayer(t)
         \/ \E t \in Apps : TrySetState(t)
         \/ UNCHANGED <<players, total_web_players>>
<1>1. ASSUME NEW t, StartCycle(t) \/ EndCycle(t) \/ Deliver(t) \/ Recalc(t) \/ GetPlayer(t)
                    \/ CallGetPlayer(t) \/ CallGetActive(t) \/ Reread(t)
      PROVE  UNCHANGED table
  BY <1>1 DEF StartCycle, EndCycle, Deliver, ReadEntry, ReadRemoved, HandOver, Clear,
     Recalc, Recalculate, Compare, Publish, GetPlayer, Lookup, Copy, CallGetPlayer,
     CallGetActive, Reread, shared
<1>2. UNCHANGED vars => UNCHANGED table
  BY DEF vars, shared
<1> QED
  BY <1>1, <1>2 DEF Next, table

LEMMA AddSteps ==
  ASSUME NEW t \in Adapters, AddPlayer(t)
  PROVE  \E s \in Slots, browser \in BOOLEAN :
           /\ FirstFree(s)
           /\ players' = [players EXCEPT ![s] = New(t, s, browser)]
           /\ total_web_players' = total_web_players + (IF t \in Web THEN 1 ELSE 0)
           /\ added_players' = Enqueue(added_players, -1, s)
<1>1. Flags(t) \subseteq BOOLEAN
  BY DEF Flags
<1> QED
  BY <1>1 DEF AddPlayer

LEMMA UpdateSteps ==
  ASSUME NEW t \in Adapters, UpdatePlayer(t)
  PROVE  \E s \in Slots, c \in Contents, browser \in BOOLEAN :
           /\ Owns(t, s)
           /\ s \in mine[t] \/ pc[t] = "cycle"
           /\ players' = [players EXCEPT ![s] = Reported(players[s], c, browser)]
           /\ updated_players' = IF AlreadyQueued(s) THEN updated_players
                                 ELSE Enqueue(updated_players, -1, s)
           /\ mine' = [mine EXCEPT ![t] = mine[t] \ {s}]
<1>1. Flags(t) \subseteq BOOLEAN
  BY DEF Flags
<1> QED
  BY <1>1 DEF UpdatePlayer

LEMMA OwnerFacts ==
  ASSUME NEW t \in Adapters
  PROVE  t \in Owners /\ t # "NULL" /\ t \in Threads
BY ThreadsAssumption, OwnersAssumption DEF Adapters, Threads

LEMMA FreeSlot ==
  ASSUME TableInv, NEW s \in Slots, FirstFree(s)
  PROVE  players[s] = WNP_DEFAULT_PLAYER
BY DEF FirstFree, Used, TableInv, SlotShape

LEMMA WebSlotsFinite == IsFiniteSet(WebSlots) /\ Cardinality(WebSlots) \in Nat
<1>1. IsFiniteSet(Slots)
  BY MaxPlayersAssumption, FS_Interval DEF Slots
<1> QED
  BY <1>1, FS_Subset, FS_CardinalityType DEF WebSlots

(* wnp.c:209-240.                                                           *)
LEMMA AddTable ==
  ASSUME TypeOK, TableInv, NEW t \in Adapters, AddPlayer(t)
  PROVE  TableInv'
<1>1. PICK s \in Slots, browser \in BOOLEAN :
         /\ FirstFree(s)
         /\ players' = [players EXCEPT ![s] = New(t, s, browser)]
         /\ total_web_players' = total_web_players + (IF t \in Web THEN 1 ELSE 0)
  BY AddSteps
<1>2. players[s] = WNP_DEFAULT_PLAYER /\ s # -1
  BY <1>1, FreeSlot, SlotsFacts
<1>3. /\ New(t, s, browser).id = s /\ New(t, s, browser).data = t
      /\ New(t, s, browser).platform = IF t \in Web THEN "WEB" ELSE "NATIVE"
  BY OwnerFacts, NewIsPlayer
<1>4. players'[s] = New(t, s, browser) /\ \A r \in Slots \ {s} : players'[r] = players[r]
  BY <1>1 DEF TypeOK
<1>5. ASSUME NEW r \in Slots PROVE SlotShape(r)'
  <2>1. CASE r = s
    BY <2>1, <1>2, <1>3, <1>4 DEF SlotShape
  <2>2. CASE r # s
    BY <2>2, <1>4 DEF SlotShape, TableInv
  <2> QED
    BY <2>1, <2>2
<1>6. s \notin WebSlots
  BY <1>2, DefaultPlayer DEF WebSlots
<1>7. WebSlots' = IF t \in Web THEN WebSlots \cup {s} ELSE WebSlots
  <2>1. \A r \in Slots \ {s} : r \in WebSlots' <=> r \in WebSlots
    BY <1>4 DEF WebSlots
  <2>2. s \in WebSlots' <=> t \in Web
    BY <1>3, <1>4 DEF WebSlots
  <2> QED
    BY <2>1, <2>2, <1>6 DEF WebSlots
<1>c. Cardinality(WebSlots \cup {s}) = Cardinality(WebSlots) + 1
  BY <1>6, WebSlotsFinite, FS_AddElement
<1>8. Cardinality(WebSlots') = Cardinality(WebSlots) + (IF t \in Web THEN 1 ELSE 0)
  BY <1>7, <1>c, WebSlotsFinite
<1>9. WebCount'
  BY <1>1, <1>8 DEF WebCount, TableInv
<1> QED
  BY <1>5, <1>9 DEF TableInv

(* A slot is overwritten by a player with the same owner and platform.      *)
LEMMA KeepsTable ==
  ASSUME TypeOK, TableInv, NEW s \in Slots, NEW player,
         Used(s), player.id = players[s].id, player.data = players[s].data,
         player.platform = players[s].platform,
         players' = [players EXCEPT ![s] = player], UNCHANGED total_web_players
  PROVE  TableInv'
<1>1. \A r \in Slots : /\ players'[r].id = players[r].id
                       /\ players'[r].data = players[r].data
                       /\ players'[r].platform = players[r].platform
                       /\ players[r].id = -1 => players'[r] = players[r]
  BY DEF TypeOK, Used
<1>2. ASSUME NEW r \in Slots PROVE SlotShape(r)'
  BY <1>1 DEF SlotShape, TableInv
<1>3. WebSlots' = WebSlots
  BY <1>1 DEF WebSlots
<1> QED
  BY <1>2, <1>3 DEF TableInv, WebCount

(* wnp.c:281-306.                                                           *)
LEMMA RemoveTable ==
  ASSUME TypeOK, TableInv, NEW t \in Adapters, RemovePlayer(t)
  PROVE  TableInv'
<1>1. PICK s \in mine[t] :
         /\ total_web_players' = total_web_players - WebShare(s)
         /\ players' = [players EXCEPT ![s] = WNP_DEFAULT_PLAYER]
  BY DEF RemovePlayer
<1>2. s \in Slots
  BY <1>1, OwnerFacts DEF TypeOK
<1>3. players'[s] = WNP_DEFAULT_PLAYER /\ \A r \in Slots \ {s} : players'[r] = players[r]
  BY <1>1, <1>2 DEF TypeOK
<1>4. ASSUME NEW r \in Slots PROVE SlotShape(r)'
  <2>1. CASE r = s
    BY <2>1, <1>3, DefaultPlayer, SlotsFacts DEF SlotShape
  <2>2. CASE r # s
    BY <2>2, <1>3 DEF SlotShape, TableInv
  <2> QED
    BY <2>1, <2>2
<1>5. WebSlots' = WebSlots \ {s}
  <2>1. \A r \in Slots \ {s} : r \in WebSlots' <=> r \in WebSlots
    BY <1>3 DEF WebSlots
  <2>2. s \notin WebSlots'
    BY <1>3, DefaultPlayer DEF WebSlots
  <2> QED
    BY <2>1, <2>2 DEF WebSlots
<1>6. WebShare(s) = IF s \in WebSlots THEN 1 ELSE 0
  BY <1>2 DEF WebShare, WebSlots
<1>c. Cardinality(WebSlots \ {s}) = IF s \in WebSlots THEN Cardinality(WebSlots) - 1
                                                     ELSE Cardinality(WebSlots)
  BY WebSlotsFinite, FS_RemoveElement
<1>7. Cardinality(WebSlots') = Cardinality(WebSlots) - WebShare(s)
  BY <1>5, <1>6, <1>c, WebSlotsFinite
<1>8. WebCount'
  BY <1>1, <1>7 DEF WebCount, TableInv
<1> QED
  BY <1>4, <1>8 DEF TableInv

LEMMA InitTable == Init => TableInv
<1> SUFFICES ASSUME Init PROVE TableInv
  OBVIOUS
<1>1. \A s \in Slots : players[s] = WNP_DEFAULT_PLAYER
  BY DEF Init
<1>2. WebSlots = {}
  BY <1>1, DefaultPlayer DEF WebSlots
<1>3. WebCount
  BY <1>2, FS_EmptySet DEF WebCount, Init
<1> QED
  BY <1>1, <1>3, DefaultPlayer, SlotsFacts DEF TableInv, SlotShape

LEMMA NextTable == BasicInv /\ TableInv /\ [Next]_vars => TableInv'
<1> SUFFICES ASSUME BasicInv, TableInv, [Next]_vars PROVE TableInv'
  OBVIOUS
<1>t. TypeOK
  BY DEF BasicInv
<1>1. ASSUME NEW t \in Adapters, UpdatePlayer(t) PROVE TableInv'
  <2>1. PICK s \in Slots, c \in Contents, browser \in BOOLEAN :
           /\ Owns(t, s)
           /\ players' = [players EXCEPT ![s] = Reported(players[s], c, browser)]
    BY <1>1, UpdateSteps
  <2>2. /\ Reported(players[s], c, browser).id = players[s].id
        /\ Reported(players[s], c, browser).data = players[s].data
        /\ Reported(players[s], c, browser).platform = players[s].platform
    BY <1>t, ReportedIsPlayer DEF TypeOK
  <2>3. UNCHANGED total_web_players
    BY <1>1 DEF UpdatePlayer
  <2> QED
    BY <1>t, <2>1, <2>2, <2>3, KeepsTable DEF Owns
<1>2. ASSUME NEW t \in Apps, TrySetState(t) PROVE TableInv'
  <2>1. PICK s \in Slots, state \in States :
           /\ Used(s)
           /\ \/ players' = [players EXCEPT ![s] = [players[s] EXCEPT !.state = state]]
              \/ players' = players
    BY <1>2, <1>t, TrySetStateTable
  <2>2. /\ [players[s] EXCEPT !.state = state].id = players[s].id
        /\ [players[s] EXCEPT !.state = state].data = players[s].data
        /\ [players[s] EXCEPT !.state = state].platform = players[s].platform
    BY <1>t, StateSet DEF TypeOK
  <2>3. UNCHANGED total_web_players
    BY <1>2 DEF TrySetState
  <2>4. players' = players => TableInv'
    BY <2>3 DEF TableInv, SlotShape, WebCount, WebSlots
  <2> QED
    BY <1>t, <2>1, <2>2, <2>3, <2>4, KeepsTable
<1>3. UNCHANGED <<players, total_web_players>> => TableInv'
  BY DEF TableInv, SlotShape, WebCount, WebSlots
<1> QED
  BY <1>t, <1>1, <1>2, <1>3, TableSteps, AddTable, RemoveTable

(* wnp.c:209-306: the shape of the table, and the count of web players.     *)
THEOREM CoreTable == Spec => []TableInv
BY InitTable, NextTable, CoreBasic, PTL DEF Spec

(* wnp.c:232, 290: total_web_players is the number of web players in the    *)
(* table, whatever number of threads adds and removes players.              *)
THEOREM CoreWebCount == Spec => []WebCount
<1>1. TableInv => WebCount
  BY DEF TableInv
<1> QED
  BY <1>1, CoreTable, PTL

(* wnp.c:226, 261, 305: a used slot keeps its owner and its platform until a *)
(* cycle of its owner frees it.                                             *)
THEOREM CoreSlotKeepsOwner == Spec => SlotKeepsOwner
<1> DEFINE Keeps == \A s \in Slots : Used(s) =>
       \/ players'[s].data = players[s].data /\ players'[s].platform = players[s].platform
       \/ players'[s] = WNP_DEFAULT_PLAYER /\ InCycle(players[s].data)
<1>1. ASSUME BasicInv, TableInv, [Next]_vars PROVE Keeps
  <2> SUFFICES ASSUME NEW s \in Slots, Used(s), players'[s] # players[s]
               PROVE  \/ /\ players'[s].data = players[s].data
                         /\ players'[s].platform = players[s].platform
                      \/ players'[s] = WNP_DEFAULT_PLAYER /\ InCycle(players[s].data)
    OBVIOUS
  <2>t. TypeOK
    BY <1>1 DEF BasicInv
  <2>1. ASSUME NEW t \in Adapters, AddPlayer(t) PROVE FALSE
    <3>1. PICK r \in Slots, browser \in BOOLEAN :
             FirstFree(r) /\ players' = [players EXCEPT ![r] = New(t, r, browser)]
      BY <2>1, AddSteps
    <3> QED
      BY <3>1, <2>t DEF FirstFree, TypeOK
  <2>2. ASSUME NEW t \in Adapters, UpdatePlayer(t)
        PROVE  players'[s].data = players[s].data /\ players'[s].platform = players[s].platform
    <3>1. PICK r \in Slots, c \in Contents, browser \in BOOLEAN :
             players' = [players EXCEPT ![r] = Reported(players[r], c, browser)]
      BY <2>2, UpdateSteps
    <3> QED
      BY <3>1, <2>t, ReportedIsPlayer DEF TypeOK
  <2>3. ASSUME NEW t \in Adapters, RemovePlayer(t)
        PROVE  players'[s] = WNP_DEFAULT_PLAYER /\ InCycle(players[s].data)
    <3>1. PICK r \in mine[t] : Owns(t, r) /\ players' = [players EXCEPT ![r] = WNP_DEFAULT_PLAYER]
      BY <2>3 DEF RemovePlayer
    <3> QED
      BY <3>1, <2>3, <2>t DEF TypeOK, Owns, RemovePlayer
  <2>4. ASSUME NEW t \in Apps, TrySetState(t)
        PROVE  players'[s].data = players[s].data /\ players'[s].platform = players[s].platform
    <3>1. PICK r \in Slots, state \in States :
             \/ players' = [players EXCEPT ![r] = [players[r] EXCEPT !.state = state]]
             \/ players' = players
      BY <2>4, <2>t, TrySetStateTable
    <3>2. players[r] \in Player
      BY <2>t DEF TypeOK
    <3>3. players' = [players EXCEPT ![r] = [players[r] EXCEPT !.state = state]]
      BY <3>1
    <3>4. s = r
      BY <3>3, <2>t DEF TypeOK
    <3>5. players'[s] = [players[s] EXCEPT !.state = state]
      BY <3>3, <3>4, <2>t DEF TypeOK
    <3> QED
      BY <3>2, <3>4, <3>5, StateSet
  <2> QED
    BY <1>1, <2>1, <2>2, <2>3, <2>4, TableSteps
<1>2. BasicInv /\ TableInv /\ [Next]_vars => [Keeps]_vars
  BY <1>1
<1> QED
  BY <1>2, CoreBasic, CoreTable, PTL DEF Spec, SlotKeepsOwner
-----------------------------------------------------------------------------
(* What is in the queues.                                                   *)

Lists == {"added", "updated", "removed"}


RemovedIds == [q \in Slots |-> removed_players[q].id]

(* No id is in a queue twice.                                               *)
EntriesDiffer ==
  /\ Distinct(added_players) /\ Distinct(updated_players) /\ Distinct(RemovedIds)
  /\ \A q \in Slots : removed_players[q].id = -1 => removed_players[q] = WNP_DEFAULT_PLAYER

(* A slot that is used again while its former player is still in the queue  *)
(* of removed players belongs to a thread that will visit that entry.       *)
FormerIsVisited ==
  \A q \in Slots : RemovedIds[q] # -1 /\ Used(RemovedIds[q]) =>
                     Ahead(players[RemovedIds[q]].data, "removed", q)

(* What a thread in a cycle still may update or remove is in no queue.      *)
MineIsFresh ==
  \A t \in Threads : \A s \in mine[t] :
    Owns(t, s) /\ ~AlreadyQueued(s) /\ ~Queued(RemovedIds, s)

QueueInv == EntriesDiffer /\ EveryEntryIsVisited /\ FormerIsVisited /\ MineIsFresh

Gone(list, q) == IF list = "added" THEN added_players[q] = -1
                 ELSE IF list = "updated" THEN updated_players[q] = -1
                 ELSE RemovedIds[q] = -1

LEMMA InitQueues == Init => QueueInv
<1> SUFFICES ASSUME Init PROVE QueueInv
  OBVIOUS
<1>1. \A q \in Slots : /\ added_players[q] = -1 /\ updated_players[q] = -1
                       /\ removed_players[q] = WNP_DEFAULT_PLAYER /\ removed_players[q].id = -1
  BY DefaultPlayer DEF Init
<1>2. \A q \in Slots : RemovedIds[q] = -1
  BY <1>1 DEF RemovedIds
<1>3. EntriesDiffer
  BY <1>1, <1>2 DEF EntriesDiffer, Distinct
<1>4. EveryEntryIsVisited
  BY <1>1 DEF EveryEntryIsVisited
<1>5. FormerIsVisited
  BY <1>2 DEF FormerIsVisited
<1>6. MineIsFresh
  BY DEF Init, MineIsFresh
<1> QED
  BY <1>3, <1>4, <1>5, <1>6 DEF QueueInv

(* A step that changes no slot's player, only clears entries, leaves no     *)
(* thread's way to an entry that remains, and starts no cycle.              *)
LEMMA QueuesKept ==
  ASSUME TypeOK, TableInv, QueueInv,
         \A s \in Slots : players'[s].id = players[s].id /\ players'[s].data = players[s].data,
         \A q \in Slots : /\ added_players'[q] \in {added_players[q], -1}
                          /\ updated_players'[q] \in {updated_players[q], -1}
                          /\ removed_players'[q] \in {removed_players[q], WNP_DEFAULT_PLAYER},
         \A u \in Adapters, list \in Lists, q \in Slots :
            Ahead(u, list, q) => Ahead(u, list, q)' \/ Gone(list, q)',
         \A u \in Threads : mine'[u] \subseteq mine[u]
  PROVE  QueueInv'
<1> USE DEF QueueInv
<1>1. \A q \in Slots : RemovedIds'[q] \in {RemovedIds[q], -1} /\ RemovedIds'[q] = removed_players'[q].id
  BY DefaultPlayer DEF RemovedIds
<1>2. \A q \in Slots : /\ added_players[q] \in Slots \cup {-1}
                       /\ updated_players[q] \in Slots \cup {-1}
                       /\ RemovedIds[q] \in Slots \cup {-1}
  BY DEF TypeOK, RemovedIds, Player
<1>3. EntriesDiffer'
  <2>1. Distinct(added_players)'
    BY DEF EntriesDiffer, Distinct
  <2>2. Distinct(updated_players)'
    BY DEF EntriesDiffer, Distinct
  <2>3. Distinct(RemovedIds)'
    BY <1>1 DEF EntriesDiffer, Distinct
  <2>4. ASSUME NEW q \in Slots, removed_players'[q].id = -1
        PROVE  removed_players'[q] = WNP_DEFAULT_PLAYER
    BY <2>4 DEF EntriesDiffer
  <2> QED
    BY <2>1, <2>2, <2>3, <2>4 DEF EntriesDiffer
<1>5. \A u \in Adapters, s \in Slots : Owns(u, s)' <=> Owns(u, s)
  BY DEF Owns, Used
<1>6. EveryEntryIsVisited'
  <2> SUFFICES ASSUME NEW q \in Slots
               PROVE  /\ added_players'[q] # -1 =>
                           \E t \in Adapters : Owns(t, added_players[q])' /\ Ahead(t, "added", q)'
                      /\ updated_players'[q] # -1 =>
                           \E t \in Adapters : Owns(t, updated_players[q])' /\ Ahead(t, "updated", q)'
                      /\ removed_players'[q].id # -1 =>
                           \E t \in Adapters : Ahead(t, "removed", q)'
    BY DEF EveryEntryIsVisited
  <2>1. ASSUME added_players'[q] # -1
        PROVE  \E t \in Adapters : Owns(t, added_players[q])' /\ Ahead(t, "added", q)'
    <3>1. added_players'[q] = added_players[q] /\ added_players[q] \in Slots /\ ~Gone("added", q)'
      BY <2>1, <1>2 DEF Gone
    <3>2. PICK t \in Adapters : Owns(t, added_players[q]) /\ Ahead(t, "added", q)
      BY <3>1, <2>1 DEF EveryEntryIsVisited
    <3> QED
      BY <3>1, <3>2, <1>5 DEF Lists, Owns, Used
  <2>2. ASSUME updated_players'[q] # -1
        PROVE  \E t \in Adapters : Owns(t, updated_players[q])' /\ Ahead(t, "updated", q)'
    <3>1. updated_players'[q] = updated_players[q] /\ updated_players[q] \in Slots
          /\ ~Gone("updated", q)'
      BY <2>2, <1>2 DEF Gone
    <3>2. PICK t \in Adapters : Owns(t, updated_players[q]) /\ Ahead(t, "updated", q)
      BY <3>1, <2>2 DEF EveryEntryIsVisited
    <3> QED
      BY <3>1, <3>2, <1>5 DEF Lists, Owns, Used
  <2>3. ASSUME removed_players'[q].id # -1
        PROVE  \E t \in Adapters : Ahead(t, "removed", q)'
    <3>1. removed_players'[q] = removed_players[q]
      BY <2>3, DefaultPlayer
    <3>2. PICK t \in Adapters : Ahead(t, "removed", q)
      BY <3>1, <2>3 DEF EveryEntryIsVisited
    <3>3. ~Gone("removed", q)'
      BY <2>3, <1>1 DEF Gone
    <3> QED
      BY <3>2, <3>3 DEF Lists
  <2> QED
    BY <2>1, <2>2, <2>3
<1>7. FormerIsVisited'
  <2> SUFFICES ASSUME NEW q \in Slots, RemovedIds'[q] # -1, Used(RemovedIds[q])'
               PROVE  Ahead(players[RemovedIds[q]].data, "removed", q)'
    BY DEF FormerIsVisited
  <2>1. RemovedIds'[q] = RemovedIds[q] /\ RemovedIds[q] \in Slots /\ ~Gone("removed", q)'
    BY <1>1, <1>2 DEF Gone
  <2>2. Used(RemovedIds[q]) /\ players'[RemovedIds[q]].data = players[RemovedIds[q]].data
    BY <2>1 DEF Used
  <2>3. Ahead(players[RemovedIds[q]].data, "removed", q)
    BY <2>1, <2>2 DEF FormerIsVisited
  <2>4. players[RemovedIds[q]].data \in Adapters
    BY <2>1, <2>2 DEF TableInv, SlotShape, Used
  <2>5. \A u \in Adapters : Ahead(u, "removed", q) => Ahead(u, "removed", q)'
    BY <2>1 DEF Lists
  <2> QED
    BY <2>1, <2>2, <2>3, <2>4, <2>5
<1>8. MineIsFresh'
  <2> SUFFICES ASSUME NEW t \in Threads, NEW s \in mine'[t]
               PROVE  Owns(t, s)' /\ ~AlreadyQueued(s)' /\ ~Queued(RemovedIds, s)'
    BY DEF MineIsFresh
  <2>1. s \in mine[t] /\ s \in Slots
    BY DEF TypeOK
  <2>2. Owns(t, s) /\ ~AlreadyQueued(s) /\ ~Queued(RemovedIds, s) /\ s # -1
    BY <2>1, SlotsFacts DEF MineIsFresh
  <2> QED
    BY <2>1, <2>2, <1>1 DEF Owns, Used, AlreadyQueued, Queued
<1> QED
  BY <1>3, <1>6, <1>7, <1>8

(* A thread on its way passes only the entry it is at.                      *)
LEMMA AdvanceAhead ==
  ASSUME TypeOK, NEW t \in Threads, pc[t] \in {"list", "clear"}, call[t] \in Lists,
         Advance(t), NEW list \in Lists, NEW q \in Slots, Ahead(t, list, q)
  PROVE  Ahead(t, list, q)' \/ (list = call[t] /\ q = at[t])
<1>1. at[t] \in Slots /\ at[t] <= MaxPlayers - 1 /\ q <= MaxPlayers - 1 /\ 0 <= q
      /\ q \in Int /\ at[t] \in Int
  BY MaxPlayersAssumption DEF TypeOK, Slots
<1>2. list \in LoopsAfter(call[t]) \/ (call[t] = list /\ at[t] <= q)
  BY DEF Ahead, InCycle
<1>3. \/ /\ pc'[t] = "list" /\ call'[t] = call[t] /\ at'[t] = at[t] + 1
      \/ /\ pc'[t] = "list" /\ at'[t] = 0 /\ at[t] = MaxPlayers - 1
         /\ call[t] = "added" /\ call'[t] = "updated"
      \/ /\ pc'[t] = "list" /\ at'[t] = 0 /\ at[t] = MaxPlayers - 1
         /\ call[t] = "updated" /\ call'[t] = "removed"
      \/ /\ pc'[t] = "recalculate" /\ at'[t] = 0 /\ at[t] = MaxPlayers - 1
         /\ call[t] = "removed" /\ call'[t] = "none"
  BY AdvanceShape DEF Lists
<1> QED
  BY <1>1, <1>2, <1>3, MaxPlayersAssumption DEF Ahead, LoopsAfter, Delivering, Lists

(* A thread that neither moves nor changes its locals keeps its way.        *)
LEMMA AheadFrame ==
  ASSUME NEW t, NEW u \in Threads \ {t}, OnlyMoves(t), NEW list, NEW q, Ahead(u, list, q)
  PROVE  Ahead(u, list, q)'
BY DEF OnlyMoves, Ahead, InCycle, Delivering
(* A step that touches neither the table's owners nor the queues, and keeps *)
(* its thread on its way.                                                   *)
LEMMA QueuesFrame ==
  ASSUME TypeOK, TableInv, QueueInv, NEW t \in Threads, OnlyMoves(t),
         \A s \in Slots : players'[s].id = players[s].id /\ players'[s].data = players[s].data,
         UNCHANGED <<queues, mine>>,
         \A list \in Lists, q \in Slots :
           Ahead(t, list, q) => Ahead(t, list, q)' \/ Gone(list, q)
  PROVE  QueueInv'
<1>1. \A list, q : Gone(list, q)' <=> Gone(list, q)
  BY DEF queues, Gone, RemovedIds
<1>2. \A u \in Adapters, list \in Lists, q \in Slots :
        Ahead(u, list, q) => Ahead(u, list, q)' \/ Gone(list, q)'
  BY <1>1, AheadFrame, OwnerFacts
<1>3. \A q \in Slots : /\ added_players'[q] \in {added_players[q], -1}
                       /\ updated_players'[q] \in {updated_players[q], -1}
                       /\ removed_players'[q] \in {removed_players[q], WNP_DEFAULT_PLAYER}
  BY DEF queues
<1>4. \A u \in Threads : mine'[u] \subseteq mine[u]
  OBVIOUS
<1> QED
  BY <1>2, <1>3, <1>4, QueuesKept

(* wnp.c:209-215: what was announced of t's players is delivered before its *)
(* next cycle.                                                              *)
LEMMA StartQueues ==
  ASSUME BasicInv, TableInv, QueueInv, NEW t \in Adapters, StartCycle(t)
  PROVE  QueueInv'
<1>t. TypeOK /\ t \in Threads /\ ThreadShape(t) /\ t # "NULL"
  BY OwnerFacts DEF BasicInv
<1>1. /\ pc[t] = "idle" /\ mine' = [mine EXCEPT ![t] = {s \in Slots : Owns(t, s)}]
      /\ pc' = [pc EXCEPT ![t] = "cycle"]
      /\ UNCHANGED <<players, queues, call, at, cur>>
  BY DEF StartCycle, Goto, table
<1>2. \A list \in Lists, q \in Slots : ~Ahead(t, list, q)
  BY <1>1 DEF Ahead, InCycle, Delivering
<1>3. \A u \in Threads, list \in Lists, q \in Slots : Ahead(u, list, q) => Ahead(u, list, q)'
  BY <1>1, <1>2, <1>t DEF TypeOK, Ahead, InCycle, Delivering
<1>4. EntriesDiffer'
  BY <1>1 DEF QueueInv, EntriesDiffer, Distinct, RemovedIds, queues
<1>5. EveryEntryIsVisited'
  <2>1. UNCHANGED <<added_players, updated_players, removed_players, players>>
    BY <1>1 DEF queues
  <2>2. \A u \in Adapters : \A s : Owns(u, s)' <=> Owns(u, s)
    BY <2>1 DEF Owns, Used
  <2>3. "added" \in Lists /\ "updated" \in Lists /\ "removed" \in Lists /\ Adapters \subseteq Threads
    BY OwnerFacts DEF Lists
  <2> QED
    BY <1>3, <2>1, <2>2, <2>3 DEF QueueInv, EveryEntryIsVisited
<1>6. FormerIsVisited'
  <2> SUFFICES ASSUME NEW q \in Slots, RemovedIds[q] # -1, Used(RemovedIds[q])
               PROVE  Ahead(players[RemovedIds[q]].data, "removed", q)'
    BY <1>1 DEF FormerIsVisited, RemovedIds, queues, Used
  <2>1. RemovedIds[q] \in Slots
    BY <1>t DEF RemovedIds, TypeOK, Player
  <2>2. players[RemovedIds[q]].data \in Threads /\ UNCHANGED players /\ RemovedIds' = RemovedIds
    BY <2>1, <1>1, OwnerFacts DEF TableInv, SlotShape, Used, RemovedIds, queues
  <2>3. Ahead(players[RemovedIds[q]].data, "removed", q)
    BY DEF QueueInv, FormerIsVisited
  <2> QED
    BY <2>2, <2>3, <1>3 DEF Lists
<1>7. MineIsFresh'
  <2> SUFFICES ASSUME NEW u \in Threads, NEW s \in mine'[u]
               PROVE  Owns(u, s)' /\ ~AlreadyQueued(s)' /\ ~Queued(RemovedIds, s)'
    BY DEF MineIsFresh
  <2>1. UNCHANGED <<added_players, updated_players, removed_players, players>>
    BY <1>1 DEF queues
  <2>2. SUFFICES Owns(u, s) /\ ~AlreadyQueued(s) /\ ~Queued(RemovedIds, s)
    BY <2>1 DEF Owns, Used, AlreadyQueued, Queued, RemovedIds
  <2>3. CASE u # t
    BY <2>3, <1>1, <1>t DEF QueueInv, MineIsFresh, TypeOK
  <2>4. CASE u = t
    <3>1. s \in Slots /\ Owns(t, s)
      BY <2>4, <1>1, <1>t DEF TypeOK
    <3>2. \A v \in Adapters : Owns(v, s) => v = t
      BY <3>1 DEF Owns
    <3>3. ~Queued(added_players, s)
      BY <3>1, <3>2, <1>2, SlotsFacts DEF QueueInv, EveryEntryIsVisited, Queued, Lists
    <3>4. ~Queued(updated_players, s)
      BY <3>1, <3>2, <1>2, SlotsFacts DEF QueueInv, EveryEntryIsVisited, Queued, Lists
    <3>5. ~Queued(RemovedIds, s)
      BY <3>1, <1>2, SlotsFacts DEF QueueInv, FormerIsVisited, Queued, Lists, Owns
    <3> QED
      BY <2>4, <3>1, <3>3, <3>4, <3>5 DEF AlreadyQueued
  <2> QED
    BY <2>3, <2>4
<1> QED
  BY <1>4, <1>5, <1>6, <1>7 DEF QueueInv

(* wnp.c:308-312.                                                           *)
LEMMA EndQueues ==
  ASSUME BasicInv, TableInv, QueueInv, NEW t \in Adapters, EndCycle(t)
  PROVE  QueueInv'
<1>t. TypeOK /\ t \in Threads /\ ThreadShape(t)
  BY OwnerFacts DEF BasicInv
<1>1. /\ InCycle(t) /\ mine' = [mine EXCEPT ![t] = {}]
      /\ pc' = [pc EXCEPT ![t] = "list"] /\ call' = [call EXCEPT ![t] = "added"]
      /\ UNCHANGED <<players, queues, at, cur>>
  BY DEF EndCycle, Goto, table
<1>2. at[t] = 0
  BY <1>t, <1>1 DEF ThreadShape, InCycle, Delivering
<1>3. \A list \in Lists, q \in Slots : Ahead(t, list, q)'
  BY <1>1, <1>2, <1>t DEF TypeOK, Ahead, Delivering, LoopsAfter, Lists, Slots
<1>4. \A u \in Threads \ {t}, list \in Lists, q \in Slots : Ahead(u, list, q) => Ahead(u, list, q)'
  BY <1>1, <1>t DEF TypeOK, Ahead, InCycle, Delivering
<1>5. \A u \in Threads : mine'[u] \subseteq mine[u]
  BY <1>1, <1>t DEF TypeOK
<1>6. \A s \in Slots : players'[s].id = players[s].id /\ players'[s].data = players[s].data
  BY <1>1
<1>7. \A q \in Slots : /\ added_players'[q] \in {added_players[q], -1}
                       /\ updated_players'[q] \in {updated_players[q], -1}
                       /\ removed_players'[q] \in {removed_players[q], WNP_DEFAULT_PLAYER}
  BY <1>1 DEF queues
<1> QED
  BY <1>t, <1>3, <1>4, <1>5, <1>6, <1>7, QueuesKept, OwnerFacts

(* wnp.c:209-240: the new player's slot is in no queue of players.          *)
LEMMA AddQueues ==
  ASSUME BasicInv, TableInv, QueueInv, NEW t \in Adapters, AddPlayer(t)
  PROVE  QueueInv' /\ \E s, e \in Slots :
           /\ ~Used(s) /\ players'[s].id = s
           /\ \A r \in Slots \ {s} : players'[r] = players[r]
           /\ added_players[e] = -1 /\ added_players'[e] = s
           /\ \A q \in Slots \ {e} : added_players'[q] = added_players[q]
<1>t. TypeOK /\ t \in Threads /\ t # "NULL" /\ InCycle(t) /\ CycleHoldsLock
  BY OwnerFacts DEF BasicInv, AddPlayer, InCycle
<1>1. PICK s \in Slots, browser \in BOOLEAN :
         /\ FirstFree(s)
         /\ players' = [players EXCEPT ![s] = New(t, s, browser)]
         /\ added_players' = Enqueue(added_players, -1, s)
  BY AddSteps
<1>2. UNCHANGED <<updated_players, removed_players, pc, call, at, mine>>
  BY DEF AddPlayer
<1>3. ~Used(s) /\ s # -1 /\ New(t, s, browser).id = s /\ New(t, s, browser).data = t
  BY <1>1, SlotsFacts, OwnerFacts, NewIsPlayer DEF FirstFree
<1>4. players'[s] = New(t, s, browser) /\ \A r \in Slots \ {s} : players'[r] = players[r]
  BY <1>1, <1>t DEF TypeOK
<1>5. ~Queued(added_players, s) /\ ~Queued(updated_players, s)
  BY <1>3 DEF QueueInv, EveryEntryIsVisited, Queued, Owns
<1>6. PICK e \in Slots : added_players[e] = -1 /\ added_players' = [added_players EXCEPT ![e] = s]
  <2>1. added_players \in [Slots -> Slots \cup {-1}] /\ Distinct(added_players)
    BY <1>t DEF TypeOK, QueueInv, EntriesDiffer
  <2>2. \E e \in Slots : added_players[e] = -1
    BY <2>1, <1>5, Room
  <2>3. \E e \in Slots : /\ added_players[e] = -1
                         /\ Enqueue(added_players, -1, s) = [added_players EXCEPT ![e] = s]
    BY <2>1, <2>2, Enqueued
  <2> QED
    BY <1>1, <2>3
<1>7. added_players'[e] = s /\ \A q \in Slots \ {e} : added_players'[q] = added_players[q]
  BY <1>6, <1>t DEF TypeOK
<1>8. RemovedIds' = RemovedIds /\ \A u, list, q : Ahead(u, list, q)' <=> Ahead(u, list, q)
  BY <1>2 DEF RemovedIds, Ahead, InCycle, Delivering
<1>9. /\ Owns(t, s)' /\ \A u \in Threads, r \in Slots \ {s} : Owns(u, r)' <=> Owns(u, r)
      /\ \A list, q : Ahead(t, list, q)
  BY <1>3, <1>4, <1>t DEF Owns, Used, Ahead
<1>10. EntriesDiffer'
  BY <1>2, <1>5, <1>7, <1>8 DEF QueueInv, EntriesDiffer, Distinct, Queued
<1>11. EveryEntryIsVisited'
  <2> SUFFICES ASSUME NEW q \in Slots
               PROVE  /\ added_players'[q] # -1 =>
                           \E u \in Adapters : Owns(u, added_players[q])' /\ Ahead(u, "added", q)'
                      /\ updated_players'[q] # -1 =>
                           \E u \in Adapters : Owns(u, updated_players[q])' /\ Ahead(u, "updated", q)'
                      /\ removed_players'[q].id # -1 =>
                           \E u \in Adapters : Ahead(u, "removed", q)'
    BY DEF EveryEntryIsVisited
  <2>1. \A u \in Adapters, r \in Slots : Owns(u, r) => Owns(u, r)'
    BY <1>3, <1>9, OwnerFacts DEF Owns
  <2>2. added_players'[q] # -1 =>
           \E u \in Adapters : Owns(u, added_players[q])' /\ Ahead(u, "added", q)'
    <3>1. CASE q = e
      BY <3>1, <1>7, <1>8, <1>9 DEF Owns, Used
    <3>2. CASE q # e
      <4>1. added_players'[q] = added_players[q] /\ added_players[q] \in Slots \cup {-1}
        BY <3>2, <1>7, <1>t DEF TypeOK
      <4> QED
        BY <4>1, <1>8, <2>1 DEF QueueInv, EveryEntryIsVisited, Owns, Used
    <3> QED
      BY <3>1, <3>2
  <2>3. updated_players'[q] # -1 =>
           \E u \in Adapters : Owns(u, updated_players[q])' /\ Ahead(u, "updated", q)'
    <3>1. updated_players'[q] = updated_players[q] /\ updated_players[q] \in Slots \cup {-1}
      BY <1>2, <1>t DEF TypeOK
    <3> QED
      BY <3>1, <1>8, <2>1 DEF QueueInv, EveryEntryIsVisited, Owns, Used
  <2>4. removed_players'[q].id # -1 => \E u \in Adapters : Ahead(u, "removed", q)'
    BY <1>2, <1>8 DEF QueueInv, EveryEntryIsVisited
  <2> QED
    BY <2>2, <2>3, <2>4
<1>12. FormerIsVisited'
  <2> SUFFICES ASSUME NEW q \in Slots, RemovedIds[q] # -1, Used(RemovedIds[q])'
               PROVE  Ahead(players'[RemovedIds[q]].data, "removed", q)
    BY <1>8 DEF FormerIsVisited
  <2>1. RemovedIds[q] \in Slots
    BY <1>t DEF RemovedIds, TypeOK, Player
  <2>2. CASE RemovedIds[q] = s
    BY <2>2, <1>3, <1>4, <1>9
  <2>3. CASE RemovedIds[q] # s
    BY <2>1, <2>3, <1>4, <1>8 DEF QueueInv, FormerIsVisited, Used
  <2> QED
    BY <2>2, <2>3
<1>13. MineIsFresh'
  <2> SUFFICES ASSUME NEW u \in Threads, NEW r \in mine[u]
               PROVE  Owns(u, r)' /\ ~AlreadyQueued(r)' /\ ~Queued(RemovedIds, r)'
    BY <1>2 DEF MineIsFresh
  <2>1. Owns(u, r) /\ ~AlreadyQueued(r) /\ ~Queued(RemovedIds, r) /\ r \in Slots
    BY <1>t DEF QueueInv, MineIsFresh, TypeOK
  <2>2. r # s
    BY <2>1, <1>3 DEF Owns
  <2> QED
    BY <2>1, <2>2, <1>2, <1>7, <1>8, <1>9 DEF AlreadyQueued, Queued
<1> QED
  BY <1>3, <1>4, <1>6, <1>7, <1>10, <1>11, <1>12, <1>13 DEF QueueInv

(* wnp.c:242-279: the player is in no queue, or in one already.             *)
LEMMA UpdateQueues ==
  ASSUME BasicInv, TableInv, QueueInv, NEW t \in Adapters, UpdatePlayer(t)
  PROVE  QueueInv' /\ \E s \in Slots :
           /\ AlreadyQueued(s)' /\ players'[s].id = players[s].id
           /\ \A r \in Slots \ {s} : players'[r] = players[r]
           /\ \A q \in Slots : updated_players[q] # -1 => updated_players'[q] = updated_players[q]
<1>t. TypeOK /\ t \in Threads /\ t # "NULL" /\ InCycle(t) /\ InCycle(t)' /\ CycleHoldsLock
  <2>1. pc'[t] \in {"cycle", "sweep"}
    BY OwnerFacts DEF BasicInv, TypeOK, UpdatePlayer, Goto
  <2> QED
    BY <2>1, OwnerFacts DEF BasicInv, UpdatePlayer, InCycle
<1>1. PICK s \in Slots, c \in Contents, browser \in BOOLEAN :
         /\ Owns(t, s)
         /\ players' = [players EXCEPT ![s] = Reported(players[s], c, browser)]
         /\ updated_players' = IF AlreadyQueued(s) THEN updated_players
                               ELSE Enqueue(updated_players, -1, s)
         /\ mine' = [mine EXCEPT ![t] = mine[t] \ {s}]
  BY UpdateSteps
<1>2. /\ UNCHANGED <<added_players, removed_players, call, at>>
      /\ \A u \in Threads \ {t} : pc'[u] = pc[u]
  BY <1>t DEF UpdatePlayer, Goto, TypeOK
<1>3. /\ \A r \in Slots : players'[r].id = players[r].id /\ players'[r].data = players[r].data
      /\ \A r \in Slots \ {s} : players'[r] = players[r]
  BY <1>1, <1>t, ReportedIsPlayer DEF TypeOK
<1>4. RemovedIds' = RemovedIds
  BY <1>2 DEF RemovedIds
<1>5. \A u \in Threads : \A list, q : Ahead(u, list, q) => Ahead(u, list, q)'
  BY <1>t, <1>2 DEF Ahead, InCycle, Delivering
<1>6. \A list, q : Ahead(t, list, q)'
  BY <1>t DEF Ahead
<1>7. \A u \in Threads, r \in Slots : Owns(u, r)' <=> Owns(u, r)
  BY <1>3 DEF Owns, Used
<1>8. \/ Distinct(updated_players)' /\ Queued(updated_players, s)'
      \/ AlreadyQueued(s) /\ UNCHANGED updated_players
  <2>1. CASE ~AlreadyQueued(s)
    <3>1. updated_players \in [Slots -> Slots \cup {-1}] /\ Distinct(updated_players)
          /\ ~Queued(updated_players, s)
      BY <2>1, <1>t DEF TypeOK, QueueInv, EntriesDiffer, AlreadyQueued
    <3>2. \E e \in Slots : updated_players[e] = -1
      BY <3>1, Room
    <3>3. PICK e \in Slots : /\ updated_players[e] = -1
                             /\ Enqueue(updated_players, -1, s) = [updated_players EXCEPT ![e] = s]
      BY <3>1, <3>2, Enqueued
    <3>4. updated_players'[e] = s /\ \A q \in Slots \ {e} : updated_players'[q] = updated_players[q]
      BY <1>1, <2>1, <3>1, <3>3
    <3> QED
      BY <3>1, <3>4 DEF Distinct, Queued
  <2> QED
    BY <2>1, <1>1
<1>9. \A q \in Slots : updated_players'[q] \in {updated_players[q], s}
  BY <1>1, <1>t DEF Enqueue, TypeOK
<1>14. \A q \in Slots : updated_players[q] # -1 => updated_players'[q] = updated_players[q]
  BY <1>1, <1>t DEF Enqueue, TypeOK
<1>10. EntriesDiffer'
  BY <1>2, <1>4, <1>8 DEF QueueInv, EntriesDiffer, Distinct
<1>11. EveryEntryIsVisited'
  <2> SUFFICES ASSUME NEW q \in Slots
               PROVE  /\ added_players[q] # -1 =>
                           \E u \in Adapters : Owns(u, added_players[q])' /\ Ahead(u, "added", q)'
                      /\ updated_players'[q] # -1 =>
                           \E u \in Adapters : Owns(u, updated_players[q])' /\ Ahead(u, "updated", q)'
                      /\ removed_players[q].id # -1 =>
                           \E u \in Adapters : Ahead(u, "removed", q)'
    BY <1>2 DEF EveryEntryIsVisited, Owns, Used
  <2>0. Adapters \subseteq Threads
    BY OwnerFacts
  <2>1. added_players[q] # -1 =>
           \E u \in Adapters : Owns(u, added_players[q])' /\ Ahead(u, "added", q)'
    <3>1. added_players[q] \in Slots \cup {-1}
      BY <1>t DEF TypeOK
    <3> QED
      BY <3>1, <2>0, <1>2, <1>5, <1>7 DEF QueueInv, EveryEntryIsVisited, Owns, Used
  <2>2. updated_players'[q] # -1 =>
           \E u \in Adapters : Owns(u, updated_players[q])' /\ Ahead(u, "updated", q)'
    <3>1. CASE updated_players'[q] = s
      BY <3>1, <1>1, <1>3, <1>6, <2>0 DEF Owns, Used
    <3>2. CASE updated_players'[q] = updated_players[q]
      <4>1. updated_players[q] \in Slots \cup {-1}
        BY <1>t DEF TypeOK
      <4> QED
        BY <3>2, <4>1, <2>0, <1>2, <1>5, <1>7 DEF QueueInv, EveryEntryIsVisited, Owns, Used
    <3> QED
      BY <3>1, <3>2, <1>9
  <2>3. removed_players[q].id # -1 => \E u \in Adapters : Ahead(u, "removed", q)'
    BY <2>0, <1>5 DEF QueueInv, EveryEntryIsVisited, Owns, Used
  <2> QED
    BY <2>1, <2>2, <2>3
<1>12. FormerIsVisited'
  <2> SUFFICES ASSUME NEW q \in Slots, RemovedIds[q] # -1, Used(RemovedIds[q])'
               PROVE  Ahead(players[RemovedIds[q]].data, "removed", q)'
    BY <1>4 DEF FormerIsVisited, Used
  <2>1. RemovedIds[q] \in Slots
    BY <1>t DEF RemovedIds, TypeOK, Player
  <2>2. Used(RemovedIds[q]) /\ players'[RemovedIds[q]].data = players[RemovedIds[q]].data
    BY <2>1, <1>3, <1>4 DEF Used
  <2>3. Ahead(players[RemovedIds[q]].data, "removed", q)
    BY <2>2 DEF QueueInv, FormerIsVisited
  <2>4. players[RemovedIds[q]].data \in Threads
    BY <2>1, <2>2, OwnerFacts DEF TableInv, SlotShape, Used
  <2> QED
    BY <2>2, <2>3, <2>4, <1>4, <1>5
<1>13. MineIsFresh'
  <2> SUFFICES ASSUME NEW u \in Threads, NEW r \in mine'[u]
               PROVE  Owns(u, r)' /\ ~AlreadyQueued(r)' /\ ~Queued(RemovedIds, r)
    BY <1>4 DEF MineIsFresh
  <2>1. r \in mine[u] /\ r \in Slots /\ (u = t => r # s)
    BY <1>1, <1>t DEF TypeOK
  <2>2. Owns(u, r) /\ ~AlreadyQueued(r) /\ ~Queued(RemovedIds, r)
    BY <2>1 DEF QueueInv, MineIsFresh
  <2>3. r # s
    BY <2>1, <2>2, <1>1 DEF Owns
  <2>4. ~AlreadyQueued(r)'
    BY <2>2, <2>3, <1>2, <1>9 DEF AlreadyQueued, Queued
  <2> QED
    BY <2>1, <2>2, <2>4, <1>7
<1> QED
  BY <1>2, <1>3, <1>8, <1>9, <1>10, <1>11, <1>12, <1>13, <1>14
     DEF QueueInv, AlreadyQueued, Queued

(* wnp.c:281-306: no earlier player of the slot is still in the queue.      *)
LEMMA RemoveQueues ==
  ASSUME BasicInv, TableInv, QueueInv, NEW t \in Adapters, RemovePlayer(t)
  PROVE  QueueInv' /\ \E s, e \in Slots :
           /\ Used(s) /\ ~AlreadyQueued(s) /\ players'[s].id = -1
           /\ \A r \in Slots \ {s} : players'[r] = players[r]
           /\ RemovedIds[e] = -1 /\ RemovedIds'[e] = s
           /\ \A q \in Slots \ {e} : RemovedIds'[q] = RemovedIds[q]
<1>t. TypeOK /\ t \in Threads /\ t # "NULL" /\ InCycle(t) /\ InCycle(t)' /\ CycleHoldsLock
  <2>1. pc'[t] \in {"cycle", "sweep"}
    BY OwnerFacts DEF BasicInv, TypeOK, RemovePlayer, Goto
  <2> QED
    BY <2>1, OwnerFacts DEF BasicInv, RemovePlayer, InCycle
<1>1. PICK s \in mine[t] :
         /\ Owns(t, s)
         /\ removed_players' = Enqueue(removed_players, WNP_DEFAULT_PLAYER, Freed(players[s]))
         /\ players' = [players EXCEPT ![s] = WNP_DEFAULT_PLAYER]
         /\ mine' = [mine EXCEPT ![t] = mine[t] \ {s}]
  BY DEF RemovePlayer
<1>2. /\ UNCHANGED <<added_players, updated_players, call, at>>
      /\ \A u \in Threads \ {t} : pc'[u] = pc[u]
  BY <1>t DEF RemovePlayer, Goto, TypeOK
<1>3. s \in Slots /\ s # -1 /\ ~AlreadyQueued(s) /\ ~Queued(RemovedIds, s)
  BY <1>1, <1>t, SlotsFacts DEF QueueInv, MineIsFresh, TypeOK
<1>4. /\ players'[s] = WNP_DEFAULT_PLAYER /\ players'[s].id = -1
      /\ \A r \in Slots \ {s} : players'[r] = players[r]
  BY <1>1, <1>3, <1>t, DefaultPlayer DEF TypeOK
<1>5. Freed(players[s]).id = s
  BY <1>1, <1>3, <1>t, FreedIsPlayer DEF TypeOK, TableInv, SlotShape, Owns, Used
<1>6. \A u \in Threads : \A list, q : Ahead(u, list, q) => Ahead(u, list, q)'
  BY <1>t, <1>2 DEF Ahead, InCycle, Delivering
<1>7. \A list, q : Ahead(t, list, q)'
  BY <1>t DEF Ahead
<1>8. \A u \in Threads, r \in Slots \ {s} : Owns(u, r)' <=> Owns(u, r)
  BY <1>4 DEF Owns, Used
<1>9. RemovedIds \in [Slots -> Slots \cup {-1}] /\ removed_players \in [Slots -> Player]
  BY <1>t DEF RemovedIds, TypeOK, Player
<1>10. PICK e \in Slots : /\ removed_players[e] = WNP_DEFAULT_PLAYER
                          /\ removed_players' = [removed_players EXCEPT ![e] = Freed(players[s])]
  <2>1. Distinct(RemovedIds)
    BY DEF QueueInv, EntriesDiffer
  <2>2. PICK p \in Slots : RemovedIds[p] = -1
    BY <2>1, <1>3, <1>9, Room
  <2>3. removed_players[p] = WNP_DEFAULT_PLAYER
    BY <2>2 DEF QueueInv, EntriesDiffer, RemovedIds
  <2>4. \E e \in Slots : removed_players[e] = WNP_DEFAULT_PLAYER
    BY <2>3
  <2>5. \E e \in Slots : /\ removed_players[e] = WNP_DEFAULT_PLAYER
                         /\ Enqueue(removed_players, WNP_DEFAULT_PLAYER, Freed(players[s]))
                              = [removed_players EXCEPT ![e] = Freed(players[s])]
    BY <2>4, <1>9, Enqueued
  <2> QED
    BY <2>5, <1>1
<1>11. /\ removed_players'[e] = Freed(players[s])
       /\ \A q \in Slots \ {e} : removed_players'[q] = removed_players[q]
  BY <1>10, <1>9
<1>12. RemovedIds'[e] = s /\ \A q \in Slots \ {e} : RemovedIds'[q] = RemovedIds[q]
  BY <1>5, <1>11 DEF RemovedIds
<1>13. EntriesDiffer'
  <2>1. Distinct(added_players)' /\ Distinct(updated_players)'
    BY <1>2 DEF QueueInv, EntriesDiffer, Distinct
  <2>2. Distinct(RemovedIds)'
    BY <1>3, <1>12 DEF QueueInv, EntriesDiffer, Distinct, Queued
  <2>3. ASSUME NEW q \in Slots, removed_players'[q].id = -1
        PROVE  removed_players'[q] = WNP_DEFAULT_PLAYER
    BY <2>3, <1>3, <1>5, <1>11 DEF QueueInv, EntriesDiffer
  <2> QED
    BY <2>1, <2>2, <2>3 DEF EntriesDiffer
<1>14. EveryEntryIsVisited'
  <2> SUFFICES ASSUME NEW q \in Slots
               PROVE  /\ added_players[q] # -1 =>
                           \E u \in Adapters : Owns(u, added_players[q])' /\ Ahead(u, "added", q)'
                      /\ updated_players[q] # -1 =>
                           \E u \in Adapters : Owns(u, updated_players[q])' /\ Ahead(u, "updated", q)'
                      /\ removed_players'[q].id # -1 =>
                           \E u \in Adapters : Ahead(u, "removed", q)'
    BY <1>2 DEF EveryEntryIsVisited, Owns, Used
  <2>0. Adapters \subseteq Threads
    BY OwnerFacts
  <2>q. added_players[q] # s /\ updated_players[q] # s
    BY <1>3 DEF AlreadyQueued, Queued
  <2>r. added_players[q] \in Slots \cup {-1} /\ updated_players[q] \in Slots \cup {-1}
    BY <1>t DEF TypeOK
  <2>1. added_players[q] # -1 =>
           \E u \in Adapters : Owns(u, added_players[q])' /\ Ahead(u, "added", q)'
    BY <2>0, <2>q, <2>r, <1>6, <1>2, <1>8 DEF QueueInv, EveryEntryIsVisited, Owns, Used
  <2>2. updated_players[q] # -1 =>
           \E u \in Adapters : Owns(u, updated_players[q])' /\ Ahead(u, "updated", q)'
    BY <2>0, <2>q, <2>r, <1>6, <1>2, <1>8 DEF QueueInv, EveryEntryIsVisited, Owns, Used
  <2>3. removed_players'[q].id # -1 => \E u \in Adapters : Ahead(u, "removed", q)'
    BY <2>0, <1>6, <1>7, <1>11 DEF QueueInv, EveryEntryIsVisited
  <2> QED
    BY <2>1, <2>2, <2>3
<1>15. FormerIsVisited'
  <2> SUFFICES ASSUME NEW q \in Slots, RemovedIds'[q] # -1, Used(RemovedIds[q])'
               PROVE  Ahead(players[RemovedIds[q]].data, "removed", q)'
    BY DEF FormerIsVisited
  <2>1. q # e
    BY <1>4, <1>12 DEF Used
  <2>2. RemovedIds'[q] = RemovedIds[q] /\ RemovedIds[q] \in Slots /\ RemovedIds[q] # s
    BY <2>1, <1>3, <1>9, <1>12 DEF Queued
  <2>3. Used(RemovedIds[q]) /\ players'[RemovedIds[q]].data = players[RemovedIds[q]].data
    BY <2>2, <1>4 DEF Used
  <2>4. Ahead(players[RemovedIds[q]].data, "removed", q)
    BY <2>2, <2>3 DEF QueueInv, FormerIsVisited
  <2>5. players[RemovedIds[q]].data \in Threads
    BY <2>2, <2>3, OwnerFacts DEF TableInv, SlotShape, Used
  <2> QED
    BY <2>2, <2>3, <2>4, <2>5, <1>6
<1>16. MineIsFresh'
  <2> SUFFICES ASSUME NEW u \in Threads, NEW r \in mine'[u]
               PROVE  Owns(u, r)' /\ ~AlreadyQueued(r)' /\ ~Queued(RemovedIds, r)'
    BY DEF MineIsFresh
  <2>1. r \in mine[u] /\ r \in Slots /\ (u = t => r # s)
    BY <1>1, <1>t DEF TypeOK
  <2>2. Owns(u, r) /\ ~AlreadyQueued(r) /\ ~Queued(RemovedIds, r)
    BY <2>1 DEF QueueInv, MineIsFresh
  <2>3. r # s
    BY <2>1, <2>2, <1>1 DEF Owns
  <2>4. ~AlreadyQueued(r)' /\ ~Queued(RemovedIds, r)'
    BY <2>2, <2>3, <1>2, <1>12 DEF AlreadyQueued, Queued
  <2> QED
    BY <2>1, <2>3, <2>2, <2>4, <1>8
<1> QED
  <2>1. Used(s)
    BY <1>1 DEF Owns
  <2>2. RemovedIds[e] = -1
    BY <1>10, DefaultPlayer DEF RemovedIds
  <2> QED
    BY <2>1, <2>2, <1>3, <1>4, <1>12, <1>13, <1>14, <1>15, <1>16 DEF QueueInv

(* wnp.c:314-338.                                                           *)
LEMMA DeliverQueues ==
  ASSUME BasicInv, TableInv, QueueInv, NEW t \in Adapters, Deliver(t)
  PROVE  QueueInv'
<1>t. TypeOK /\ t \in Threads /\ ThreadShape(t)
  BY OwnerFacts DEF BasicInv
<1>1. CASE ReadEntry(t)
  <2>1. UNCHANGED <<players, queues, mine>> /\ pc[t] = "list" /\ call[t] \in {"added", "updated"}
    BY <1>1 DEF ReadEntry, shared, table
  <2>2. CASE Entry(t) = -1 /\ Advance(t) /\ UNCHANGED cur
    <3>1. OnlyMoves(t)
      BY <2>1, <2>2, <1>t, AdvanceShape DEF OnlyMoves
    <3>2. Gone(call[t], at[t])
      BY <2>1, <2>2 DEF Entry, Gone
    <3>3. \A list \in Lists, q \in Slots :
             Ahead(t, list, q) => Ahead(t, list, q)' \/ Gone(list, q)
      BY <2>1, <2>2, <3>2, <1>t, AdvanceAhead DEF Lists
    <3> QED
      BY <2>1, <3>1, <3>3, <1>t, QueuesFrame
  <2>3. CASE /\ cur' = [cur EXCEPT ![t] = Entry(t)]
             /\ Goto(t, "lookup") /\ UNCHANGED <<call, at>>
    <3>1. OnlyMoves(t)
      BY <2>1, <2>3, <1>t DEF OnlyMoves, Goto, TypeOK
    <3>2. \A list \in Lists, q \in Slots : Ahead(t, list, q) => Ahead(t, list, q)'
      BY <2>1, <2>3, <1>t DEF Ahead, InCycle, Delivering, Goto, TypeOK
    <3> QED
      BY <2>1, <3>1, <3>2, <1>t, QueuesFrame
  <2> QED
    BY <2>2, <2>3, <1>1 DEF ReadEntry
<1>2. CASE ReadRemoved(t)
  <2>1. UNCHANGED <<players, queues, mine, cur>> /\ pc[t] = "list" /\ call[t] = "removed"
    BY <1>2 DEF ReadRemoved, shared, table
  <2>2. CASE removed_players[at[t]].id = -1 /\ Advance(t)
    <3>1. OnlyMoves(t)
      BY <2>1, <2>2, <1>t, AdvanceShape DEF OnlyMoves
    <3>2. Gone(call[t], at[t])
      BY <2>1, <2>2, <1>t DEF RemovedIds, Gone, TypeOK
    <3>3. \A list \in Lists, q \in Slots :
             Ahead(t, list, q) => Ahead(t, list, q)' \/ Gone(list, q)
      BY <2>1, <2>2, <3>2, <1>t, AdvanceAhead DEF Lists
    <3> QED
      BY <2>1, <3>1, <3>3, <1>t, QueuesFrame
  <2>3. CASE Goto(t, "hand_over") /\ UNCHANGED <<call, at>>
    <3>1. OnlyMoves(t)
      BY <2>1, <2>3, <1>t DEF OnlyMoves, Goto, TypeOK
    <3>2. \A list \in Lists, q \in Slots : Ahead(t, list, q) => Ahead(t, list, q)'
      BY <2>1, <2>3, <1>t DEF Ahead, InCycle, Delivering, Goto, TypeOK
    <3> QED
      BY <2>1, <3>1, <3>2, <1>t, QueuesFrame
  <2> QED
    BY <2>2, <2>3, <1>2 DEF ReadRemoved
<1>3. CASE HandOver(t)
  <2>1. /\ UNCHANGED <<players, queues, mine, call, at, cur>>
        /\ pc[t] = "hand_over" /\ Goto(t, "clear")
    BY <1>3 DEF HandOver, shared, table
  <2>2. OnlyMoves(t)
    BY <2>1, <1>t DEF OnlyMoves, Goto, TypeOK
  <2>3. \A list \in Lists, q \in Slots : Ahead(t, list, q) => Ahead(t, list, q)'
    BY <2>1, <1>t DEF Ahead, InCycle, Delivering, Goto, TypeOK
  <2> QED
    BY <2>1, <2>2, <2>3, <1>t, QueuesFrame
<1>4. CASE Clear(t)
  <2>1. /\ UNCHANGED <<players, mine>> /\ pc[t] = "clear" /\ cur' = [cur EXCEPT ![t] = -1]
        /\ Advance(t) /\ call[t] \in Lists
    BY <1>4, <1>t DEF Clear, ThreadShape, table, Lists
  <2>2. OnlyMoves(t)
    BY <2>1, <1>t, AdvanceShape DEF OnlyMoves, Lists, TypeOK
  <2>3. \A q \in Slots : /\ added_players'[q] \in {added_players[q], -1}
                         /\ updated_players'[q] \in {updated_players[q], -1}
                         /\ removed_players'[q] \in {removed_players[q], WNP_DEFAULT_PLAYER}
    BY <1>4, <1>t DEF Clear, TypeOK
  <2>4. \A list \in Lists, q \in Slots : list = call[t] /\ q = at[t] => Gone(list, q)'
    <3>1. at[t] \in Slots
      BY <1>t DEF TypeOK
    <3>2. call[t] = "added" => added_players'[at[t]] = -1
      BY <3>1, <1>4, <1>t DEF Clear, TypeOK
    <3>3. call[t] = "updated" => updated_players'[at[t]] = -1
      BY <3>1, <1>4, <1>t DEF Clear, TypeOK
    <3>4. call[t] = "removed" => RemovedIds'[at[t]] = -1
      BY <3>1, <1>4, <1>t, DefaultPlayer DEF Clear, TypeOK, RemovedIds
    <3> QED
      BY <3>2, <3>3, <3>4 DEF Gone, Lists
  <2>5. \A u \in Adapters, list \in Lists, q \in Slots :
           Ahead(u, list, q) => Ahead(u, list, q)' \/ Gone(list, q)'
    BY <2>1, <2>2, <2>4, <1>t, AdvanceAhead, AheadFrame, OwnerFacts
  <2> QED
    BY <2>1, <2>3, <2>5, <1>t, QueuesKept
<1> QED
  BY <1>1, <1>2, <1>3, <1>4 DEF Deliver

(* wnp.c:625-642: the caller is still delivering the same entry.            *)
LEMMA GetPlayerQueues ==
  ASSUME BasicInv, TableInv, QueueInv, NEW t \in Threads, GetPlayer(t)
  PROVE  QueueInv'
<1>t. TypeOK /\ ThreadShape(t)
  BY DEF BasicInv
<1>1. UNCHANGED <<players, queues, mine, at>> /\ pc[t] \in {"lookup", "copy"}
  BY DEF GetPlayer, Lookup, Copy, shared, table
<1>2. AfterCall(t) \/ (Goto(t, "copy") /\ UNCHANGED <<call, cur>>)
  BY DEF GetPlayer, Lookup, Copy
<1>3. OnlyMoves(t)
  BY <1>1, <1>2, <1>t, AfterCallShape DEF OnlyMoves, Goto, TypeOK
<1>4. \A list \in Lists, q \in Slots : Ahead(t, list, q) => Ahead(t, list, q)'
  <2> SUFFICES ASSUME NEW list \in Lists, NEW q \in Slots, Ahead(t, list, q)
               PROVE  Ahead(t, list, q)'
    OBVIOUS
  <2>1. call[t] \in {"added", "updated"} /\ call[t] # "removed"
    BY <1>1, <1>t DEF Ahead, InCycle, Delivering, ThreadShape
  <2>2. pc'[t] \in {"clear", "copy"} /\ call' = call
    BY <1>1, <1>2, <1>t, <2>1 DEF AfterCall, Goto, TypeOK
  <2> QED
    BY <1>1, <2>1, <2>2 DEF Ahead, InCycle, Delivering
<1> QED
  BY <1>1, <1>3, <1>4, <1>t, QueuesFrame

(* Steps of threads that have nothing to deliver.                           *)
LEMMA RestQueues ==
  ASSUME BasicInv, TableInv, QueueInv, NEW t \in Threads,
         \/ Recalc(t)
         \/ t \in Apps /\ (CallGetPlayer(t) \/ CallGetActive(t) \/ Reread(t) \/ TrySetState(t))
  PROVE  QueueInv'
<1>t. TypeOK
  BY DEF BasicInv
<1>1. /\ UNCHANGED <<queues, mine, at>>
      /\ pc[t] \in {"recalculate", "compare", "publish", "idle", "reread"}
  BY DEF Recalc, Recalculate, Compare, Publish, CallGetPlayer, CallGetActive, Reread,
     TrySetState, shared
<1>2. OnlyMoves(t)
  <2>1. \A u \in Threads \ {t} : pc'[u] = pc[u]
    BY <1>t DEF Recalc, Recalculate, Compare, Publish, CallGetPlayer, CallGetActive, Reread,
       TrySetState, Goto, Return, TypeOK
  <2>2. \A u \in Threads \ {t} : call'[u] = call[u]
    BY <1>t DEF Recalc, Recalculate, Compare, Publish, CallGetPlayer, CallGetActive, Reread,
       TrySetState, Return, TypeOK
  <2>3. \A u \in Threads \ {t} : cur'[u] = cur[u]
    BY <1>t DEF Recalc, Recalculate, Compare, Publish, CallGetPlayer, CallGetActive, Reread,
       TrySetState, Return, TypeOK
  <2> QED
    BY <1>1, <2>1, <2>2, <2>3 DEF OnlyMoves
<1>3. \A list \in Lists, q \in Slots : ~Ahead(t, list, q)
  BY <1>1 DEF Ahead, InCycle, Delivering
<1>4. \A s \in Slots : players'[s].id = players[s].id /\ players'[s].data = players[s].data
  <2>1. CASE UNCHANGED players
    BY <2>1
  <2>2. CASE t \in Apps /\ TrySetState(t)
    <3>1. PICK s \in Slots, state \in States :
             \/ players' = [players EXCEPT ![s] = [players[s] EXCEPT !.state = state]]
             \/ players' = players
      BY <2>2, <1>t, TrySetStateTable
    <3>2. /\ [players[s] EXCEPT !.state = state].id = players[s].id
          /\ [players[s] EXCEPT !.state = state].data = players[s].data
      BY <1>t, StateSet DEF TypeOK
    <3> DEFINE player == [players[s] EXCEPT !.state = state]
    <3>3. player.id = players[s].id /\ player.data = players[s].data
      BY <3>2
    <3>4. players' = [players EXCEPT ![s] = player] \/ players' = players
      BY <3>1
    <3> HIDE DEF player
    <3> QED
      BY <3>3, <3>4, <1>t DEF TypeOK
  <2> QED
    BY <2>1, <2>2 DEF Recalc, Recalculate, Compare, Publish, CallGetPlayer, CallGetActive,
       Reread, shared, table
<1> QED
  BY <1>1, <1>2, <1>3, <1>4, <1>t, QueuesFrame

LEMMA NextQueues == BasicInv /\ TableInv /\ QueueInv /\ [Next]_vars => QueueInv'
<1> SUFFICES ASSUME BasicInv, TableInv, QueueInv, [Next]_vars PROVE QueueInv'
  OBVIOUS
<1>1. CASE Next
  BY <1>1, NextSteps, StartQueues, AddQueues, UpdateQueues, RemoveQueues, EndQueues,
     DeliverQueues, GetPlayerQueues, RestQueues, OwnerFacts DEF Threads
<1>2. CASE UNCHANGED vars
  <2>1. /\ UNCHANGED <<players, added_players, updated_players, removed_players, mine>>
        /\ UNCHANGED <<pc, call, at>>
    BY <1>2 DEF vars, shared, table, queues
  <2>2. \A u \in Adapters, list \in Lists, q \in Slots :
           Ahead(u, list, q) => Ahead(u, list, q)' \/ Gone(list, q)'
    BY <2>1 DEF Ahead, InCycle, Delivering
  <2>3. TypeOK
    BY DEF BasicInv
  <2>4. \A s \in Slots : players'[s].id = players[s].id /\ players'[s].data = players[s].data
    BY <2>1
  <2>5. \A q \in Slots : /\ added_players'[q] \in {added_players[q], -1}
                         /\ updated_players'[q] \in {updated_players[q], -1}
                         /\ removed_players'[q] \in {removed_players[q], WNP_DEFAULT_PLAYER}
    BY <2>1
  <2>6. \A u \in Threads : mine'[u] \subseteq mine[u]
    BY <2>1
  <2> QED
    BY <2>2, <2>3, <2>4, <2>5, <2>6, QueuesKept
<1> QED
  BY <1>1, <1>2

(* wnp.c:209-338: the inductive invariant of the three queues.              *)
THEOREM CoreQueues == Spec => []QueueInv
BY InitQueues, NextQueues, CoreBasic, CoreTable, PTL DEF Spec

(* wnp.c:314-338: every entry of the three queues has a thread on its way   *)
(* to it, the owner's own for an added or updated player.                   *)
THEOREM CoreEveryEntryIsVisited == Spec => []EveryEntryIsVisited
<1>1. QueueInv => EveryEntryIsVisited
  BY DEF QueueInv
<1> QED
  BY <1>1, CoreQueues, PTL

(* wnp.c:235-240, 271-276, 298-303: a queue as long as the table has room   *)
(* for everything a cycle can put there, however many cycles went before    *)
(* and however far behind other threads are with their deliveries.          *)
THEOREM CoreNothingDropped == Spec => NothingDropped
<1> DEFINE Kept == \A s \in Slots : players'[s] # players[s] /\ update_cycle =>
       \/ Queued(added_players', s) \/ Queued(updated_players', s)
       \/ \E q \in Slots : removed_players'[q].id = s /\ players'[s].id = -1
<1>1. ASSUME BasicInv, TableInv, QueueInv, [Next]_vars PROVE Kept
  <2> SUFFICES ASSUME NEW s \in Slots, players'[s] # players[s], update_cycle
               PROVE  \/ Queued(added_players', s) \/ Queued(updated_players', s)
                      \/ \E q \in Slots : removed_players'[q].id = s /\ players'[s].id = -1
    OBVIOUS
  <2>1. ASSUME NEW t \in Adapters, AddPlayer(t) PROVE Queued(added_players', s)
    BY <1>1, <2>1, AddQueues DEF Queued
  <2>2. ASSUME NEW t \in Adapters, UpdatePlayer(t)
        PROVE  Queued(added_players', s) \/ Queued(updated_players', s)
    BY <1>1, <2>2, UpdateQueues DEF AlreadyQueued, Queued
  <2>3. ASSUME NEW t \in Adapters, RemovePlayer(t)
        PROVE  \E q \in Slots : removed_players'[q].id = s /\ players'[s].id = -1
    BY <1>1, <2>3, RemoveQueues DEF Queued, RemovedIds
  <2>4. ASSUME NEW t \in Apps, TrySetState(t) PROVE FALSE
    BY <2>4, <1>1, ThreadsAssumption DEF TrySetState, Lockable, BasicInv, CycleHoldsLock
  <2> QED
    BY <1>1, <2>1, <2>2, <2>3, <2>4, TableSteps
<1>2. BasicInv /\ TableInv /\ QueueInv /\ [Next]_vars => [Kept]_vars
  BY <1>1
<1> QED
  BY <1>2, CoreBasic, CoreTable, CoreQueues, PTL DEF Spec, NothingDropped

-----------------------------------------------------------------------------
(* One adapter thread.                                                     *)

(* The programs these theorems are about: one adapter, no other thread.     *)
OneAdapter(a) == Adapters = {a} /\ Apps = {}

Table == Visible(players, total_web_players)

(* The locals of the only thread are up to date: nobody else writes.        *)
Alone(a) ==
  /\ call[a] \in {"none", "added", "updated", "removed", "active"}
  /\ pc[a] = "copy" => seen[a] = players[cur[a]] /\ Used(cur[a])
  /\ pc[a] = "hand_over" => seen[a] = removed_players[at[a]] /\ seen[a].id # -1
  /\ pc[a] \in {"lookup", "copy"} /\ call[a] \in {"added", "updated"} => cur[a] = Entry(a)
  /\ pc[a] = "cycle" => \A q \in Slots : RemovedIds[q] = -1
  /\ a \in Web => \A s \in Slots : ~players[s].is_web_browser
  /\ call[a] = "active" => cur[a] = active_player_id
  /\ pc[a] \in {"compare", "publish"} => Selected(players, Table, cur[a])
  /\ pc[a] = "idle" \/ call[a] = "active" => Selected(players, Table, active_player_id)

CoreInv == BasicInv /\ TableInv /\ QueueInv

LEMMA OneAdapterFacts ==
  ASSUME NEW a, OneAdapter(a)
  PROVE  a \in Adapters /\ Threads = {a} /\ \A t \in Adapters : t = a
BY DEF OneAdapter, Threads

LEMMA CoreInvHolds == Spec => []CoreInv
BY CoreBasic, CoreTable, CoreQueues, PTL DEF CoreInv

LEMMA InitAlone ==
  ASSUME NEW a, OneAdapter(a), Init
  PROVE  Alone(a)
<1>1. \A s \in Slots : players[s] = WNP_DEFAULT_PLAYER
  BY DEF Init
<1>2. \A s \in Slots : /\ ~players[s].is_web_browser /\ players[s].active_at = 0
                       /\ players[s].state = "STOPPED"
  BY <1>1 DEF WNP_DEFAULT_PLAYER
<1>3. Table \subseteq Slots
  BY DEF Table, Visible
<1>4. Selected(players, Table, -1)
  BY <1>2, <1>3 DEF Selected, Found, Rises, Audible, Playing, Freshest
<1>5. pc[a] = "idle" /\ call[a] = "none" /\ active_player_id = -1
  BY OneAdapterFacts DEF Init
<1> QED
  BY <1>2, <1>4, <1>5 DEF Alone

(* Nobody is on its way to an entry, so the queues are empty.               *)
LEMMA NothingQueued ==
  ASSUME NEW a, OneAdapter(a), CoreInv, pc[a] \in {"idle", "recalculate", "compare", "publish"}
                                        \/ call[a] = "active"
  PROVE  \A q \in Slots : added_players[q] = -1 /\ updated_players[q] = -1 /\ RemovedIds[q] = -1
<1>1. ~InCycle(a) /\ ~Delivering(a)
  BY OneAdapterFacts DEF CoreInv, BasicInv, ThreadShape, InCycle, Delivering
<1>2. \A list, q : ~Ahead(a, list, q)
  BY <1>1 DEF Ahead
<1> QED
  BY <1>2, OneAdapterFacts DEF CoreInv, QueueInv, EveryEntryIsVisited, RemovedIds

(* What is selected is nobody or a player.                                  *)
LEMMA SelectedIsUsed ==
  ASSUME CoreInv, NEW r \in Slots, Selected(players, Table, r)
  PROVE  Used(r)
<1>1. players[r].active_at > 0 \/ Playing(players[r])
  BY SlotsFacts DEF Selected, FreshestAudible, LastPlaying, Freshest, Audible
<1>2. players[r] # WNP_DEFAULT_PLAYER
  BY <1>1 DEF WNP_DEFAULT_PLAYER, Playing
<1> QED
  BY <1>2 DEF CoreInv, TableInv, SlotShape, Used

LEMMA NextAlone ==
  ASSUME NEW a, OneAdapter(a), CoreInv, Alone(a), [Next]_vars
  PROVE  Alone(a)'
<1>a. a \in Adapters /\ a \in Threads /\ Threads = {a} /\ Apps = {} /\ \A t \in Adapters : t = a
  BY OneAdapterFacts DEF OneAdapter
<1>t. TypeOK /\ ThreadShape(a)
  BY <1>a DEF CoreInv, BasicInv
<1>s. UNCHANGED <<players, total_web_players>> =>
        \A r : Selected(players, Table, r) => Selected(players', Table', r)
  BY DEF Table
<1>1. CASE StartCycle(a)
  <2>1. /\ pc[a] = "idle" /\ pc'[a] = "cycle" /\ call'[a] = call[a] /\ call[a] = "none"
        /\ UNCHANGED <<players, removed_players>>
    BY <1>1, <1>t, <1>a DEF StartCycle, Goto, TypeOK, table, queues, ThreadShape
  <2>2. \A q \in Slots : RemovedIds'[q] = -1
    BY <2>1, NothingQueued DEF RemovedIds
  <2> QED
    BY <2>1, <2>2 DEF Alone
<1>2. CASE AddPlayer(a)
  <2>1. PICK s \in Slots, browser \in Flags(a) :
          players' = [players EXCEPT ![s] = New(a, s, browser)]
    BY <1>2 DEF AddPlayer
  <2>2. /\ pc[a] = "cycle" /\ UNCHANGED <<pc, call, removed_players>> /\ call[a] = "none"
    BY <1>2, <1>t DEF AddPlayer, ThreadShape
  <2>3. a \in Web => ~New(a, s, browser).is_web_browser
    BY DEF New, Flags, WNP_DEFAULT_PLAYER
  <2>4. a \in Web => \A r \in Slots : ~players'[r].is_web_browser
    BY <2>1, <2>3, <1>t DEF Alone, TypeOK
  <2> QED
    BY <2>2, <2>4 DEF Alone, RemovedIds
<1>3. CASE UpdatePlayer(a)
  <2>1. PICK s \in Slots, c \in Contents, browser \in Flags(a) :
          /\ players' = [players EXCEPT ![s] = Reported(players[s], c, browser)]
          /\ s \in mine[a] \/ pc[a] = "cycle"
          /\ Goto(a, IF s \in mine[a] THEN "sweep" ELSE "cycle")
    BY <1>3 DEF UpdatePlayer
  <2>2. /\ pc[a] \in {"cycle", "sweep"} /\ UNCHANGED <<call, removed_players>> /\ call[a] = "none"
        /\ pc'[a] \in {"cycle", "sweep"} /\ (pc'[a] = "cycle" => pc[a] = "cycle")
    BY <1>3, <1>t, <2>1, <1>a DEF UpdatePlayer, ThreadShape, InCycle, Goto, TypeOK
  <2>3. a \in Web => ~Reported(players[s], c, browser).is_web_browser
    BY <1>t DEF Reported, Flags, TypeOK, Player
  <2>4. a \in Web => \A r \in Slots : ~players'[r].is_web_browser
    BY <2>1, <2>3, <1>t DEF Alone, TypeOK
  <2> QED
    BY <2>2, <2>4 DEF Alone, RemovedIds
<1>4. CASE RemovePlayer(a)
  <2>1. PICK s \in mine[a] : players' = [players EXCEPT ![s] = WNP_DEFAULT_PLAYER]
    BY <1>4 DEF RemovePlayer
  <2>2. /\ pc[a] \in {"cycle", "sweep"} /\ UNCHANGED call /\ call[a] = "none" /\ pc'[a] = "sweep"
    BY <1>4, <1>t, <1>a DEF RemovePlayer, ThreadShape, InCycle, Goto, TypeOK
  <2>3. ~WNP_DEFAULT_PLAYER.is_web_browser
    BY DEF WNP_DEFAULT_PLAYER
  <2>4. a \in Web => \A r \in Slots : ~players'[r].is_web_browser
    BY <2>1, <2>3, <1>t DEF Alone, TypeOK
  <2> QED
    BY <2>2, <2>4 DEF Alone
<1>5. CASE EndCycle(a)
  <2>1. pc'[a] = "list" /\ call'[a] = "added" /\ UNCHANGED players
    BY <1>5, <1>t, <1>a DEF EndCycle, Goto, TypeOK, table
  <2> QED
    BY <2>1 DEF Alone
<1>6. CASE ReadEntry(a)
  <2>1. UNCHANGED <<players, total_web_players, queues, active_player_id>> /\ pc[a] = "list"
        /\ call[a] \in {"added", "updated"}
    BY <1>6 DEF ReadEntry, shared, table
  <2>2. CASE Advance(a)
    <3>1. pc'[a] \in {"list", "recalculate"} /\ call'[a] \in {"added", "updated", "removed", "none"}
      BY <2>1, <2>2, <1>t, <1>a, AdvanceShape
    <3> QED
      BY <2>1, <3>1 DEF Alone
  <2>3. CASE cur' = [cur EXCEPT ![a] = Entry(a)] /\ Goto(a, "lookup") /\ UNCHANGED <<call, at>>
    <3>1. cur'[a] = Entry(a) /\ Entry(a)' = Entry(a) /\ pc'[a] = "lookup" /\ call' = call
      BY <2>1, <2>3, <1>t, <1>a DEF TypeOK, Goto, Entry, queues
    <3> QED
      BY <2>1, <3>1 DEF Alone
  <2> QED
    BY <1>6, <2>2, <2>3 DEF ReadEntry
<1>7. CASE ReadRemoved(a)
  <2>1. UNCHANGED <<players, total_web_players, queues, active_player_id>> /\ pc[a] = "list"
        /\ call[a] = "removed"
    BY <1>7 DEF ReadRemoved, shared, table
  <2>2. CASE Advance(a)
    <3>1. pc'[a] \in {"list", "recalculate"} /\ call'[a] \in {"added", "updated", "removed", "none"}
      BY <2>1, <2>2, <1>t, <1>a, AdvanceShape
    <3> QED
      BY <2>1, <3>1 DEF Alone
  <2>3. CASE /\ removed_players[at[a]].id # -1 /\ seen' = [seen EXCEPT ![a] = removed_players[at[a]]]
             /\ Goto(a, "hand_over") /\ UNCHANGED <<call, at>>
    <3>1. /\ seen'[a] = removed_players[at[a]] /\ removed_players'[at'[a]] = removed_players[at[a]]
          /\ pc'[a] = "hand_over" /\ call' = call
      BY <2>1, <2>3, <1>t, <1>a DEF TypeOK, Goto, queues
    <3> QED
      BY <2>1, <2>3, <3>1 DEF Alone
  <2> QED
    BY <1>7, <2>2, <2>3 DEF ReadRemoved
<1>8. CASE HandOver(a)
  <2>1. pc[a] = "hand_over" /\ pc'[a] = "clear" /\ call[a] = "removed" /\ UNCHANGED <<call, players>>
    BY <1>8, <1>t, <1>a DEF HandOver, Goto, TypeOK, shared, table, ThreadShape
  <2> QED
    BY <2>1 DEF Alone
<1>9. CASE Clear(a)
  <2>1. pc[a] = "clear" /\ Advance(a) /\ call[a] \in {"added", "updated", "removed"} /\ UNCHANGED players
    BY <1>9, <1>t DEF Clear, ThreadShape, table
  <2>2. pc'[a] \in {"list", "recalculate"} /\ call'[a] \in {"added", "updated", "removed", "none"}
    BY <2>1, <1>t, <1>a, AdvanceShape
  <2> QED
    BY <2>1, <2>2 DEF Alone
<1>10. CASE Lookup(a)
  <2>1. /\ pc[a] = "lookup" /\ call[a] \in {"added", "updated", "active"}
        /\ UNCHANGED <<players, total_web_players, queues, active_player_id, at>>
    BY <1>10, <1>t DEF Lookup, shared, table, ThreadShape, Alone
  <2>2. CASE /\ players[cur[a]].id = cur[a] /\ seen' = [seen EXCEPT ![a] = players[cur[a]]]
             /\ Goto(a, "copy") /\ UNCHANGED <<call, cur>>
    <3>1. cur[a] \in Slots /\ cur[a] # -1
      BY <2>1, <1>t, SlotsFacts DEF ThreadShape
    <3>2. /\ pc'[a] = "copy" /\ seen'[a] = players'[cur'[a]] /\ Used(cur[a])' /\ call' = call
          /\ Entry(a)' = Entry(a) /\ cur' = cur
      BY <2>1, <2>2, <3>1, <1>t, <1>a DEF TypeOK, Goto, Used, Entry, queues
    <3> QED
      BY <2>1, <3>2, <1>s DEF Alone
  <2>3. CASE AfterCall(a)
    <3>1. \/ pc'[a] = "clear" /\ call' = call /\ call[a] \in {"added", "updated"}
          \/ pc'[a] = "idle" /\ call'[a] = "none" /\ call[a] = "active"
      BY <2>1, <2>3, <1>t, <1>a DEF AfterCall, Return, Goto, TypeOK
    <3> QED
      BY <2>1, <3>1, <1>s DEF Alone
  <2> QED
    BY <1>10, <2>2, <2>3 DEF Lookup
<1>11. CASE Copy(a)
  <2>1. /\ pc[a] = "copy" /\ call[a] \in {"added", "updated", "active"} /\ AfterCall(a)
        /\ UNCHANGED <<players, total_web_players, active_player_id>>
    BY <1>11, <1>t DEF Copy, shared, table, ThreadShape, Alone
  <2>2. \/ pc'[a] = "clear" /\ call' = call /\ call[a] \in {"added", "updated"}
        \/ pc'[a] = "idle" /\ call'[a] = "none" /\ call[a] = "active"
    BY <2>1, <1>t, <1>a DEF AfterCall, Return, Goto, TypeOK
  <2> QED
    BY <2>1, <2>2, <1>s DEF Alone
<1>12. CASE Recalculate(a)
  <2>1. /\ pc[a] = "recalculate" /\ pc'[a] = "compare" /\ call' = call /\ call[a] = "none"
        /\ UNCHANGED <<players, total_web_players>>
    BY <1>12, <1>t, <1>a DEF Recalculate, Goto, TypeOK, shared, table, ThreadShape
  <2>2. Selected(players, Table, cur'[a])
    BY <1>12, <1>t, <1>a DEF Recalculate, Table, TypeOK
  <2> QED
    BY <2>1, <2>2, <1>s DEF Alone
<1>13. CASE Compare(a)
  <2>1. /\ pc[a] = "compare" /\ call[a] = "none"
        /\ UNCHANGED <<players, total_web_players, active_player_id>>
    BY <1>13, <1>t DEF Compare, shared, table, ThreadShape
  <2>2. \/ pc'[a] = "publish" /\ UNCHANGED <<call, cur>>
        \/ pc'[a] = "idle" /\ call'[a] = "none" /\ cur[a] = active_player_id
    BY <1>13, <1>t, <1>a DEF Compare, Changed, Return, Goto, TypeOK
  <2> QED
    BY <2>1, <2>2, <1>s DEF Alone
<1>14. CASE Publish(a)
  <2>1. /\ pc[a] = "publish" /\ active_player_id' = cur[a]
        /\ UNCHANGED <<players, total_web_players>>
    BY <1>14 DEF Publish, table
  <2>2. \/ pc'[a] = "idle" /\ call'[a] = "none"
        \/ pc'[a] = "lookup" /\ call'[a] = "active" /\ cur'[a] = cur[a]
    BY <1>14, <1>t, <1>a DEF Publish, Return, Goto, TypeOK
  <2> QED
    BY <2>1, <2>2, <1>s DEF Alone
<1>15. CASE UNCHANGED vars
  BY <1>15 DEF vars, shared, table, queues, Alone, Table, RemovedIds, Entry, Used
<1> QED
  BY <1>a, <1>1, <1>2, <1>3, <1>4, <1>5, <1>6, <1>7, <1>8, <1>9, <1>10, <1>11, <1>12, <1>13,
     <1>14, <1>15 DEF Next, Deliver, Recalc, GetPlayer

(* wnp.c:110-143: with one adapter, the active player is the one the        *)
(* selection rule names, whenever the adapter is not in the library.        *)
THEOREM AloneActiveIsFresh ==
  ASSUME NEW a, OneAdapter(a)
  PROVE  Spec => []ActiveIsFresh
<1>1. Init => Alone(a)
  BY InitAlone
<1>2. CoreInv /\ Alone(a) /\ [Next]_vars => Alone(a)'
  BY NextAlone
<1>3. Alone(a) => ActiveIsFresh
  BY OneAdapterFacts DEF Alone, ActiveIsFresh, Quiet, Table
<1> QED
  BY <1>1, <1>2, <1>3, CoreInvHolds, PTL DEF Spec
-----------------------------------------------------------------------------
(* What the application knows, and what is still on its way to it.          *)

(* The entry q of a queue was not handed over yet.                          *)
Waiting(a, list, q) == ~(pc[a] = "clear" /\ call[a] = list /\ at[a] = q)

PendingAdded(a)   == {s \in Slots : \E q \in Slots : added_players[q] = s /\ Waiting(a, "added", q)}
PendingUpdated(a) == {s \in Slots : \E q \in Slots : updated_players[q] = s /\ Waiting(a, "updated", q)}
PendingRemoved(a) == {s \in Slots : \E q \in Slots : RemovedIds[q] = s /\ Waiting(a, "removed", q)}
Pending(a)        == PendingAdded(a) \cup PendingUpdated(a) \cup PendingRemoved(a)

UsedSlots == {s \in Slots : Used(s)}

AppInv(a) ==
  /\ app_players \in [Slots -> Player]
  /\ announced = (UsedSlots \ PendingAdded(a)) \cup PendingRemoved(a)
  /\ PendingRemoved(a) \cap UsedSlots = {}
  /\ \A s \in Slots \ Pending(a) : app_players[s] = players[s]
  /\ call[a] # "active" => app_active = active_player_id

LEMMA InitApp ==
  ASSUME NEW a, OneAdapter(a), AppInit
  PROVE  AppInv(a)
<1>1. /\ \A s \in Slots : players[s] = WNP_DEFAULT_PLAYER /\ app_players[s] = WNP_DEFAULT_PLAYER
      /\ \A s \in Slots : ~Used(s)
      /\ \A q \in Slots : added_players[q] = -1 /\ updated_players[q] = -1 /\ RemovedIds[q] = -1
      /\ announced = {} /\ app_active = active_player_id
      /\ app_players \in [Slots -> Player]
  BY DefaultPlayer DEF AppInit, Init, Used, RemovedIds
<1>2. PendingAdded(a) = {} /\ PendingUpdated(a) = {} /\ PendingRemoved(a) = {}
  BY <1>1, SlotsFacts DEF PendingAdded, PendingUpdated, PendingRemoved
<1>3. UsedSlots = {}
  BY <1>1 DEF UsedSlots
<1> QED
  BY <1>1, <1>2, <1>3 DEF AppInv

(* A step that hands nothing over and leaves table and queues alone.        *)
LEMMA AppFrame ==
  ASSUME NEW a, AppInv(a), UNCHANGED <<players, queues, appVars>>,
         \A list \in Lists, q \in Slots : Waiting(a, list, q)' <=> Waiting(a, list, q),
         call'[a] # "active" => app_active = active_player_id'
  PROVE  AppInv(a)'
<1>1. /\ PendingAdded(a)' = PendingAdded(a) /\ PendingUpdated(a)' = PendingUpdated(a)
      /\ PendingRemoved(a)' = PendingRemoved(a)
  BY DEF PendingAdded, PendingUpdated, PendingRemoved, RemovedIds, queues, Lists
<1>2. UsedSlots' = UsedSlots
  BY DEF UsedSlots, Used
<1> QED
  BY <1>1, <1>2 DEF AppInv, Pending, appVars

LEMMA SilentApp ==
  ASSUME AppNext, Silent
  PROVE  UNCHANGED appVars
BY DEF AppNext, Silent, NoOut, on_player_added, on_player_updated, on_player_removed,
       on_active_player_changed, NoCallback

(* The queues are empty: there is nothing the application does not know.    *)
LEMMA NothingPending ==
  ASSUME NEW a, OneAdapter(a), CoreInv, AppInv(a),
         pc[a] \in {"idle", "recalculate", "compare", "publish"} \/ call[a] = "active"
  PROVE  Pending(a) = {} /\ announced = UsedSlots
<1>1. \A q \in Slots : added_players[q] = -1 /\ updated_players[q] = -1 /\ RemovedIds[q] = -1
  BY NothingQueued
<1>2. PendingAdded(a) = {} /\ PendingUpdated(a) = {} /\ PendingRemoved(a) = {}
  BY <1>1, SlotsFacts DEF PendingAdded, PendingUpdated, PendingRemoved
<1> QED
  BY <1>2 DEF Pending, AppInv

(* A player that is read twice and did not change is what was read.         *)
LEMMA TornSame ==
  ASSUME NEW x \in Player, NEW y \in Torn(x, x)
  PROVE  y = x
<1>1. /\ x = [id |-> x.id, platform |-> x.platform, is_web_browser |-> x.is_web_browser,
              state |-> x.state, volume |-> x.volume, active_at |-> x.active_at,
              data |-> x.data]
  BY DEF Player
<1>2. y \in [id : {x.id}, platform : {x.platform}, is_web_browser : {x.is_web_browser},
             state : {x.state}, volume : {x.volume}, active_at : {x.active_at}, data : {x.data}]
  BY DEF Torn
<1>3. y = [id |-> y.id, platform |-> y.platform, is_web_browser |-> y.is_web_browser,
           state |-> y.state, volume |-> y.volume, active_at |-> y.active_at, data |-> y.data]
  BY <1>2
<1>4. /\ y.id = x.id /\ y.platform = x.platform /\ y.is_web_browser = x.is_web_browser
      /\ y.state = x.state /\ y.volume = x.volume /\ y.active_at = x.active_at /\ y.data = x.data
  BY <1>2
<1> QED
  BY <1>1, <1>3, <1>4

(* With one adapter no player is hidden.                                    *)
LEMMA NothingHidden ==
  ASSUME NEW a, OneAdapter(a), CoreInv, Alone(a), NEW s \in Slots
  PROVE  ~Hidden(players[s], total_web_players)
<1>1. CASE a \in Web
  BY <1>1 DEF Alone, Hidden
<1>2. CASE a \notin Web
  <2>1. \A r \in Slots : players[r].platform # "WEB"
    BY <1>2, DefaultPlayer, OneAdapterFacts DEF CoreInv, TableInv, SlotShape
  <2>2. WebSlots = {}
    BY <2>1 DEF WebSlots
  <2>3. total_web_players = 0
    BY <2>2, FS_EmptySet DEF CoreInv, TableInv, WebCount
  <2> QED
    BY <2>3 DEF Hidden
<1> QED
  BY <1>1, <1>2

(* What is looked up is there.                                              *)
LEMMA LookupFinds ==
  ASSUME NEW a, OneAdapter(a), CoreInv, Alone(a), Lookup(a)
  PROVE  /\ Used(cur[a]) /\ cur[a] \in Slots
         /\ seen' = [seen EXCEPT ![a] = players[cur[a]]] /\ Goto(a, "copy")
         /\ Silent /\ UNCHANGED <<call, cur, at, players, queues, active_player_id>>
<1>a. a \in Threads /\ a \in Adapters /\ \A t \in Adapters : t = a
  BY OneAdapterFacts
<1>1. /\ pc[a] = "lookup" /\ cur[a] \in Slots /\ cur[a] # -1 /\ call[a] \in {"added", "updated", "active"}
      /\ UNCHANGED <<at, players, queues, active_player_id>>
  BY <1>a, SlotsFacts DEF Lookup, CoreInv, BasicInv, ThreadShape, Alone, shared, table
<1>2. Used(cur[a])
  <2>1. CASE call[a] = "active"
    BY <2>1, <1>1, SelectedIsUsed DEF Alone
  <2>2. CASE call[a] \in {"added", "updated"}
    <3>1. cur[a] = Entry(a) /\ at[a] \in Slots
      BY <2>2, <1>1, <1>a DEF Alone, CoreInv, BasicInv, TypeOK
    <3> QED
      BY <2>2, <3>1, <1>1 DEF Entry, CoreInv, QueueInv, EveryEntryIsVisited, Owns
  <2> QED
    BY <1>1, <2>1, <2>2
<1>3. players[cur[a]].id = cur[a]
  BY <1>1, <1>2 DEF Used, CoreInv, TableInv, SlotShape
<1>4. ~Hidden(players[cur[a]], total_web_players)
  BY <1>1, NothingHidden
<1> QED
  BY <1>1, <1>2, <1>3, <1>4 DEF Lookup

(* What is handed over to wnp_get_player's caller is the player, as it is.  *)
LEMMA CopyHands ==
  ASSUME NEW a, OneAdapter(a), CoreInv, Alone(a), Copy(a)
  PROVE  /\ cur[a] \in Slots /\ Used(cur[a]) /\ players[cur[a]].id = cur[a]
         /\ out'.what = call[a] /\ out'.player = players[cur[a]]
         /\ call[a] \in {"added", "updated", "active"}
         /\ UNCHANGED <<players, queues, active_player_id, at>>
         /\ call[a] \in {"added", "updated"} =>
              cur[a] = Entry(a) /\ pc'[a] = "clear" /\ call' = call
         /\ call[a] = "active" =>
              cur[a] = active_player_id /\ pc'[a] = "idle" /\ call'[a] = "none"
<1>a. a \in Threads
  BY OneAdapterFacts
<1>t. TypeOK /\ ThreadShape(a)
  BY <1>a DEF CoreInv, BasicInv
<1>1. /\ pc[a] = "copy" /\ cur[a] \in Slots /\ call[a] \in {"added", "updated", "active"}
      /\ UNCHANGED <<at, players, queues, active_player_id>>
      /\ seen[a] = players[cur[a]] /\ Used(cur[a]) /\ AfterCall(a)
  BY <1>t DEF Copy, ThreadShape, Alone, shared, table
<1>2. players[cur[a]].id = cur[a] /\ players[cur[a]] \in Player
  BY <1>1, <1>t DEF Used, CoreInv, TableInv, SlotShape, TypeOK
<1>3. PICK player \in Torn(seen[a], players[cur[a]]) :
        out' = Out(IF call[a] = "event" THEN "updated" ELSE call[a], cur[a], player)
  BY DEF Copy
<1>4. player = players[cur[a]]
  BY <1>1, <1>2, TornSame
<1>5. out'.what = call[a] /\ out'.player = player
  BY <1>1, <1>3 DEF Out
<1>6. call[a] \in {"added", "updated"} => pc'[a] = "clear" /\ call' = call
  BY <1>1, <1>a, <1>t DEF AfterCall, Goto, TypeOK
<1>7. call[a] = "active" => pc'[a] = "idle" /\ call'[a] = "none"
  BY <1>1, <1>a, <1>t DEF AfterCall, Return, Goto, TypeOK
<1> QED
  BY <1>1, <1>2, <1>4, <1>5, <1>6, <1>7 DEF Alone

(* No entry is being handed over unless its callback is under way.          *)
LEMMA AllWaiting ==
  ASSUME NEW a, pc[a] # "clear"
  PROVE  \A list, q : Waiting(a, list, q)
BY DEF Waiting

ContractKept == [Contract!Next]_<<announced, app_active>>

(* wnp.c:217-240: a new player is pending until it was announced.           *)
LEMMA AddApp ==
  ASSUME NEW a, OneAdapter(a), CoreInv, Alone(a), AppInv(a), AddPlayer(a), UNCHANGED appVars
  PROVE  AppInv(a)'
<1>a. a \in Adapters /\ a \in Threads
  BY OneAdapterFacts
<1>1. PICK s, e \in Slots :
         /\ ~Used(s) /\ players'[s].id = s
         /\ \A r \in Slots \ {s} : players'[r] = players[r]
         /\ added_players[e] = -1 /\ added_players'[e] = s
         /\ \A q \in Slots \ {e} : added_players'[q] = added_players[q]
  BY <1>a, AddQueues DEF CoreInv
<1>2. /\ UNCHANGED <<pc, call, at, updated_players, removed_players, active_player_id>>
      /\ pc[a] = "cycle" /\ pc'[a] = "cycle"
  BY DEF AddPlayer
<1>3. /\ \A list, q : Waiting(a, list, q)
      /\ \A list, q : Waiting(a, list, q)'
  BY <1>2 DEF Waiting
<1>4. s # -1
  BY SlotsFacts
<1>5. PendingAdded(a)' = PendingAdded(a) \cup {s}
  BY <1>1, <1>3, SlotsFacts DEF PendingAdded
<1>6. PendingUpdated(a)' = PendingUpdated(a)
  BY <1>2, <1>3 DEF PendingUpdated
<1>7. PendingRemoved(a) = {} /\ PendingRemoved(a)' = {}
  BY <1>2, <1>4, SlotsFacts DEF PendingRemoved, RemovedIds, Alone
<1>8. UsedSlots' = UsedSlots \cup {s} /\ s \notin UsedSlots
  BY <1>1, <1>4 DEF UsedSlots, Used
<1>9. announced' = (UsedSlots' \ PendingAdded(a)') \cup PendingRemoved(a)'
  BY <1>5, <1>7, <1>8 DEF AppInv, appVars
<1>10. \A r \in Slots \ Pending(a)' : app_players'[r] = players'[r]
  BY <1>1, <1>5, <1>6, <1>7 DEF AppInv, appVars, Pending
<1> QED
  BY <1>2, <1>7, <1>9, <1>10 DEF AppInv, appVars

(* wnp.c:242-279: a player that changed is pending.                         *)
LEMMA UpdateApp ==
  ASSUME NEW a, OneAdapter(a), CoreInv, Alone(a), AppInv(a), UpdatePlayer(a), UNCHANGED appVars
  PROVE  AppInv(a)'
<1>a. a \in Adapters /\ a \in Threads /\ TypeOK
  BY OneAdapterFacts DEF CoreInv, BasicInv
<1>1. PICK s \in Slots :
         /\ AlreadyQueued(s)' /\ players'[s].id = players[s].id
         /\ \A r \in Slots \ {s} : players'[r] = players[r]
         /\ \A q \in Slots : updated_players[q] # -1 => updated_players'[q] = updated_players[q]
  BY <1>a, UpdateQueues DEF CoreInv
<1>2. /\ UNCHANGED <<call, at, added_players, removed_players, active_player_id>>
      /\ pc[a] # "clear" /\ pc'[a] # "clear"
  BY <1>a DEF UpdatePlayer, InCycle, Goto, TypeOK
<1>3. /\ \A list, q : Waiting(a, list, q)
      /\ \A list, q : Waiting(a, list, q)'
  BY <1>2 DEF Waiting
<1>4. PendingAdded(a)' = PendingAdded(a) /\ PendingRemoved(a)' = PendingRemoved(a)
  BY <1>2, <1>3 DEF PendingAdded, PendingRemoved, RemovedIds
<1>5. PendingUpdated(a) \subseteq PendingUpdated(a)'
  BY <1>1, <1>3, SlotsFacts DEF PendingUpdated
<1>6. s \in PendingAdded(a)' \cup PendingUpdated(a)'
  BY <1>1, <1>3 DEF PendingAdded, PendingUpdated, AlreadyQueued, Queued
<1>7. UsedSlots' = UsedSlots
  BY <1>1 DEF UsedSlots, Used
<1>8. \A r \in Slots \ Pending(a)' : app_players'[r] = players'[r]
  BY <1>1, <1>4, <1>5, <1>6 DEF AppInv, appVars, Pending
<1> QED
  BY <1>2, <1>4, <1>7, <1>8 DEF AppInv, appVars

(* wnp.c:281-306: a player that left is pending until its end was reported. *)
LEMMA RemoveApp ==
  ASSUME NEW a, OneAdapter(a), CoreInv, Alone(a), AppInv(a), RemovePlayer(a), UNCHANGED appVars
  PROVE  AppInv(a)'
<1>a. a \in Adapters /\ a \in Threads /\ TypeOK
  BY OneAdapterFacts DEF CoreInv, BasicInv
<1>1. PICK s, e \in Slots :
         /\ Used(s) /\ ~AlreadyQueued(s) /\ players'[s].id = -1
         /\ \A r \in Slots \ {s} : players'[r] = players[r]
         /\ RemovedIds[e] = -1 /\ RemovedIds'[e] = s
         /\ \A q \in Slots \ {e} : RemovedIds'[q] = RemovedIds[q]
  BY <1>a, RemoveQueues DEF CoreInv
<1>2. /\ UNCHANGED <<call, at, added_players, updated_players, active_player_id>>
      /\ pc[a] # "clear" /\ pc'[a] # "clear"
  BY <1>a DEF RemovePlayer, InCycle, Goto, TypeOK
<1>3. /\ \A list, q : Waiting(a, list, q)
      /\ \A list, q : Waiting(a, list, q)'
  BY <1>2 DEF Waiting
<1>4. PendingAdded(a)' = PendingAdded(a) /\ PendingUpdated(a)' = PendingUpdated(a)
  BY <1>2, <1>3 DEF PendingAdded, PendingUpdated
<1>5. PendingRemoved(a)' = PendingRemoved(a) \cup {s}
  BY <1>1, <1>3, SlotsFacts DEF PendingRemoved
<1>6. s \notin PendingAdded(a) /\ s \in UsedSlots
  BY <1>1 DEF PendingAdded, AlreadyQueued, Queued, UsedSlots
<1>7. UsedSlots' = UsedSlots \ {s}
  BY <1>1, SlotsFacts DEF UsedSlots, Used
<1>8. announced' = (UsedSlots' \ PendingAdded(a)') \cup PendingRemoved(a)'
  BY <1>4, <1>5, <1>6, <1>7 DEF AppInv, appVars
<1>9. \A r \in Slots \ Pending(a)' : app_players'[r] = players'[r]
  BY <1>1, <1>4, <1>5 DEF AppInv, appVars, Pending
<1>10. PendingRemoved(a)' \cap UsedSlots' = {}
  BY <1>5, <1>7 DEF AppInv
<1> QED
  BY <1>2, <1>8, <1>9, <1>10 DEF AppInv, appVars

(* wnp.c:333-334: the end of a player is reported once, after it was        *)
(* announced.                                                               *)
LEMMA HandOverApp ==
  ASSUME NEW a, OneAdapter(a), CoreInv, Alone(a), AppInv(a), HandOver(a), AppNext
  PROVE  AppInv(a)' /\ ContractKept
<1>a. a \in Adapters /\ a \in Threads /\ TypeOK /\ ThreadShape(a)
  BY OneAdapterFacts DEF CoreInv, BasicInv
<1>1. /\ UNCHANGED <<players, queues, call, at, active_player_id>>
      /\ pc[a] = "hand_over" /\ call[a] = "removed" /\ pc'[a] = "clear"
  BY <1>a DEF HandOver, shared, table, Goto, TypeOK, ThreadShape
<1> DEFINE e == at[a]
           s == RemovedIds[e]
<1>2. e \in Slots /\ removed_players[e] \in Player /\ seen[a] = removed_players[e]
      /\ s = removed_players[e].id /\ s # -1 /\ s \in Slots
  BY <1>1, <1>a DEF Alone, TypeOK, RemovedIds, Player
<1>3. out'.what = "removed" /\ out'.player = removed_players[e]
  BY <1>2, TornSame DEF HandOver, Out
<1>4. on_player_removed
  BY <1>3 DEF AppNext, on_player_added, on_player_updated, on_active_player_changed, NoCallback
<1>5. /\ \A list, q : Waiting(a, list, q)
      /\ \A list, q : Waiting(a, list, q)' <=> ~(list = "removed" /\ q = at[a])
  BY <1>1 DEF Waiting
<1>6. PendingAdded(a)' = PendingAdded(a) /\ PendingUpdated(a)' = PendingUpdated(a)
  BY <1>1, <1>5 DEF PendingAdded, PendingUpdated, queues
<1>7. Distinct(RemovedIds) /\ RemovedIds' = RemovedIds
  BY <1>1 DEF CoreInv, QueueInv, EntriesDiffer, RemovedIds, queues
<1>8. PendingRemoved(a)' = PendingRemoved(a) \ {s} /\ s \in PendingRemoved(a)
  BY <1>2, <1>5, <1>7 DEF PendingRemoved, Distinct
<1>9. UsedSlots' = UsedSlots /\ s \notin UsedSlots
  BY <1>1, <1>8 DEF UsedSlots, Used, AppInv
<1>10. players[s] = WNP_DEFAULT_PLAYER
  BY <1>2, <1>9 DEF UsedSlots, Used, CoreInv, TableInv, SlotShape
<1>11. /\ announced' = announced \ {s} /\ app_active' = app_active
       /\ app_players' = [r \in Slots |-> IF r = s THEN WNP_DEFAULT_PLAYER ELSE app_players[r]]
  BY <1>2, <1>3, <1>4 DEF on_player_removed
<1> HIDE DEF s, e
<1>12. app_players' \in [Slots -> Player]
  BY <1>11, DefaultPlayer DEF AppInv
<1>13. announced' = (UsedSlots' \ PendingAdded(a)') \cup PendingRemoved(a)'
  BY <1>6, <1>8, <1>9, <1>11 DEF AppInv
<1>14. \A r \in Slots \ Pending(a)' : app_players'[r] = players'[r]
  BY <1>1, <1>6, <1>8, <1>10, <1>11 DEF AppInv, Pending
<1>15. AppInv(a)'
  BY <1>1, <1>8, <1>9, <1>11, <1>12, <1>13, <1>14 DEF AppInv
<1>16. s \in announced /\ s # -1 /\ s \in Slots
  BY <1>2, <1>8 DEF AppInv
<1>17. Contract!PlayerRemoved(s)
  BY <1>11, <1>16 DEF Contract!PlayerRemoved
<1> QED
  BY <1>15, <1>16, <1>17 DEF ContractKept, Contract!Next

(* wnp.c:317, 326, 337: the entry was handed over already.                  *)
LEMMA ClearApp ==
  ASSUME NEW a, OneAdapter(a), CoreInv, Alone(a), AppInv(a), Clear(a), UNCHANGED appVars
  PROVE  AppInv(a)'
<1>a. a \in Adapters /\ a \in Threads /\ TypeOK /\ ThreadShape(a)
  BY OneAdapterFacts DEF CoreInv, BasicInv
<1>1. /\ UNCHANGED <<players, active_player_id>> /\ pc[a] = "clear" /\ Advance(a)
      /\ call[a] \in {"added", "updated", "removed"} /\ at[a] \in Slots
  BY <1>a DEF Clear, ThreadShape, table, TypeOK
<1>2. pc'[a] # "clear" /\ call'[a] # "active"
  BY <1>1, <1>a, AdvanceShape
<1>3. /\ \A list, q : Waiting(a, list, q) <=> ~(call[a] = list /\ at[a] = q)
      /\ \A list, q : Waiting(a, list, q)'
  BY <1>1, <1>2 DEF Waiting
<1>4. \A q \in Slots : added_players'[q] =
        IF call[a] = "added" /\ q = at[a] THEN -1 ELSE added_players[q]
  BY <1>a DEF Clear, TypeOK
<1>5. \A q \in Slots : updated_players'[q] =
        IF call[a] = "updated" /\ q = at[a] THEN -1 ELSE updated_players[q]
  BY <1>a DEF Clear, TypeOK
<1>6. \A q \in Slots : RemovedIds'[q] =
        IF call[a] = "removed" /\ q = at[a] THEN -1 ELSE RemovedIds[q]
  BY <1>a, DefaultPlayer DEF Clear, TypeOK, RemovedIds
<1>7. PendingAdded(a)' = PendingAdded(a)
  BY <1>3, <1>4, SlotsFacts DEF PendingAdded
<1>8. PendingUpdated(a)' = PendingUpdated(a)
  BY <1>3, <1>5, SlotsFacts DEF PendingUpdated
<1>9. PendingRemoved(a)' = PendingRemoved(a)
  BY <1>3, <1>6, SlotsFacts DEF PendingRemoved
<1>10. UsedSlots' = UsedSlots
  BY <1>1 DEF UsedSlots, Used
<1> QED
  BY <1>1, <1>2, <1>7, <1>8, <1>9, <1>10 DEF AppInv, appVars, Pending

(* wnp.c:315-317, 322-326, 178-181: what a callback is given is announced,  *)
(* and is the player as it is in the table.                                 *)
LEMMA CopyApp ==
  ASSUME NEW a, OneAdapter(a), CoreInv, Alone(a), AppInv(a), Copy(a), AppNext
  PROVE  AppInv(a)' /\ ContractKept
<1>a. a \in Adapters /\ a \in Threads /\ TypeOK /\ ThreadShape(a)
  BY OneAdapterFacts DEF CoreInv, BasicInv
<1> DEFINE id == cur[a]
           e  == at[a]
<1>1. /\ id \in Slots /\ Used(id) /\ players[id].id = id /\ id # -1 /\ e \in Slots
      /\ out'.what = call[a] /\ out'.player = players[id] /\ players[id] \in Player
      /\ call[a] \in {"added", "updated", "active"}
      /\ UNCHANGED <<players, queues, active_player_id, at>> /\ pc[a] = "copy"
  BY <1>a, CopyHands, SlotsFacts DEF TypeOK, Copy
<1>2. \A list, q : Waiting(a, list, q)
  BY <1>1 DEF Waiting
<1>3. UsedSlots' = UsedSlots /\ id \in UsedSlots /\ RemovedIds' = RemovedIds
  BY <1>1 DEF UsedSlots, Used, RemovedIds, queues
<1>4. /\ EveryEntryIsVisited /\ Distinct(added_players) /\ Distinct(updated_players)
      /\ AppInv(a) /\ UNCHANGED <<added_players, updated_players>>
  BY <1>1 DEF CoreInv, QueueInv, EntriesDiffer, queues
<1>5. CASE call[a] = "added"
  <2>1. id = added_players[e] /\ pc'[a] = "clear" /\ call'[a] = "added" /\ at'[a] = e
    BY <1>1, <1>5, CopyHands DEF Entry
  <2>2. on_player_added
    BY <1>1, <1>5 DEF AppNext, on_player_removed, on_player_updated, on_active_player_changed,
       NoCallback
  <2>3. /\ announced' = announced \cup {id} /\ app_active' = app_active
        /\ app_players' = [r \in Slots |-> IF r = id THEN players[id] ELSE app_players[r]]
    BY <1>1, <2>2 DEF on_player_added
  <2>4. \A list, q : Waiting(a, list, q)' <=> ~(list = "added" /\ q = e)
    BY <2>1 DEF Waiting
  <2> HIDE DEF id, e
  <2>5. PendingUpdated(a)' = PendingUpdated(a)
    BY <1>2, <1>4, <2>4 DEF PendingUpdated
  <2>6. PendingRemoved(a)' = PendingRemoved(a)
    BY <1>2, <1>3, <2>4 DEF PendingRemoved
  <2>7. PendingAdded(a)' = PendingAdded(a) \ {id} /\ id \in PendingAdded(a)
    BY <1>1, <1>2, <1>4, <2>1, <2>4 DEF PendingAdded, Distinct
  <2>8. id \notin announced
    BY <1>3, <2>7 DEF AppInv
  <2>9. announced' = (UsedSlots' \ PendingAdded(a)') \cup PendingRemoved(a)'
    BY <1>3, <2>3, <2>6, <2>7 DEF AppInv
  <2>10. \A r \in Slots \ Pending(a)' : app_players'[r] = players'[r]
    BY <1>1, <2>3, <2>5, <2>6, <2>7 DEF AppInv, Pending
  <2>11. AppInv(a)'
    BY <1>1, <1>3, <1>5, <2>3, <2>6, <2>9, <2>10 DEF AppInv
  <2>12. Contract!PlayerAdded(id)
    BY <2>3, <2>8 DEF Contract!PlayerAdded
  <2> QED
    BY <1>1, <2>11, <2>12 DEF ContractKept, Contract!Next
<1>6. CASE call[a] = "updated"
  <2>1. id = updated_players[e] /\ pc'[a] = "clear" /\ call'[a] = "updated" /\ at'[a] = e
    BY <1>1, <1>6, CopyHands DEF Entry
  <2>2. on_player_updated
    BY <1>1, <1>6 DEF AppNext, on_player_removed, on_player_added, on_active_player_changed,
       NoCallback
  <2>3. /\ announced' = announced /\ app_active' = app_active
        /\ app_players' = [r \in Slots |-> IF r = id THEN players[id] ELSE app_players[r]]
    BY <1>1, <2>2 DEF on_player_updated
  <2>4. \A list, q : Waiting(a, list, q)' <=> ~(list = "updated" /\ q = e)
    BY <2>1 DEF Waiting
  <2>5. \A q \in Slots : ~Ahead(a, "added", q)
    BY <1>1, <1>6 DEF Ahead, InCycle, LoopsAfter
  <2>6. \A q \in Slots : added_players[q] = -1
    BY <1>4, <2>5, OneAdapterFacts DEF EveryEntryIsVisited
  <2>7. id \in announced
    BY <1>3, <2>6, SlotsFacts DEF AppInv, PendingAdded
  <2> HIDE DEF id, e
  <2>8. PendingAdded(a)' = PendingAdded(a)
    BY <1>2, <1>4, <2>4 DEF PendingAdded
  <2>9. PendingRemoved(a)' = PendingRemoved(a)
    BY <1>2, <1>3, <2>4 DEF PendingRemoved
  <2>10. PendingUpdated(a)' = PendingUpdated(a) \ {id}
    BY <1>1, <1>2, <1>4, <2>1, <2>4 DEF PendingUpdated, Distinct
  <2>11. \A r \in Slots \ Pending(a)' : app_players'[r] = players'[r]
    BY <1>1, <2>3, <2>8, <2>9, <2>10 DEF AppInv, Pending
  <2>12. AppInv(a)'
    BY <1>1, <1>3, <1>6, <2>3, <2>8, <2>9, <2>11 DEF AppInv
  <2>13. Contract!PlayerUpdated(id)
    BY <2>3, <2>7 DEF Contract!PlayerUpdated
  <2> QED
    BY <1>1, <2>12, <2>13 DEF ContractKept, Contract!Next
<1>7. CASE call[a] = "active"
  <2>1. id = active_player_id /\ pc'[a] = "idle" /\ call'[a] = "none"
    BY <1>1, <1>7, CopyHands
  <2>2. on_active_player_changed
    BY <1>1, <1>7 DEF AppNext, on_player_removed, on_player_added, on_player_updated,
       NoCallback
  <2>3. app_active' = id /\ UNCHANGED <<app_players, announced>>
    BY <1>1, <2>2 DEF on_active_player_changed
  <2>4. \A list, q : Waiting(a, list, q)'
    BY <2>1 DEF Waiting
  <2>5. id \in announced
    BY <1>3, <1>7, NothingPending
  <2> HIDE DEF id, e
  <2>6. PendingAdded(a)' = PendingAdded(a) /\ PendingUpdated(a)' = PendingUpdated(a)
    BY <1>2, <1>4, <2>4 DEF PendingAdded, PendingUpdated
  <2>7. PendingRemoved(a)' = PendingRemoved(a)
    BY <1>2, <1>3, <2>4 DEF PendingRemoved
  <2>8. AppInv(a)'
    BY <1>1, <1>3, <2>1, <2>3, <2>6, <2>7 DEF AppInv, Pending
  <2>9. Contract!ActivePlayerChanged(id)
    BY <2>3, <2>5 DEF Contract!ActivePlayerChanged
  <2> QED
    BY <1>1, <2>8, <2>9 DEF ContractKept, Contract!Next
<1> QED
  BY <1>1, <1>5, <1>6, <1>7

(* wnp.c:165-176: nobody is active any more.                                *)
LEMMA PublishApp ==
  ASSUME NEW a, OneAdapter(a), CoreInv, Alone(a), AppInv(a), Publish(a), AppNext
  PROVE  AppInv(a)' /\ ContractKept
<1>a. a \in Adapters /\ a \in Threads /\ TypeOK /\ ThreadShape(a)
  BY OneAdapterFacts DEF CoreInv, BasicInv
<1>1. /\ UNCHANGED <<players, queues, at>> /\ pc[a] = "publish" /\ active_player_id' = cur[a]
      /\ cur[a] \in Slots \cup {-1}
  BY <1>a DEF Publish, table, TypeOK
<1>2. CASE cur[a] = -1
  <2>1. /\ out'.what = "active" /\ out'.player = WNP_DEFAULT_PLAYER /\ pc'[a] = "idle"
    BY <1>1, <1>2, <1>a DEF Publish, Out, Return, Goto, TypeOK
  <2>2. on_active_player_changed
    BY <2>1 DEF AppNext, on_player_removed, on_player_added, on_player_updated, NoCallback
  <2>3. app_active' = -1 /\ UNCHANGED <<app_players, announced>>
    BY <2>1, <2>2, DefaultPlayer DEF on_active_player_changed
  <2>4. /\ \A list, q : Waiting(a, list, q)
        /\ \A list, q : Waiting(a, list, q)'
    BY <1>1, <2>1 DEF Waiting
  <2>5. PendingAdded(a)' = PendingAdded(a) /\ PendingUpdated(a)' = PendingUpdated(a)
    BY <1>1, <2>4 DEF PendingAdded, PendingUpdated, queues
  <2>6. PendingRemoved(a)' = PendingRemoved(a) /\ UsedSlots' = UsedSlots
    BY <1>1, <2>4 DEF PendingRemoved, RemovedIds, queues, UsedSlots, Used
  <2>7. AppInv(a)'
    BY <1>1, <1>2, <2>3, <2>5, <2>6 DEF AppInv, Pending
  <2>8. Contract!ActivePlayerChanged(-1)
    BY <2>3 DEF Contract!ActivePlayerChanged
  <2> QED
    BY <2>7, <2>8 DEF ContractKept, Contract!Next
<1>3. CASE cur[a] # -1
  <2>1. Silent /\ call'[a] = "active" /\ pc'[a] = "lookup"
    BY <1>3, <1>1, <1>a DEF Publish, Goto, TypeOK
  <2>2. UNCHANGED appVars
    BY <2>1, SilentApp
  <2>3. \A list \in Lists, q \in Slots : Waiting(a, list, q)' <=> Waiting(a, list, q)
    BY <1>1, <2>1 DEF Waiting
  <2>4. AppInv(a)'
    BY <1>1, <2>1, <2>2, <2>3, AppFrame
  <2> QED
    BY <2>2, <2>4 DEF ContractKept, appVars
<1> QED
  BY <1>2, <1>3

(* A step that neither touches table and queues nor hands anything over.    *)
LEMMA QuietApp ==
  ASSUME NEW a, AppInv(a), AppNext, Silent,
         UNCHANGED <<players, queues, active_player_id>>,
         pc[a] # "clear", pc'[a] # "clear", call[a] # "active" \/ call'[a] = "active"
  PROVE  AppInv(a)' /\ ContractKept
<1>1. UNCHANGED appVars
  BY SilentApp
<1>2. \A list \in Lists, q \in Slots : Waiting(a, list, q)' <=> Waiting(a, list, q)
  BY DEF Waiting
<1>3. call'[a] # "active" => app_active = active_player_id'
  BY DEF AppInv
<1>4. AppInv(a)'
  BY <1>1, <1>2, <1>3, AppFrame
<1> QED
  BY <1>1, <1>4 DEF ContractKept, appVars

LEMMA NextApp ==
  ASSUME NEW a, OneAdapter(a), CoreInv, Alone(a), AppInv(a), [AppNext]_<<vars, appVars>>
  PROVE  AppInv(a)' /\ ContractKept
<1>a. a \in Adapters /\ a \in Threads /\ Threads = {a} /\ Apps = {} /\ \A t \in Adapters : t = a
  BY OneAdapterFacts DEF OneAdapter
<1>t. TypeOK /\ ThreadShape(a)
  BY <1>a DEF CoreInv, BasicInv
<1>1. CASE UNCHANGED <<vars, appVars>>
  <2>1. UNCHANGED <<players, queues, active_player_id, pc, call, at, appVars>>
    BY <1>1 DEF vars, shared, table
  <2>2. \A list \in Lists, q \in Slots : Waiting(a, list, q)' <=> Waiting(a, list, q)
    BY <2>1 DEF Waiting
  <2>3. call'[a] # "active" => app_active = active_player_id'
    BY <2>1 DEF AppInv
  <2> QED
    BY <2>1, <2>2, <2>3, AppFrame DEF ContractKept, appVars
<1>2. CASE AppNext
  <2> USE <1>2
  <2>1. CASE StartCycle(a) \/ EndCycle(a)
    <3>1. /\ Silent /\ UNCHANGED <<players, queues, active_player_id>> /\ call[a] # "active"
          /\ pc[a] # "clear" /\ pc'[a] # "clear"
      BY <2>1, <1>t, <1>a DEF StartCycle, EndCycle, InCycle, Goto, TypeOK, table, ThreadShape
    <3> QED
      BY <3>1, QuietApp
  <2>2. CASE AddPlayer(a) \/ UpdatePlayer(a) \/ RemovePlayer(a) \/ Clear(a)
    <3>1. Silent
      BY <2>2 DEF AddPlayer, UpdatePlayer, RemovePlayer, Clear
    <3>2. UNCHANGED appVars
      BY <3>1, SilentApp
    <3>3. AppInv(a)'
      BY <2>2, <3>2, AddApp, UpdateApp, RemoveApp, ClearApp
    <3> QED
      BY <3>2, <3>3 DEF ContractKept, appVars
  <2>3. CASE ReadEntry(a) \/ ReadRemoved(a)
    <3>1. /\ Silent /\ UNCHANGED <<players, queues, active_player_id>>
          /\ pc[a] = "list" /\ call[a] \in {"added", "updated", "removed"}
      BY <2>3 DEF ReadEntry, ReadRemoved, shared, table
    <3>2. Advance(a) \/ Goto(a, "lookup") \/ Goto(a, "hand_over")
      BY <2>3 DEF ReadEntry, ReadRemoved
    <3>3. pc'[a] # "clear"
      BY <3>1, <3>2, <1>t, <1>a, AdvanceShape DEF Goto, TypeOK
    <3> QED
      BY <3>1, <3>3, QuietApp
  <2>4. CASE HandOver(a)
    BY <2>4, HandOverApp
  <2>5. CASE Lookup(a)
    <3>1. /\ Silent /\ UNCHANGED <<players, queues, active_player_id, call>> /\ Goto(a, "copy")
          /\ pc[a] = "lookup"
      BY <2>5, LookupFinds DEF Lookup
    <3>2. pc'[a] # "clear"
      BY <3>1, <1>t, <1>a DEF Goto, TypeOK
    <3> QED
      BY <3>1, <3>2, QuietApp
  <2>6. CASE Copy(a)
    BY <2>6, CopyApp
  <2>7. CASE Recalculate(a) \/ Compare(a)
    <3>1. /\ Silent /\ UNCHANGED <<players, queues, active_player_id>> /\ call[a] # "active"
          /\ pc[a] # "clear" /\ pc'[a] # "clear"
      BY <2>7, <1>t, <1>a DEF Recalculate, Compare, Return, Goto, TypeOK, shared, table, ThreadShape
    <3> QED
      BY <3>1, QuietApp
  <2>8. CASE Publish(a)
    BY <2>8, PublishApp
  <2>9. Next
    BY DEF AppNext
  <2> QED
    BY <1>a, <2>1, <2>2, <2>3, <2>4, <2>5, <2>6, <2>7, <2>8, <2>9
       DEF Next, Deliver, Recalc, GetPlayer
<1> QED
  BY <1>1, <1>2

(* The program with the application on top of it is the program.            *)
LEMMA AppSpecImpliesSpec == AppSpec => Spec
<1>1. AppInit => Init
  BY DEF AppInit
<1>2. [AppNext]_<<vars, appVars>> => [Next]_vars
  BY DEF AppNext
<1> QED
  BY <1>1, <1>2, PTL DEF AppSpec, Spec

LEMMA AppInvHolds ==
  ASSUME NEW a, OneAdapter(a)
  PROVE  AppSpec => [](CoreInv /\ Alone(a) /\ AppInv(a))
<1>1. AppInit => Alone(a) /\ AppInv(a)
  BY InitAlone, InitApp DEF AppInit
<1>2. CoreInv /\ Alone(a) /\ [AppNext]_<<vars, appVars>> => Alone(a)'
  <2>1. [AppNext]_<<vars, appVars>> => [Next]_vars
    BY DEF AppNext
  <2> QED
    BY <2>1, NextAlone
<1>3. CoreInv /\ Alone(a) /\ AppInv(a) /\ [AppNext]_<<vars, appVars>> => AppInv(a)'
  BY NextApp
<1> QED
  BY <1>1, <1>2, <1>3, AppSpecImpliesSpec, CoreInvHolds, PTL DEF AppSpec

(* wnp.h:163-176, wnp.c:308-342: with one adapter the callbacks keep the    *)
(* contract, whatever the size of the table: no player is mentioned before  *)
(* its ADDED or after its REMOVED, and the active player is an announced    *)
(* one.                                                                     *)
THEOREM AloneKeepsContract ==
  ASSUME NEW a, OneAdapter(a)
  PROVE  AppSpec => KeepsContract
<1>1. AppInit => Contract!Init
  BY DEF AppInit, Contract!Init
<1>2. CoreInv /\ Alone(a) /\ AppInv(a) /\ [AppNext]_<<vars, appVars>>
        => [Contract!Next]_<<announced, app_active>>
  BY NextApp DEF ContractKept
<1> QED
  BY <1>1, <1>2, AppInvHolds, PTL DEF AppSpec, KeepsContract, Contract!Spec

(* wnp.c:308-342: with one adapter an application that only listened to the *)
(* callbacks has the table and knows the active player, whenever the        *)
(* adapter is not in the library.                                           *)
THEOREM AloneMirrorAgrees ==
  ASSUME NEW a, OneAdapter(a)
  PROVE  AppSpec => []MirrorAgrees
<1>1. CoreInv /\ Alone(a) /\ AppInv(a) => MirrorAgrees
  <2> SUFFICES ASSUME CoreInv, Alone(a), AppInv(a), Quiet
               PROVE  app_players = players /\ app_active = active_player_id
    BY DEF MirrorAgrees
  <2>1. pc[a] = "idle" /\ call[a] = "none" /\ TypeOK
    BY OneAdapterFacts DEF Quiet, CoreInv, BasicInv, ThreadShape
  <2>2. Pending(a) = {}
    BY <2>1, NothingPending
  <2>3. \A s \in Slots : app_players[s] = players[s]
    BY <2>2 DEF AppInv
  <2>4. app_players \in [Slots -> Player] /\ players \in [Slots -> Player]
    BY <2>1 DEF AppInv, TypeOK
  <2>5. app_players = players
    BY <2>3, <2>4
  <2> QED
    BY <2>1, <2>5 DEF AppInv
<1> QED
  BY <1>1, AppInvHolds, PTL
=============================================================================
