------------------------------- MODULE WnpCore -------------------------------
(***************************************************************************)
(* The library core (wnp.c): the player table, the update cycles in which *)
(* platform adapters change it, the delivery of callbacks that follows    *)
(* every cycle, the recalculation of the active player, and the calls of  *)
(* application threads that look a player up or change its state.          *)
(*                                                                         *)
(* Every thread that runs library code is a process with a program        *)
(* counter.  A step is what the code does between two points where        *)
(* another thread can interfere: a section under players_lock is one step *)
(* unless other calls can be made while it is held (an update cycle), and *)
(* an unlocked access to shared state is a step of its own.               *)
(***************************************************************************)
EXTENDS WnpPlayer, FiniteSets

CONSTANTS
  Web, Native,     \* adapter threads: clients of the web server, desktop adapters
  Apps,            \* application threads
  NoThread,        \* the owner of a free mutex
  Contents         \* the [state, volume, active_at] an adapter reports

Adapters == Web \cup Native
Threads  == Adapters \cup Apps

ASSUME ThreadsAssumption ==
  /\ Owners = Adapters
  /\ Web \cap Native = {}
  /\ Adapters \cap Apps = {}
  /\ NoThread \notin Threads
ASSUME ContentsAssumption ==
  Contents \subseteq [state : States, volume : Nat, active_at : Nat]

VARIABLES
  players,             \* _wnp_state.players
  total_web_players,   \* _wnp_state.total_web_players
  players_lock,        \* _wnp_state.players_lock: the thread that holds it
  update_cycle,        \* _wnp_state.update_cycle
  added_players,       \* _wnp_state.update_cycle_added_players
  updated_players,     \* _wnp_state.update_cycle_updated_players
  removed_players,     \* _wnp_state.update_cycle_removed_players
  active_player_id,    \* _wnp_state.active_player_id
  pc,                  \* where each thread is
  call,                \* what the thread's wnp_get_player is for
  at,                  \* the index i of the delivery loops
  cur,                 \* the id at hand: an entry read, an argument, the candidate
  seen,                \* the slot, or removed entry, as it was when it was checked
  mine,                \* its own players in the players_out snapshot, to be handled
  out                  \* what the last step handed to the application

table  == <<players, total_web_players>>
queues == <<added_players, updated_players, removed_players>>
shared == <<table, players_lock, update_cycle, queues, active_player_id>>
vars   == <<shared, pc, call, at, cur, seen, mine, out>>

PCs == {"idle", "cycle", "sweep", "list", "hand_over", "lookup", "copy", "clear",
        "recalculate", "compare", "publish", "reread"}

Calls == {"none", "added", "updated", "removed", "active",
          "get_player", "get_active", "event"}

Outs == [what : Calls, asked : Slots \cup {-1}, player : Player]

NoOut == [what |-> "none", asked |-> -1, player |-> WNP_DEFAULT_PLAYER]

(* player is WNP_DEFAULT_PLAYER, the callers' initialiser, when nothing    *)
(* was copied into it.                                                      *)
Out(what, asked, player) == [what |-> what, asked |-> asked, player |-> player]

Init ==
  /\ players = [s \in Slots |-> WNP_DEFAULT_PLAYER]
  /\ total_web_players = 0
  /\ players_lock = NoThread
  /\ update_cycle = FALSE
  /\ added_players = [s \in Slots |-> -1]
  /\ updated_players = [s \in Slots |-> -1]
  /\ removed_players = [s \in Slots |-> WNP_DEFAULT_PLAYER]
  /\ active_player_id = -1
  /\ pc = [t \in Threads |-> "idle"]
  /\ call = [t \in Threads |-> "none"]
  /\ at = [t \in Threads |-> 0]
  /\ cur = [t \in Threads |-> -1]
  /\ seen = [t \in Threads |-> WNP_DEFAULT_PLAYER]
  /\ mine = [t \in Threads |-> {}]
  /\ out = NoOut

Goto(t, p) == pc' = [pc EXCEPT ![t] = p]
Lockable   == players_lock = NoThread
Silent     == out' = NoOut

(* The thread leaves the library; its locals are gone.                     *)
Return(t) ==
  /\ Goto(t, "idle")
  /\ call' = [call EXCEPT ![t] = "none"]
  /\ cur' = [cur EXCEPT ![t] = -1]

-----------------------------------------------------------------------------
(* Update cycles.                                                          *)

Used(s) == players[s].id # -1
Owns(t, s) == Used(s) /\ players[s].data = t

Flags(t) == IF t \in Web THEN {FALSE} ELSE BOOLEAN

(* Mutant of Enqueue: the loop stops one entry short.                       *)
EnqueueShort(queue, empty, entry) ==
  [q \in Slots |-> IF /\ queue[q] = empty /\ \A p \in Slots : p < q => queue[p] # empty
                      /\ q < MaxPlayers - 1
                   THEN entry ELSE queue[q]]

(* "for ... if (queue[i] == -1) { queue[i] = id; break; }": the first free *)
(* entry, if there is one.                                                  *)
Enqueue(queue, empty, entry) ==
  [q \in Slots |-> IF queue[q] = empty /\ \A p \in Slots : p < q => queue[p] # empty
                   THEN entry ELSE queue[q]]

Queued(queue, id) == \E q \in Slots : queue[q] = id

(* Mutant of AlreadyQueued: any entry will do.                              *)
SomethingQueued(s) == \E q \in Slots : added_players[q] # -1 \/ updated_players[q] # -1

AlreadyQueued(s) == Queued(added_players, s) \/ Queued(updated_players, s)

StartCycle(t) ==
  /\ pc[t] = "idle" /\ Lockable
  /\ players_lock' = t
  /\ update_cycle' = TRUE
  /\ mine' = [mine EXCEPT ![t] = {s \in Slots : Owns(t, s)}]
  /\ Goto(t, "cycle")
  /\ Silent
  /\ UNCHANGED <<table, queues, active_player_id, call, at, cur, seen>>

InCycle(t) == pc[t] \in {"cycle", "sweep"}

(* Mutant of FirstFree: the test whether the slot is free is gone.          *)
FirstSlot(s) == \A q \in Slots : s <= q

FirstFree(s) == ~Used(s) /\ \A q \in Slots : q < s => Used(q)

New(t, s, browser) ==
  [WNP_DEFAULT_PLAYER EXCEPT !.id = s,
                             !.platform = IF t \in Web THEN "WEB" ELSE "NATIVE",
                             !.is_web_browser = browser,
                             !.data = t]

Reported(player, c, browser) ==
  [player EXCEPT !.state = c.state, !.volume = c.volume,
                 !.active_at = c.active_at, !.is_web_browser = browser]

Freed(player) == [player EXCEPT !.data = "NULL"]

(* What every adapter does in a cycle is an instance of this: it adds      *)
(* players and fills them in, then sweeps over its players in the          *)
(* snapshot, updating or removing each at most once (all of it in          *)
(* windows.cpp:348-419, one player and one kind at a time in web.c and     *)
(* linux.c).  A full table changes nothing.                                *)
AddPlayer(t) ==
  /\ pc[t] = "cycle" /\ update_cycle
  /\ \E s \in Slots, browser \in Flags(t) :
       /\ FirstFree(s)
       /\ players' = [players EXCEPT ![s] = New(t, s, browser)]
       /\ total_web_players' = total_web_players + (IF t \in Web THEN 1 ELSE 0)
       /\ added_players' = Enqueue(added_players, -1, s)
  /\ Silent
  /\ UNCHANGED <<players_lock, update_cycle, updated_players, removed_players,
                 active_player_id, pc, call, at, cur, seen, mine>>

UpdatePlayer(t) ==
  /\ InCycle(t) /\ update_cycle
  /\ \E s \in Slots, c \in Contents, browser \in Flags(t) :
       /\ Owns(t, s)
       /\ s \in mine[t] \/ pc[t] = "cycle"
       /\ players' = [players EXCEPT ![s] = Reported(@, c, browser)]
       /\ updated_players' = IF AlreadyQueued(s)
                             THEN updated_players
                             ELSE Enqueue(updated_players, -1, s)
       /\ Goto(t, IF s \in mine[t] THEN "sweep" ELSE "cycle")
       /\ mine' = [mine EXCEPT ![t] = @ \ {s}]
  /\ Silent
  /\ UNCHANGED <<total_web_players, players_lock, update_cycle, added_players,
                 removed_players, active_player_id, call, at, cur, seen>>

(* Mutant of WebShare: the platform is looked at after the slot was reset.  *)
WebShareAfterReset(s) == 0

WebShare(s) == IF players[s].platform = "WEB" THEN 1 ELSE 0

(* `_platform_data` is freed before the player is copied for its callback. *)
RemovePlayer(t) ==
  /\ InCycle(t) /\ update_cycle
  /\ \E s \in mine[t] :
       /\ Owns(t, s)
       /\ total_web_players' = total_web_players - WebShare(s)
       /\ removed_players' = Enqueue(removed_players, WNP_DEFAULT_PLAYER,
                                     Freed(players[s]))
       /\ players' = [players EXCEPT ![s] = WNP_DEFAULT_PLAYER]
       /\ mine' = [mine EXCEPT ![t] = @ \ {s}]
  /\ Goto(t, "sweep")
  /\ Silent
  /\ UNCHANGED <<players_lock, update_cycle, added_players, updated_players,
                 active_player_id, call, at, cur, seen>>

EndCycle(t) ==
  /\ InCycle(t)
  /\ update_cycle' = FALSE
  /\ players_lock' = NoThread
  /\ mine' = [mine EXCEPT ![t] = {}]
  /\ Goto(t, "list")
  /\ call' = [call EXCEPT ![t] = "added"]
  /\ Silent
  /\ UNCHANGED <<table, queues, active_player_id, at, cur, seen>>

-----------------------------------------------------------------------------
(* Delivery: three loops over the queues, none of them under the lock.     *)

(* Mutants of LastEntry: i <= WNP_MAX_PLAYERS; i < WNP_MAX_PLAYERS - 1.     *)
PastLastEntry(t) == at[t] = MaxPlayers
BeforeLastEntry(t) == at[t] >= MaxPlayers - 2

LastEntry(t) == at[t] = MaxPlayers - 1

(* The next iteration, the next loop, or the recalculation.                *)
Advance(t) ==
  IF ~LastEntry(t)
  THEN /\ at' = [at EXCEPT ![t] = @ + 1]
       /\ Goto(t, "list")
       /\ UNCHANGED call
  ELSE /\ at' = [at EXCEPT ![t] = 0]
       /\ Goto(t, IF call[t] = "removed" THEN "recalculate" ELSE "list")
       /\ call' = [call EXCEPT ![t] = IF @ = "added" THEN "updated"
                                      ELSE IF @ = "updated" THEN "removed" ELSE "none"]

Entry(t) == IF call[t] = "added" THEN added_players[at[t]] ELSE updated_players[at[t]]

ReadEntry(t) ==
  /\ pc[t] = "list" /\ call[t] \in {"added", "updated"}
  /\ \/ /\ Entry(t) = -1
        /\ Advance(t)
        /\ UNCHANGED cur
     \/ /\ Entry(t) # -1
        /\ cur' = [cur EXCEPT ![t] = Entry(t)]
        /\ Goto(t, "lookup")
        /\ UNCHANGED <<call, at>>
  /\ Silent
  /\ UNCHANGED <<shared, seen, mine>>

(* A player read without the lock races with whoever writes it: every      *)
(* field is the one there when it was checked or the one there now.        *)
Torn(a, b) ==
  [ id             : {a.id, b.id},
    platform       : {a.platform, b.platform},
    is_web_browser : {a.is_web_browser, b.is_web_browser},
    state          : {a.state, b.state},
    volume         : {a.volume, b.volume},
    active_at      : {a.active_at, b.active_at},
    data           : {a.data, b.data} ]

ReadRemoved(t) ==
  /\ pc[t] = "list" /\ call[t] = "removed"
  /\ \/ /\ removed_players[at[t]].id = -1
        /\ Advance(t)
        /\ UNCHANGED seen
     \/ /\ removed_players[at[t]].id # -1
        /\ seen' = [seen EXCEPT ![t] = removed_players[at[t]]]
        /\ Goto(t, "hand_over")
        /\ UNCHANGED <<call, at>>
  /\ Silent
  /\ UNCHANGED <<shared, cur, mine>>

(* on_player_removed gets a pointer into the queue, not a copy: what the   *)
(* application reads there races with other deliveries that clear it.      *)
HandOver(t) ==
  /\ pc[t] = "hand_over"
  /\ \E player \in Torn(seen[t], removed_players[at[t]]) :
       out' = Out("removed", seen[t].id, player)
  /\ seen' = [seen EXCEPT ![t] = WNP_DEFAULT_PLAYER]
  /\ Goto(t, "clear")
  /\ UNCHANGED <<shared, call, at, cur, mine>>

(* Mutant of Clear: the entry is not cleared but tried again.               *)
ClearAgain(t) ==
  /\ pc[t] = "clear"
  /\ Goto(t, "list")
  /\ cur' = [cur EXCEPT ![t] = -1]
  /\ Silent
  /\ UNCHANGED <<shared, call, at, seen, mine>>

(* Mutant of Clear: added players stay in their queue.                      *)
ClearForgets(t) ==
  /\ pc[t] = "clear"
  /\ updated_players' = IF call[t] = "updated"
                        THEN [updated_players EXCEPT ![at[t]] = -1] ELSE updated_players
  /\ removed_players' = IF call[t] = "removed"
                        THEN [removed_players EXCEPT ![at[t]] = WNP_DEFAULT_PLAYER]
                        ELSE removed_players
  /\ Advance(t)
  /\ cur' = [cur EXCEPT ![t] = -1]
  /\ Silent
  /\ UNCHANGED <<table, players_lock, update_cycle, added_players, active_player_id,
                 seen, mine>>

(* The callback returned: the entry is cleared, whatever it holds by now.  *)
Clear(t) ==
  /\ pc[t] = "clear"
  /\ added_players' = IF call[t] = "added"
                      THEN [added_players EXCEPT ![at[t]] = -1] ELSE added_players
  /\ updated_players' = IF call[t] = "updated"
                        THEN [updated_players EXCEPT ![at[t]] = -1] ELSE updated_players
  /\ removed_players' = IF call[t] = "removed"
                        THEN [removed_players EXCEPT ![at[t]] = WNP_DEFAULT_PLAYER]
                        ELSE removed_players
  /\ Advance(t)
  /\ cur' = [cur EXCEPT ![t] = -1]
  /\ Silent
  /\ UNCHANGED <<table, players_lock, update_cycle, active_player_id, seen, mine>>

-----------------------------------------------------------------------------
(* wnp_get_player: checked under the lock, copied (`*player_out = *player`) *)
(* after it is released.                                                    *)
(* When it fails it returns false and hands nothing over; but              *)
(* wnp_get_active_player, whose player_out is then untouched, returns true. *)

(* What the caller does once wnp_get_player is back.                       *)
AfterCall(t) ==
  IF call[t] \in {"added", "updated"}
  THEN Goto(t, "clear") /\ UNCHANGED <<call, cur>>
  ELSE Return(t)

Lookup(t) ==
  /\ pc[t] = "lookup" /\ Lockable
  /\ LET player == players[cur[t]]
     IN \/ /\ player.id = cur[t] /\ ~Hidden(player, total_web_players)
           /\ seen' = [seen EXCEPT ![t] = player]
           /\ Goto(t, "copy")
           /\ Silent
           /\ UNCHANGED <<call, cur>>
        \/ /\ player.id # cur[t] \/ Hidden(player, total_web_players)
           /\ out' = IF call[t] = "get_active"
                     THEN Out(call[t], cur[t], WNP_DEFAULT_PLAYER) ELSE NoOut
           /\ AfterCall(t)
           /\ UNCHANGED seen
  /\ UNCHANGED <<shared, at, mine>>

Copy(t) ==
  /\ pc[t] = "copy"
  /\ \E player \in Torn(seen[t], players[cur[t]]) :
       out' = Out(IF call[t] = "event" THEN "updated" ELSE call[t], cur[t], player)
  /\ seen' = [seen EXCEPT ![t] = WNP_DEFAULT_PLAYER]
  /\ AfterCall(t)
  /\ UNCHANGED <<shared, at, mine>>

-----------------------------------------------------------------------------
(* _wnp_recalculate_active_player: ActiveScan is its loop.                 *)

Recalculate(t) ==
  /\ pc[t] = "recalculate" /\ Lockable
  /\ \E r \in Slots \cup {-1} :
       /\ Selected(players, Visible(players, total_web_players), r)
       /\ cur' = [cur EXCEPT ![t] = r]
  /\ Goto(t, "compare")
  /\ Silent
  /\ UNCHANGED <<shared, call, at, seen, mine>>

(* Mutant of Changed: the end of the last player is no change.              *)
ChangedToPlayer(t) == cur[t] # active_player_id /\ cur[t] # -1

Changed(t) == cur[t] # active_player_id

Compare(t) ==
  /\ pc[t] = "compare"
  /\ \/ /\ Changed(t)
        /\ Goto(t, "publish")
        /\ UNCHANGED <<call, cur>>
     \/ /\ ~Changed(t)
        /\ Return(t)
  /\ Silent
  /\ UNCHANGED <<shared, at, seen, mine>>

Publish(t) ==
  /\ pc[t] = "publish"
  /\ active_player_id' = cur[t]
  /\ \/ /\ cur[t] = -1
        /\ out' = Out("active", -1, WNP_DEFAULT_PLAYER)
        /\ Return(t)
     \/ /\ cur[t] # -1
        /\ call' = [call EXCEPT ![t] = "active"]
        /\ Goto(t, "lookup")
        /\ Silent
        /\ UNCHANGED cur
  /\ UNCHANGED <<table, players_lock, update_cycle, queues, at, seen, mine>>

-----------------------------------------------------------------------------
(* Application threads (or a callback, which runs without the lock).       *)

CallGetPlayer(t) ==
  /\ pc[t] = "idle"
  /\ \E s \in Slots : cur' = [cur EXCEPT ![t] = s]
  /\ call' = [call EXCEPT ![t] = "get_player"]
  /\ Goto(t, "lookup")
  /\ Silent
  /\ UNCHANGED <<shared, at, seen, mine>>

(* active_player_id is read twice, without a lock.                         *)
CallGetActive(t) ==
  /\ pc[t] = "idle"
  /\ active_player_id # -1
  /\ call' = [call EXCEPT ![t] = "get_active"]
  /\ Goto(t, "reread")
  /\ Silent
  /\ UNCHANGED <<shared, at, cur, seen, mine>>

(* Mutant of Reread: it waits for a player to be active.                    *)
RereadWaits(t) ==
  /\ pc[t] = "reread"
  /\ active_player_id # -1
  /\ cur' = [cur EXCEPT ![t] = active_player_id]
  /\ Goto(t, "lookup")
  /\ Silent
  /\ UNCHANGED <<shared, call, at, seen, mine>>

Reread(t) ==
  /\ pc[t] = "reread"
  /\ \/ /\ active_player_id # -1
        /\ cur' = [cur EXCEPT ![t] = active_player_id]
        /\ Goto(t, "lookup")
        /\ Silent
        /\ UNCHANGED call
     \/ /\ active_player_id = -1
        /\ out' = Out("get_active", -1, WNP_DEFAULT_PLAYER)
        /\ Return(t)
  /\ UNCHANGED <<shared, at, seen, mine>>

(* An accepted wnp_try_set_state: the web adapter writes the state at      *)
(* once, a desktop adapter when its player took the request.  The active   *)
(* player is not recalculated.                                             *)
TrySetState(t) ==
  /\ pc[t] = "idle" /\ Lockable
  /\ \E s \in Slots, state \in {c.state : c \in Contents} :
       /\ Used(s)
       /\ \/ players' = [players EXCEPT ![s].state = state]
          \/ players[s].platform # "WEB" /\ UNCHANGED players
       /\ cur' = [cur EXCEPT ![t] = s]
  /\ call' = [call EXCEPT ![t] = "event"]
  /\ Goto(t, "lookup")
  /\ Silent
  /\ UNCHANGED <<total_web_players, players_lock, update_cycle, queues,
                 active_player_id, at, seen, mine>>

-----------------------------------------------------------------------------
Deliver(t) == ReadEntry(t) \/ ReadRemoved(t) \/ HandOver(t) \/ Clear(t)
GetPlayer(t) == Lookup(t) \/ Copy(t)
Recalc(t)  == Recalculate(t) \/ Compare(t) \/ Publish(t)

Next ==
  \/ \E t \in Adapters :
       \/ StartCycle(t) \/ AddPlayer(t) \/ UpdatePlayer(t) \/ RemovePlayer(t)
       \/ EndCycle(t) \/ Deliver(t) \/ Recalc(t)
  \/ \E t \in Apps : CallGetPlayer(t) \/ CallGetActive(t) \/ Reread(t) \/ TrySetState(t)
  \/ \E t \in Threads : GetPlayer(t)

(* A thread is scheduled; a mutex that is released again and again is      *)
(* eventually granted; an adapter ends the cycle it started.               *)
Fairness ==
  /\ \A t \in Adapters : WF_vars(EndCycle(t)) /\ WF_vars(Deliver(t))
                         /\ SF_vars(Recalc(t))
  /\ \A t \in Apps : WF_vars(Reread(t))
  /\ \A t \in Threads : SF_vars(GetPlayer(t))

Spec == Init /\ [][Next]_vars

FairSpec == Spec /\ Fairness

-----------------------------------------------------------------------------
WebSlots == {s \in Slots : players[s].platform = "WEB"}

TypeOK ==
  /\ players \in [Slots -> Player]
  /\ total_web_players \in Int
  /\ players_lock \in Threads \cup {NoThread}
  /\ update_cycle \in BOOLEAN
  /\ added_players \in [Slots -> Slots \cup {-1}]
  /\ updated_players \in [Slots -> Slots \cup {-1}]
  /\ removed_players \in [Slots -> Player]
  /\ active_player_id \in Slots \cup {-1}
  /\ pc \in [Threads -> PCs]
  /\ call \in [Threads -> Calls]
  /\ at \in [Threads -> Slots]
  /\ cur \in [Threads -> Slots \cup {-1}]
  /\ seen \in [Threads -> Player]
  /\ mine \in [Threads -> SUBSET Slots]
  /\ out \in Outs

-----------------------------------------------------------------------------
(* wnp.c:209-215, 308-312: update_cycle is set exactly while players_lock   *)
(* is held by the one thread that is in a cycle, so the `if (!update_cycle) *)
(* return` of add, update and remove never refuses an adapter its change    *)
(* and never lets one through that does not hold the lock.                  *)
CycleHoldsLock ==
  /\ update_cycle <=> players_lock # NoThread
  /\ \A t \in Threads : players_lock = t <=> InCycle(t)

(* wnp.c:232, 290: total_web_players, which hides every native browser, is  *)
(* the number of web players in the table, through all adds and removes.    *)
WebCount == total_web_players = Cardinality(WebSlots)

LoopsAfter(list) == IF list = "added" THEN {"updated", "removed"}
                    ELSE IF list = "updated" THEN {"removed"} ELSE {}

Delivering(t) == pc[t] \in {"list", "hand_over", "lookup", "copy", "clear"}
                 /\ call[t] \in {"added", "updated", "removed"}

(* t has still to visit entry q of a queue.                                 *)
Ahead(t, list, q) ==
  \/ InCycle(t)
  \/ /\ Delivering(t)
     /\ \/ list \in LoopsAfter(call[t])
        \/ call[t] = list /\ at[t] <= q

(* wnp.c:314-338: whatever the interleaving of several delivering threads,  *)
(* an entry of a queue always has a thread on its way to it - for an added  *)
(* or updated player the very adapter that owns it - so no notification is  *)
(* left behind for a later cycle to announce.                               *)
EveryEntryIsVisited ==
  \A q \in Slots :
    /\ added_players[q] # -1 =>
         \E t \in Adapters : Owns(t, added_players[q]) /\ Ahead(t, "added", q)
    /\ updated_players[q] # -1 =>
         \E t \in Adapters : Owns(t, updated_players[q]) /\ Ahead(t, "updated", q)
    /\ removed_players[q].id # -1 =>
         \E t \in Adapters : Ahead(t, "removed", q)

(* wnp.c:235-240, 271-276, 298-303: the queues have a slot per player and   *)
(* drop what does not fit.  Nothing is ever dropped: a player added,        *)
(* changed or removed in a cycle is in a queue when the cycle ends.         *)
NothingDropped ==
  [][\A s \in Slots : players'[s] # players[s] /\ update_cycle =>
       \/ Queued(added_players', s) \/ Queued(updated_players', s)
       \/ \E q \in Slots : removed_players'[q].id = s /\ players'[s].id = -1]_vars

(* wnp.c:226, 305, 261: a slot changes hands only by being freed: while a   *)
(* player is in it neither its owner nor its platform changes, and only a   *)
(* thread in an update cycle frees it.                                      *)
SlotKeepsOwner ==
  [][\A s \in Slots : Used(s) =>
       \/ players'[s].data = players[s].data /\ players'[s].platform = players[s].platform
       \/ players'[s] = WNP_DEFAULT_PLAYER /\ InCycle(players[s].data)]_vars

(* wnp.c:308-342: an adapter that ended a cycle gets through the delivery   *)
(* and the recalculation and back to its own work, however many other       *)
(* threads take the lock in between.                                        *)
DeliveryEnds == \A t \in Adapters : pc[t] = "list" ~> pc[t] = "idle"

(* wnp.c:625-642, 645-655, 498-505: a call of the application that looks a  *)
(* player up, or changes its state, returns, however busy the adapters are. *)
CallsReturn == \A t \in Apps : pc[t] # "idle" ~> pc[t] = "idle"

(* wnp.c:139-142: when nothing is going on, the active player is the one    *)
(* the selection rule names for the table as it is.                         *)
Quiet == \A t \in Threads : pc[t] = "idle"

ActiveIsFresh ==
  Quiet => Selected(players, Visible(players, total_web_players), active_player_id)
=============================================================================
