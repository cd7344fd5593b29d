----------------------------- MODULE LinuxAdapter -----------------------------
(***************************************************************************)
(* The Linux adapter (linux.c): __wnp_platform_linux_init lists the names *)
(* on the session bus, adds a player for each MPRIS name and only then     *)
(* watches the bus for names that come and go; from there on the thread of *)
(* the main loop handles the signals, one after the other.  Every handler  *)
(* is an update cycle and holds players_lock; adding a player asks it for  *)
(* its properties and then subscribes to their changes, and the bus may    *)
(* change between any two of these calls.                                  *)
(*                                                                         *)
(* The bus is external: it queues a signal only for a subscription that    *)
(* exists, and drops a signal still in the queue when its subscription is  *)
(* given up.  A player's properties are one value.                         *)
(***************************************************************************)
EXTENDS Integers, Sequences, FiniteSetsExt

CONSTANTS
  MaxPlayers,
  Names,          \* the bus names that begin with org.mpris.MediaPlayer2
  Texts,          \* what the properties of a player say
  NoText,         \* what WNP_DEFAULT_PLAYER says
  NoName,
  MaxSignals      \* bounds the queue; not in the code

(* What is assumed of the constants; MCSignals assumes it of its own.    *)
LinuxAssumption ==
  MaxPlayers \in Nat \ {0} /\ NoText \notin Texts /\ NoName \notin Names

VARIABLES
  owned,          \* the names that have an owner
  text,           \* the properties of each name's owner
  watching,       \* the NameOwnerChanged subscription
  subs,           \* how many PropertiesChanged subscriptions a name has
  signals,        \* received, not yet handled
  players,        \* the table, as far as this adapter can see its own players
  taken,          \* the slots other adapters' players are in
  pc,
  todo,           \* names listed and not yet looked at
  cur,            \* the slot of the player being added, -1 if none
  unwatched,      \* names that came or went unseen (not in the code)
  stale           \* names whose owner said something unseen (not in the code)

world == <<owned, text, taken>>
unseen == <<unwatched, stale>>
vars  == <<world, watching, subs, signals, players, pc, todo, cur, unseen>>

Slots == 0..(MaxPlayers - 1)
Free  == [name |-> NoName]
Own   == {s \in Slots : players[s] # Free}
InUse == Own \cup taken
Named(n) == {s \in Own : players[s].name = n}

OwnerChanged(n, gone) == [what |-> "owner", name |-> n, gone |-> gone]
PropertiesChanged(n, t) == [what |-> "properties", name |-> n, text |-> t]
Dropped                 == [what |-> "dropped"]

Signals == {OwnerChanged(n, gone) : n \in Names, gone \in BOOLEAN}
           \cup {PropertiesChanged(n, t) : n \in Names, t \in Texts} \cup {Dropped}

IsChange(m, n) == m.what = "properties" /\ m.name = n

Init ==
  /\ owned \in SUBSET Names
  /\ text \in [Names -> Texts]
  /\ watching = FALSE
  /\ subs = [n \in Names |-> 0]
  /\ signals = <<>>
  /\ players = [s \in Slots |-> Free]
  /\ taken = {}
  /\ pc = "list"
  /\ todo = {}
  /\ cur = -1
  /\ unwatched = {} /\ stale = {}

LockFree == pc \in {"list", "init", "loop"}

-----------------------------------------------------------------------------
(* _linux_init_active_players; an error lists nothing (567-570).           *)
ListNames ==
  /\ pc = "list"
  /\ \/ todo' = owned /\ unwatched' = {}
     \/ todo' = {} /\ unwatched' = owned
  /\ pc' = "init"
  /\ UNCHANGED <<world, watching, subs, signals, players, cur, stale>>

(* Mutant of KnownName: a name is added whether the table has it or not.    *)
KnownNameNever(n) == FALSE

(* linux.c:403-409.                                                        *)
KnownName(n) == Named(n) # {}

(* _linux_player_added up to the call of the player: a name that has a       *)
(* player, or finds no slot, ends the cycle.                                *)
PlayerAdded(n) ==
  \/ /\ KnownName(n)
     /\ unwatched' = IF watching THEN unwatched \ {n} ELSE unwatched
     /\ UNCHANGED <<players, cur, pc>>
  \/ /\ ~KnownName(n) /\ InUse = Slots
     /\ unwatched' = unwatched \cup {n}
     /\ UNCHANGED <<players, cur, pc>>
  \/ /\ ~KnownName(n) /\ InUse # Slots
     /\ cur' = Min(Slots \ InUse)
     /\ players' = [players EXCEPT ![cur'] = [name |-> n, text |-> NoText]]
     /\ pc' = IF pc = "init" THEN "get_all_init" ELSE "get_all"
     /\ unwatched' = IF watching THEN unwatched \ {n} ELSE unwatched

AddListed ==
  /\ pc = "init"
  /\ \E n \in todo : todo' = todo \ {n} /\ PlayerAdded(n)
  /\ UNCHANGED <<world, watching, subs, signals, stale>>

(* linux.c:458-483: the call may fail, and does without an owner.          *)
GetAll ==
  /\ pc \in {"get_all_init", "get_all"}
  /\ LET n == players[cur].name
     IN \/ /\ n \in owned
           /\ players' = [players EXCEPT ![cur].text = text[n]]
           /\ stale' = stale \ {n}
        \/ /\ stale' = stale \cup {n}
           /\ UNCHANGED players
  /\ pc' = IF pc = "get_all" THEN "subscribe" ELSE "subscribe_init"
  /\ UNCHANGED <<world, watching, subs, signals, todo, cur, unwatched>>

(* linux.c:486-501.                                                        *)
Subscribe ==
  /\ pc \in {"subscribe_init", "subscribe"}
  /\ subs' = [subs EXCEPT ![players[cur].name] = @ + 1]
  /\ cur' = -1
  /\ pc' = IF pc = "subscribe" THEN "loop" ELSE "init"
  /\ UNCHANGED <<world, watching, signals, players, todo, unseen>>

(* linux.c:610-625: the watch, then the loop and its thread.               *)
Watch ==
  /\ pc = "init" /\ todo = {}
  /\ watching' = TRUE
  /\ pc' = "loop"
  /\ UNCHANGED <<world, subs, signals, players, todo, cur, unseen>>

-----------------------------------------------------------------------------
Received(what) == pc = "loop" /\ signals # <<>> /\ Head(signals).what = what

(* linux.c:537: a name has an owner, a first one or another one.           *)
on_name_owner_appeared ==
  /\ Received("owner") /\ ~Head(signals).gone
  /\ PlayerAdded(Head(signals).name)
  /\ signals' = Tail(signals)
  /\ UNCHANGED <<world, watching, subs, todo, stale>>

(* __wnp_platform_linux_free gives up the subscription of each player.     *)
WithoutSubscription(n) ==
  /\ subs' = [subs EXCEPT ![n] = 0]
  /\ LET rest == Tail(signals)
     IN signals' = [i \in DOMAIN rest |-> IF IsChange(rest[i], n) THEN Dropped ELSE rest[i]]

(* Nobody hears of it.                                                     *)
Drop ==
  /\ Received("dropped")
  /\ signals' = Tail(signals)
  /\ UNCHANGED <<world, watching, subs, players, pc, todo, cur, unseen>>

(* linux.c:539: _linux_player_removed.                                     *)
on_name_owner_vanished ==
  /\ Received("owner") /\ Head(signals).gone
  /\ LET n == Head(signals).name
     IN /\ players' = [s \in Slots |-> IF s \in Named(n) THEN Free ELSE players[s]]
        /\ IF Named(n) # {} THEN WithoutSubscription(n)
                            ELSE signals' = Tail(signals) /\ UNCHANGED subs
        /\ unwatched' = unwatched \ {n}
  /\ UNCHANGED <<world, watching, pc, todo, cur, stale>>

(* Mutant of Shows: the change is not written to the player.                *)
ShowsOld(t) == UNCHANGED players

Shows(t) == players' = [players EXCEPT ![Min(Named(Head(signals).name))].text = t]

(* The owner's last word, as far as it was heard.                          *)
Latest(m) == \A i \in 2..Len(signals) : ~IsChange(signals[i], m.name)

(* linux.c:357-396.                                                        *)
on_properties_changed ==
  /\ Received("properties")
  /\ LET m == Head(signals)
     IN IF Named(m.name) = {} THEN UNCHANGED <<players, stale>>
        ELSE /\ Shows(m.text)
             /\ stale' = IF m.text = text[m.name] /\ Latest(m) THEN stale \ {m.name} ELSE stale
  /\ signals' = Tail(signals)
  /\ UNCHANGED <<world, watching, subs, pc, todo, cur, unwatched>>

-----------------------------------------------------------------------------
Queued(new) == signals' = signals \o new
Room        == Len(signals) < MaxSignals
IfWatching(n, gone) == IF watching THEN <<OwnerChanged(n, gone)>> ELSE <<>>
IfSubscribed(n, t)  == IF subs[n] > 0 THEN <<PropertiesChanged(n, t)>> ELSE <<>>

ComesOrGoes(n) == unwatched' = IF watching THEN unwatched ELSE unwatched \cup {n}
Local          == <<taken, watching, subs, players, pc, todo, cur>>

(* A player starts, stops, hands its name to another process - which is not *)
(* asked for its properties (403-409) -, or plays something else.           *)
Appear(n, t) ==
  /\ Room /\ n \notin owned
  /\ owned' = owned \cup {n}
  /\ text' = [text EXCEPT ![n] = t]
  /\ Queued(IfWatching(n, FALSE))
  /\ ComesOrGoes(n) /\ stale' = stale \cup {n}
  /\ UNCHANGED Local

Vanish(n) ==
  /\ Room /\ n \in owned
  /\ owned' = owned \ {n}
  /\ Queued(IfWatching(n, TRUE))
  /\ ComesOrGoes(n)
  /\ UNCHANGED <<text, stale, Local>>

Replace(n, t) ==
  /\ Room /\ n \in owned /\ text[n] # t
  /\ text' = [text EXCEPT ![n] = t]
  /\ Queued(IfWatching(n, FALSE))
  /\ stale' = stale \cup {n}
  /\ UNCHANGED <<owned, unwatched, Local>>

Play(n, t) ==
  /\ Room /\ n \in owned /\ text[n] # t
  /\ text' = [text EXCEPT ![n] = t]
  /\ Queued(IfSubscribed(n, t))
  /\ stale' = IF subs[n] = 0 THEN stale \cup {n} ELSE stale
  /\ UNCHANGED <<owned, unwatched, Local>>

(* __wnp_platform_linux_event: the player does what it is told and says so  *)
(* on the bus; its new state is in the table before that signal arrives.    *)
Event(s, t) ==
  /\ LockFree /\ Room
  /\ s \in Own /\ players[s].name \in owned /\ text[players[s].name] # t
  /\ text' = [text EXCEPT ![players[s].name] = t]
  /\ Queued(IfSubscribed(players[s].name, t))
  /\ players' = [players EXCEPT ![s].text = t]
  /\ UNCHANGED <<owned, taken, watching, subs, pc, todo, cur, unseen>>

(* The web adapter adds or removes a player of its own.                    *)
OtherAdapter(s) ==
  /\ LockFree
  /\ s \notin Own
  /\ taken' = IF s \in taken THEN taken \ {s} ELSE taken \cup {s}
  /\ UNCHANGED <<owned, text, watching, subs, signals, players, pc, todo, cur, unseen>>

Adapter == \/ ListNames \/ AddListed \/ GetAll \/ Subscribe \/ Watch
           \/ on_name_owner_appeared \/ on_name_owner_vanished \/ on_properties_changed \/ Drop

Next ==
  \/ Adapter
  \/ \E n \in Names : Vanish(n) \/ \E t \in Texts : Appear(n, t) \/ Replace(n, t) \/ Play(n, t)
  \/ \E s \in Slots : OtherAdapter(s) \/ \E t \in Texts : Event(s, t)

Spec == Init /\ [][Next]_vars

-----------------------------------------------------------------------------
(* The types of the adapter's state.                                       *)
TypeOK ==
  /\ owned \subseteq Names
  /\ text \in [Names -> Texts]
  /\ watching \in BOOLEAN
  /\ subs \in [Names -> 0..MaxPlayers]
  /\ players \in [Slots -> [name : Names, text : Texts \cup {NoText}] \cup {Free}]
  /\ taken \subseteq Slots /\ taken \cap Own = {}
  /\ signals \in Seq(Signals)
  /\ pc \in {"list", "init", "get_all_init", "subscribe_init", "loop", "get_all", "subscribe"}
  /\ todo \cup unwatched \cup stale \subseteq Names
  /\ cur \in Slots \cup {-1}

(* linux.c:403-409, 486, 645: outside a cycle every name has at most one     *)
(* player and exactly as many subscriptions as players, whatever names came, *)
(* went, were replaced or found the table full; nothing is delivered for a  *)
(* player that is gone.                                                     *)
OneSubscriptionEach ==
  LockFree => \A n \in Names : /\ Cardinality(Named(n)) <= 1
                               /\ subs[n] = Cardinality(Named(n))

Idle == pc = "loop" /\ signals = <<>>

(* linux.c:520-543, 607-610: with no signal left to handle, the table is the *)
(* bus: a player for each name that has an owner, saying what it says.  Lost  *)
(* are only names that came or went between the listing and the watch, or    *)
(* found no slot, and words spoken by a new owner of a name or between the   *)
(* call for the properties, which may fail, and the subscription.            *)
FollowsBus ==
  Idle => \A n \in Names \ unwatched :
            /\ Named(n) # {} <=> n \in owned
            /\ \A s \in Named(n) : n \in stale \/ players[s].text = text[n]
=============================================================================
