----------------------------- MODULE WebAdapter -----------------------------
(***************************************************************************)
(* The web adapter (web.c) on top of the WebSocket server: what its        *)
(* handlers do, on the client threads, to the library's player table and   *)
(* to the covers that arrived before their players, and the requests that  *)
(* application threads send to the players' clients.                       *)
(*                                                                         *)
(* A connection announces players under port ids of its own.  The table is *)
(* WnpCore's, seen by this adapter.  An update cycle in which nothing else *)
(* is called is one step, and players_lock shows only while a request is   *)
(* sent, or when a handler leaves a cycle without ending it.               *)
(***************************************************************************)
EXTENDS CwsServer

CONSTANTS
  MaxPlayers,          \* WNP_MAX_PLAYERS
  MAX_COVER_BUFFERS,   \* WNP_MAX_COVER_BUFFERS
  Ports,               \* the port ids a client uses
  Texts,               \* the contents of a player it reports
  CoverPath,           \* what __wnp_get_cover_path can return
  Nothing              \* no player, no buffer, no cover, no port

PlayerIds == 0 .. MaxPlayers - 1
Buffers   == 0 .. MAX_COVER_BUFFERS - 1

ASSUME WebAssumption ==
  /\ MaxPlayers \in Nat \ {0} /\ MAX_COVER_BUFFERS \in Nat \ {0}
  /\ CoverPath \in (SUBSET BOOLEAN) \ {{}}

VARIABLES
  players,         \* _wnp_state.players
  players_lock,    \* _wnp_state.players_lock: the thread that holds it
  cover_buffers,   \* _web_state.cover_buffers
  early,           \* the port of a cover that a thread is about to keep
  cleared,         \* a closing thread has removed its client's players
  request,         \* the player an application thread sends a request to
  announced        \* what each client has announced: the table it should have

web      == <<players, players_lock, cover_buffers, early, cleared, request, announced>>
web_vars == <<vars, web>>

(* conn is not in the code: the connection that an image, a player or a    *)
(* buffer came from, whose slot is client.                                  *)
Covers   == [conn : Conns, port : Ports] \cup {Nothing}
Player   == [conn : Conns, client : Clients, port : Ports, text : Texts, cover : Covers]
Buffer   == [conn : Conns, client : Clients, port : Ports]

ASSUME NothingAssumption == Nothing \notin Player

WebInit ==
  /\ Init
  /\ players = [p \in PlayerIds |-> Nothing]
  /\ players_lock = NoConn
  /\ cover_buffers = [b \in Buffers |-> Nothing]
  /\ early = [t \in Conns |-> Nothing]
  /\ cleared = [t \in Conns |-> FALSE]
  /\ request = [t \in Senders |-> 0]
  /\ announced = [t \in Conns |-> {}]

Unlocked == players_lock = NoConn

(* The handler returns.                                                    *)
Handled(t) ==
  /\ on_message(t)
  /\ early' = [early EXCEPT ![t] = Nothing]
  /\ UNCHANGED <<cleared, request>>

First(S, x) == x \in S /\ \A y \in S : x <= y

-----------------------------------------------------------------------------
(* A client announces a port once, changes and removes what it has         *)
(* announced, and sends covers at any time.                                *)
Known(t, port) == \E a \in announced[t] : a.port = port

Announce(t, port, texts) ==
  announced' = [announced EXCEPT ![t] =
    {a \in @ : a.port # port} \cup {[port |-> port, text |-> x] : x \in texts}]

(* The handler of a message is about to start its update cycle.            *)
Starts(t) == pc[t] = "message" /\ early[t] = Nothing /\ Unlocked

(* Mutant of IsFor: port ids are taken for unique.                          *)
IsForPort(x, t, port) == x # Nothing /\ x.port = port

(* platform_data->port_id == id && platform_data->client == client         *)
IsFor(x, t, port) == x # Nothing /\ x.port = port /\ x.client = client[t]

Matching(t, port) == {p \in PlayerIds : IsFor(players[p], t, port)}

(* Mutant of Waiting: any cover of the client will do.                      *)
WaitingAny(t, port) ==
  {b \in Buffers : cover_buffers[b] # Nothing /\ cover_buffers[b].client = client[t]}

Waiting(t, port) == {b \in Buffers : IsFor(cover_buffers[b], t, port)}

-----------------------------------------------------------------------------
(* WNP_PLAYER_ADDED.  The first cover that waits for the port goes to the  *)
(* new player.                                                              *)
Added(t, port, text) ==
  /\ Starts(t) /\ ~Known(t, port)
  /\ \E p \in PlayerIds, path \in CoverPath :
       /\ First({q \in PlayerIds : players[q] = Nothing}, p)
       /\ LET c == cover_buffers[CHOOSE b \in Buffers : First(Waiting(t, port), b)]
              cover == IF Waiting(t, port) # {} /\ path
                       THEN [conn |-> c.conn, port |-> c.port] ELSE Nothing
          IN players' = [players EXCEPT ![p] =
               [conn |-> t, client |-> client[t], port |-> port, text |-> text,
                cover |-> cover]]
  /\ cover_buffers' = [b \in Buffers |-> IF First(Waiting(t, port), b) THEN Nothing
                                         ELSE cover_buffers[b]]
  /\ Announce(t, port, {text})
  /\ Handled(t)
  /\ UNCHANGED players_lock

(* No slot is free: the handler returns without ending the cycle.          *)
AddedInVain(t, port, text) ==
  /\ Starts(t) /\ ~Known(t, port)
  /\ \A p \in PlayerIds : players[p] # Nothing
  /\ players_lock' = t
  /\ Announce(t, port, {text})
  /\ Handled(t)
  /\ UNCHANGED <<players, cover_buffers>>

Updated(t, port, text) ==
  /\ Starts(t) /\ Known(t, port)
  /\ players' = [p \in PlayerIds |-> IF p \in Matching(t, port)
                                     THEN [players[p] EXCEPT !.text = text]
                                     ELSE players[p]]
  /\ Announce(t, port, {text})
  /\ Handled(t)
  /\ UNCHANGED <<players_lock, cover_buffers>>

Removed(t, port) ==
  /\ Starts(t) /\ Known(t, port)
  /\ players' = [p \in PlayerIds |-> IF p \in Matching(t, port) THEN Nothing ELSE players[p]]
  /\ Announce(t, port, {})
  /\ Handled(t)
  /\ UNCHANGED <<players_lock, cover_buffers>>

(* A binary message: a cover for a player there is; without a path for the *)
(* file, the handler returns without ending the cycle.                      *)
Cover(t, port) ==
  /\ Starts(t)
  /\ \E p \in Matching(t, port), path \in CoverPath :
       /\ First(Matching(t, port), p)
       /\ IF path
          THEN /\ players' = [players EXCEPT ![p].cover = [conn |-> t, port |-> port]]
               /\ UNCHANGED players_lock
          ELSE /\ players_lock' = t
               /\ UNCHANGED players
  /\ Handled(t)
  /\ UNCHANGED <<cover_buffers, announced>>

(* No such player: the cycle is ended, and the cover kept under the        *)
(* buffers' lock in a step of its own.                                      *)
CoverTooEarly(t, port) ==
  /\ Starts(t)
  /\ Matching(t, port) = {}
  /\ early' = [early EXCEPT ![t] = port]
  /\ UNCHANGED <<vars, players, players_lock, cover_buffers, cleared, request, announced>>

(* Mutant of KeepCover: the port is not stored.                             *)
KeepCoverOnly(t) ==
  /\ early[t] # Nothing
  /\ LET free == {b \in Buffers : cover_buffers[b] = Nothing}
         kept == [conn |-> t, client |-> client[t], port |-> Nothing]
     IN cover_buffers' = [b \in Buffers |-> IF First(free, b) THEN kept ELSE cover_buffers[b]]
  /\ Handled(t)
  /\ UNCHANGED <<players, players_lock, announced>>

KeepCover(t) ==
  /\ early[t] # Nothing
  /\ LET free == {b \in Buffers : cover_buffers[b] = Nothing}
         kept == [conn |-> t, client |-> client[t], port |-> early[t]]
     IN cover_buffers' = [b \in Buffers |-> IF First(free, b) THEN kept ELSE cover_buffers[b]]
  /\ Handled(t)
  /\ UNCHANGED <<players, players_lock, announced>>

-----------------------------------------------------------------------------
(* Mutant of RemovePlayers: the cycle does not take players_lock.           *)
RemoveUnlocked(t) ==
  /\ pc[t] = "on_close" /\ ~cleared[t]
  /\ players' = [p \in PlayerIds |->
       IF players[p] # Nothing /\ players[p].client = client[t] THEN Nothing ELSE players[p]]
  /\ announced' = [announced EXCEPT ![t] = {}]
  /\ cleared' = [cleared EXCEPT ![t] = TRUE]
  /\ UNCHANGED <<vars, players_lock, cover_buffers, early, request>>

(* _web_ws_on_close: the client's players in one cycle, then its covers.   *)
RemovePlayers(t) ==
  /\ pc[t] = "on_close" /\ ~cleared[t]
  /\ Unlocked
  /\ players' = [p \in PlayerIds |->
       IF players[p] # Nothing /\ players[p].client = client[t] THEN Nothing ELSE players[p]]
  /\ announced' = [announced EXCEPT ![t] = {}]
  /\ cleared' = [cleared EXCEPT ![t] = TRUE]
  /\ UNCHANGED <<vars, players_lock, cover_buffers, early, request>>

(* Mutant of DropCovers: the covers stay.                                   *)
KeepCovers(t) ==
  /\ cleared[t]
  /\ on_close(t)
  /\ cleared' = [cleared EXCEPT ![t] = FALSE]
  /\ UNCHANGED <<players, players_lock, cover_buffers, early, request, announced>>

DropCovers(t) ==
  /\ cleared[t]
  /\ on_close(t)
  /\ cover_buffers' = [b \in Buffers |->
       IF cover_buffers[b] # Nothing /\ cover_buffers[b].client = client[t]
       THEN Nothing ELSE cover_buffers[b]]
  /\ cleared' = [cleared EXCEPT ![t] = FALSE]
  /\ UNCHANGED <<players, players_lock, early, request, announced>>

(* The messages that change nothing here: malformed ones, event results.   *)
Ignored(t) ==
  /\ pc[t] = "message" /\ early[t] = Nothing
  /\ Handled(t)
  /\ UNCHANGED <<players, players_lock, cover_buffers, announced>>

Message(t) ==
  \/ \E port \in Ports :
       \/ \E text \in Texts : \/ Added(t, port, text) \/ AddedInVain(t, port, text)
                             \/ Updated(t, port, text)
       \/ Removed(t, port) \/ Cover(t, port) \/ CoverTooEarly(t, port)
  \/ KeepCover(t) \/ Ignored(t)

Handler(t) == Message(t) \/ RemovePlayers(t) \/ DropCovers(t)

-----------------------------------------------------------------------------
(* A wnp_try_... call on a web player: __wnp_platform_web_event sends it   *)
(* to the player's client while wnp.c holds players_lock.                   *)
Event(t) ==
  /\ Unlocked
  /\ \E p \in PlayerIds :
       /\ players[p] # Nothing
       /\ SendTo(t, players[p].client)
       /\ request' = [request EXCEPT ![t] = p]
  /\ players_lock' = t
  /\ UNCHANGED <<players, cover_buffers, early, cleared, announced>>

(* Mutant of EventSent: the lock is kept.                                   *)
EventSentLocked(t) ==
  /\ pc[t] = "new"
  /\ players_lock = t
  /\ request' = [request EXCEPT ![t] = 0]
  /\ UNCHANGED <<vars, players, players_lock, cover_buffers, early, cleared, announced>>

EventSent(t) ==
  /\ pc[t] = "new"
  /\ players_lock = t
  /\ players_lock' = NoConn
  /\ request' = [request EXCEPT ![t] = 0]
  /\ UNCHANGED <<vars, players, cover_buffers, early, cleared, announced>>

(* __wnp_platform_web_uninit: the pointers are cleared after cws_stop.     *)
Uninit ==
  /\ CloseServer
  /\ cover_buffers' = [b \in Buffers |-> Nothing]
  /\ UNCHANGED <<players, players_lock, early, cleared, request, announced>>

Connection(t) == Handshake(t) \/ Receive(t) \/ Finish(t) \/ cws_send(t)

Stopping == StopClient \/ StopClose \/ SetExitFlag \/ TermMutex

WebNext ==
  \/ \E t \in Conns : Handler(t)
  \/ \E t \in Senders : Event(t) \/ EventSent(t)
  \/ Uninit
  \/ /\ \/ server_thread \/ Stop \/ Stopping
        \/ \E t \in Conns : Connection(t)
        \/ \E t \in Senders : cws_send(t)
     /\ UNCHANGED web

WebSpec == WebInit /\ [][WebNext]_web_vars

(* Threads in the library are scheduled, a mutex that is released again    *)
(* and again is granted in the end, and a send ends.  Nothing is assumed   *)
(* of connections, frames, requests or the end of the server.              *)
Fairness ==
  /\ WF_web_vars(ServerStep /\ UNCHANGED web)
  /\ WF_web_vars(Stopping /\ UNCHANGED web) /\ WF_web_vars(Uninit)
  /\ \A t \in Conns : /\ SF_web_vars((Finish(t) \/ cws_send(t)) /\ UNCHANGED web)
                       /\ SF_web_vars(Handler(t))
  /\ \A t \in Senders : /\ SF_web_vars(cws_send(t) /\ UNCHANGED web)
                         /\ WF_web_vars(EventSent(t))

FairWebSpec == WebSpec /\ Fairness

-----------------------------------------------------------------------------
WebTypeOK ==
  /\ TypeOK
  /\ players \in [PlayerIds -> Player \cup {Nothing}]
  /\ players_lock \in Threads \cup {NoConn}
  /\ cover_buffers \in [Buffers -> Buffer \cup {Nothing}]
  /\ early \in [Conns -> Ports \cup {Nothing}]
  /\ cleared \in [Conns -> BOOLEAN]
  /\ request \in [Senders -> PlayerIds]
  /\ announced \in [Conns -> SUBSET [port : Ports, text : Texts]]

Kept == {players[p] : p \in PlayerIds} \cup {cover_buffers[b] : b \in Buffers}

(* web.c:159-180 before cws.c:734: what a connection left behind is gone   *)
(* before its slot can be given to the next one.                           *)
NothingOutlives ==
  Running => \A x \in Kept \ {Nothing} : fd[x.client] = x.conn

(* A handler has returned without ending its cycle: no other cycle starts. *)
CycleLeftOpen == players_lock \in Conns

(* web.c:251-332: between two messages the table holds exactly what the    *)
(* client announced, whatever the other clients did meanwhile, their going  *)
(* and coming included, until a cycle is left open (web.c:237-242, 271-274).*)
TableFollowsClients ==
  \A t \in Conns : Running /\ ~CycleLeftOpen /\ Serving(t) /\ pc[t] \notin {"message", "on_close"} =>
    {[port |-> x.port, text |-> x.text] :
       x \in {y \in {players[p] : p \in PlayerIds} \ {Nothing} : y.conn = t}} = announced[t]

(* web.c:206-232, 276-291: a player shows only an image that its own       *)
(* client sent for it, early or late.                                      *)
CoverIsOwn ==
  Running => \A p \in PlayerIds :
    players[p] # Nothing /\ players[p].cover # Nothing =>
      players[p].cover = [conn |-> players[p].conn, port |-> players[p].port]

(* web.c:407-412, wnp.c:432-477: a request goes to the connection that     *)
(* announced the player, not to one that has taken over its slot.          *)
RequestReachesOwner ==
  Running => \A t \in Senders :
    pc[t] \in {"check", "lock", "send"} =>
      /\ players[request[t]] # Nothing
      /\ fd[client[t]] = players[request[t]].conn

(* web.c:159-180, cws.c:703-712: a client that goes is cleaned up and its  *)
(* slot given back, unless a cycle is left open.                           *)
ClosingEnds == \A t \in Conns : pc[t] = "on_close" ~> pc[t] = "done" \/ CycleLeftOpen

(* cws.c:726-728, 809-812: the server thread ends after cws_stop.              *)
ServerEnds == exit_flag = 1 ~> pc[ServerThread] = "done"
=============================================================================
