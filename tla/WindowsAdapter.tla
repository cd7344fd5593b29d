---------------------------- MODULE WindowsAdapter ----------------------------
(***************************************************************************)
(* The Windows adapter (windows.cpp): one thread polls the media sessions *)
(* of the system and makes its players follow them.  Every poll is an      *)
(* update cycle, which holds players_lock from its start to its end; the  *)
(* system changes its sessions whenever it likes.                          *)
(*                                                                         *)
(* Sessions are told apart by their application id, which several sessions *)
(* may share (windows.cpp:142-160).  What is shown of a session - title,  *)
(* state, duration - is one value.  The position, which a second cycle of *)
(* the thread recomputes from the clock, is left out.                      *)
(***************************************************************************)
EXTENDS Integers, FiniteSets, FiniteSetsExt

CONSTANTS
  MaxPlayers,
  Sessions,       \* the sessions that may exist
  Apps,           \* application ids
  Texts,          \* what a session may show
  NoText          \* what WNP_DEFAULT_PLAYER shows

(* What is assumed of the constants; MCThreads assumes it of its own.    *)
WindowsAssumption == MaxPlayers \in Nat \ {0} /\ NoText \notin Texts

VARIABLES
  app,            \* SourceAppUserModelId of each session, in lower case
  open,           \* the sessions the system has
  text,           \* what they show
  players,        \* the table, as far as this adapter can see its own players
  taken,          \* the slots other adapters' players are in
  pc,             \* the polling thread
  odd,            \* i % 2 in the thread's loop
  snapshot,       \* the slots of `players`, the array the cycle started with
  listed,         \* the sessions GetSessions returned that the loop has not reached
  todo            \* the slots of the snapshot the second loop has not reached

world  == <<app, open, text, taken>>
thread == <<pc, odd, snapshot, listed, todo>>
vars   == <<world, players, thread>>

Slots == 0..(MaxPlayers - 1)
Free  == [app |-> "none"]
Own   == {s \in Slots : players[s] # Free}
InUse == Own \cup taken

Init ==
  /\ app \in [Sessions -> Apps]
  /\ open = {}
  /\ text \in [Sessions -> Texts]
  /\ players = [s \in Slots |-> Free]
  /\ taken = {}
  /\ pc = "wait"
  /\ odd = FALSE
  /\ snapshot = {} /\ listed = {} /\ todo = {}

LockFree == pc \in {"wait", "start", "position"}

-----------------------------------------------------------------------------
(* windows.cpp:427-431 and 447: every second round looks at the sessions.   *)
Wake ==
  /\ pc = "wait"
  /\ odd' = ~odd
  /\ pc' = IF odd' THEN "position" ELSE "start"
  /\ UNCHANGED <<world, players, snapshot, listed, todo>>

(* Mutant of StartCycle: a player whose session is gone is never marked.    *)
StartUnmarked ==
  /\ pc = "start"
  /\ snapshot' = Own
  /\ pc' = "list"
  /\ UNCHANGED <<world, players, odd, listed, todo>>

StartCycle ==
  /\ pc = "start"
  /\ snapshot' = Own
  /\ players' = [s \in Slots |-> IF s \in Own THEN [players[s] EXCEPT !.should_remove = TRUE]
                                 ELSE Free]
  /\ pc' = "list"
  /\ UNCHANGED <<world, odd, listed, todo>>

GetSessions ==
  /\ pc = "list"
  /\ listed' = open
  /\ pc' = "match"
  /\ UNCHANGED <<world, players, odd, snapshot, todo>>

(* windows.cpp:360: the cycle ends with its players still marked.          *)
NoSessions ==
  /\ pc = "list"
  /\ snapshot' = {}
  /\ pc' = "position"
  /\ UNCHANGED <<world, players, odd, listed, todo>>

(* _windows_get_player_from_session_id looks for them in the snapshot.     *)
WithAppId(session) == {s \in snapshot : players[s].app = app[session]}

NewPlayer(session) ==
  [app |-> app[session], session |-> session, text |-> NoText, should_remove |-> FALSE]

Known(session) ==
  /\ WithAppId(session) # {}
  /\ LET s == Min(WithAppId(session))
     IN players' = [players EXCEPT ![s].session = session, ![s].should_remove = FALSE]

Added(session) ==
  /\ WithAppId(session) = {}
  /\ InUse # Slots
  /\ LET s == Min(Slots \ InUse)
     IN players' = [players EXCEPT ![s] = NewPlayer(session)]

NoRoom(session) ==
  /\ WithAppId(session) = {}
  /\ InUse = Slots
  /\ UNCHANGED players

(* The body of the loop, windows.cpp:364-402.                              *)
Match ==
  /\ pc = "match"
  /\ \E session \in listed :
       /\ Known(session) \/ Added(session) \/ NoRoom(session)
       /\ listed' = listed \ {session}
  /\ UNCHANGED <<world, pc, odd, snapshot, todo>>

(* Mutant of Copied: the loop goes over the whole array.                     *)
CopiedAll == Slots

Copied == snapshot

Matched ==
  /\ pc = "match" /\ listed = {}
  /\ todo' = Copied
  /\ pc' = "refresh"
  /\ UNCHANGED <<world, players, odd, snapshot, listed>>

(* A session that is gone shows what it showed last.                       *)
Refresh(s) ==
  /\ pc = "refresh" /\ todo # {} /\ s = Min(todo)
  /\ players' = IF players[s].should_remove THEN [players EXCEPT ![s] = Free]
                ELSE [players EXCEPT ![s].text = text[players[s].session]]
  /\ todo' = todo \ {s}
  /\ UNCHANGED <<world, pc, odd, snapshot, listed>>

(* windows.cpp:291: the properties cannot be read.                         *)
RefreshFails(s) ==
  /\ pc = "refresh" /\ todo # {} /\ s = Min(todo)
  /\ ~players[s].should_remove
  /\ todo' = todo \ {s}
  /\ UNCHANGED <<world, players, pc, odd, snapshot, listed>>

EndCycle ==
  /\ pc = "refresh" /\ todo = {}
  /\ snapshot' = {}
  /\ pc' = "position"
  /\ UNCHANGED <<world, players, odd, listed, todo>>

(* windows.cpp:432-447: the cycle of the positions.                        *)
Positions ==
  /\ pc = "position"
  /\ pc' = "wait"
  /\ UNCHANGED <<world, players, odd, snapshot, listed, todo>>

-----------------------------------------------------------------------------
(* __wnp_platform_windows_event, under players_lock: the session is told   *)
(* what to show, and the player shows it if the session agrees.            *)
Event(s, t) ==
  /\ LockFree
  /\ s \in Own
  /\ players[s].session \in open
  /\ text' = [text EXCEPT ![players[s].session] = t]
  /\ players' = [players EXCEPT ![s].text = t]
  /\ UNCHANGED <<app, open, taken, thread>>

(* The system.                                                             *)
Open(session) ==
  /\ session \notin open
  /\ open' = open \cup {session}
  /\ UNCHANGED <<app, text, taken, players, thread>>

Close(session) ==
  /\ session \in open
  /\ open' = open \ {session}
  /\ UNCHANGED <<app, text, taken, players, thread>>

Show(session, t) ==
  /\ session \in open
  /\ text[session] # t
  /\ text' = [text EXCEPT ![session] = t]
  /\ UNCHANGED <<app, open, taken, players, thread>>

(* The web adapter adds or removes a player of its own.                    *)
OtherAdapter(s) ==
  /\ LockFree
  /\ s \notin Own
  /\ taken' = IF s \in taken THEN taken \ {s} ELSE taken \cup {s}
  /\ UNCHANGED <<app, open, text, players, thread>>

Poll == \/ Wake \/ StartCycle \/ GetSessions \/ NoSessions \/ Match \/ Matched
        \/ (\E s \in Slots : Refresh(s) \/ RefreshFails(s)) \/ EndCycle \/ Positions

Next ==
  \/ Poll
  \/ \E session \in Sessions : Open(session) \/ Close(session)
                               \/ \E t \in Texts : Show(session, t)
  \/ \E s \in Slots : OtherAdapter(s) \/ \E t \in Texts : Event(s, t)

Spec == Init /\ [][Next]_vars

(* The thread runs; the list and a session's properties cannot fail to be  *)
(* read every time.                                                         *)
FairSpec ==
  Spec /\ WF_vars(Poll) /\ SF_vars(GetSessions) /\ \A s \in Slots : SF_vars(Refresh(s))

-----------------------------------------------------------------------------
Players == [app : Apps, session : Sessions, text : Texts \cup {NoText},
            should_remove : BOOLEAN]

(* The types of the adapter's state.                                       *)
TypeOK ==
  /\ app \in [Sessions -> Apps]
  /\ open \subseteq Sessions
  /\ text \in [Sessions -> Texts]
  /\ players \in [Slots -> Players \cup {Free}]
  /\ taken \subseteq Slots /\ taken \cap Own = {}
  /\ pc \in {"wait", "start", "list", "match", "refresh", "position"}
  /\ odd \in BOOLEAN
  /\ listed \subseteq Sessions
  /\ snapshot \subseteq Slots /\ todo \subseteq snapshot

(* windows.cpp:421-447: once the sessions stay as they are, and if there is  *)
(* room, each application that has one gets a player - one - that shows what *)
(* one of its sessions shows, and the others go: a full table, a failed      *)
(* listing or a failed reading is only a delay.                              *)
AppsOf(S) == {app[session] : session \in S}
Shown     == {players[s].app : s \in Own}
Room      == Cardinality(taken) + Cardinality(AppsOf(open)) <= MaxPlayers

Follows ==
  Room => /\ Shown = AppsOf(open)
          /\ \A s \in Own : \E session \in open :
               app[session] = players[s].app /\ text[session] = players[s].text
          /\ \A s, r \in Own : s # r => players[s].app # players[r].app

Converges == <>[][FALSE]_world => <>[]Follows
=============================================================================
