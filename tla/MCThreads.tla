------------------------------ MODULE MCThreads ------------------------------
(* The threads the library starts: the coming and going of all of them,     *)
(* extended, and the one that polls the Windows sessions, an instance on    *)
(* variables of its own.  The initial state chooses one of the two modules, *)
(* and only its variables change.                                           *)
EXTENDS Lifecycle

CONSTANTS MaxPlayers, Sessions, Apps, Texts, NoText

VARIABLES subject, app_of, open, text, players, taken, poll, odd, snapshot, listed, todo

ofWindows == <<app_of, open, text, players, taken, poll, odd, snapshot, listed, todo>>

Windows == INSTANCE WindowsAdapter WITH app <- app_of, pc <- poll

ASSUME MCThreadsAssumption == Windows!WindowsAssumption /\ LifecycleAssumption

Off == "off"

WindowsOff ==
  /\ app_of = Off /\ open = Off /\ text = Off /\ players = Off /\ taken = Off
  /\ poll = Off /\ odd = Off /\ snapshot = Off /\ listed = Off /\ todo = Off

MCInit ==
  \/ subject = "windows" /\ Windows!Init /\ Init /\ native = "windows"
  \/ subject = "library" /\ Init /\ WindowsOff

OnWindows == subject = "windows" /\ UNCHANGED <<subject, vars>>
InLibrary == subject = "library" /\ UNCHANGED <<subject, ofWindows>>

WindowsNext ==
  \/ OnWindows /\ Windows!Wake
  \/ OnWindows /\ Windows!StartCycle
  \/ OnWindows /\ Windows!GetSessions
  \/ OnWindows /\ Windows!NoSessions
  \/ OnWindows /\ Windows!Match
  \/ OnWindows /\ Windows!Matched
  \/ OnWindows /\ Windows!EndCycle
  \/ OnWindows /\ Windows!Positions
  \/ \E s \in Windows!Slots : OnWindows /\ Windows!Refresh(s)
  \/ \E s \in Windows!Slots : OnWindows /\ Windows!RefreshFails(s)
  \/ \E session \in Sessions : OnWindows /\ Windows!Open(session)
  \/ \E session \in Sessions : OnWindows /\ Windows!Close(session)
  \/ \E session \in Sessions, t \in Texts : OnWindows /\ Windows!Show(session, t)
  \/ \E s \in Windows!Slots : OnWindows /\ Windows!OtherAdapter(s)
  \/ \E s \in Windows!Slots, t \in Texts : OnWindows /\ Windows!Event(s, t)

LibraryNext ==
  \/ InLibrary /\ wnp_init
  \/ InLibrary /\ wnp_uninit
  \/ InLibrary /\ web_init
  \/ InLibrary /\ web_buffers
  \/ InLibrary /\ native_init
  \/ InLibrary /\ web_uninit
  \/ InLibrary /\ cws_stop
  \/ InLibrary /\ native_uninit
  \/ InLibrary /\ join
  \/ InLibrary /\ finish
  \/ InLibrary /\ native_runs
  \/ InLibrary /\ native_ends
  \/ InLibrary /\ crashed
  \/ \E s \in Servers, c \in Clients : InLibrary /\ accept(s, c)
  \/ \E s \in Servers : InLibrary /\ server_ends(s)
  \/ \E c \in Clients : InLibrary /\ peer_closes(c)
  \/ \E c \in Clients : InLibrary /\ client_ends(c)
  \/ \E t \in Clients \cup {"native"} : InLibrary /\ enter(t)
  \/ \E t \in Clients \cup {"native"} : InLibrary /\ leave(t)

MCNext == WindowsNext \/ LibraryNext

all == <<subject, vars, ofWindows>>

(* The modules' own fairness.                                              *)
MCSpec ==
  /\ MCInit /\ [][MCNext]_all
  /\ WF_all(OnWindows /\ Windows!Poll) /\ SF_all(OnWindows /\ Windows!GetSessions)
  /\ \A s \in Windows!Slots : SF_all(OnWindows /\ Windows!Refresh(s))
  /\ WF_all(InLibrary /\ Call) /\ WF_all(InLibrary /\ native_runs)
  /\ WF_all(InLibrary /\ leave("native")) /\ SF_all(InLibrary /\ native_ends)

-----------------------------------------------------------------------------
(* The modules' properties, each of its own states; FailedInitIsUndone,      *)
(* LocksHold and CallsReturn are Lifecycle's, and hold while nothing calls.  *)
TypesOK ==
  /\ TypeOK
  /\ subject = "windows" => Windows!TypeOK

Converges ==
  <>[][FALSE]_(Windows!world) => <>[](subject = "windows" => Windows!Follows)
=============================================================================
