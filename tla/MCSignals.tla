------------------------------ MODULE MCSignals ------------------------------
(* The two adapters that are driven by signals of their desktop: the Linux  *)
(* adapter, extended, and the Darwin adapter, an instance on variables of   *)
(* its own.  The initial state chooses one, and only its variables change.  *)
EXTENDS LinuxAdapter, TLC

CONSTANTS DarwinPlayers, Calls

VARIABLES subject, table, media, notes, call, isPlaying, old, player_id, alone, clean

ofDarwin == <<table, media, notes, call, isPlaying, old, player_id, alone, clean>>

Darwin == INSTANCE DarwinAdapter WITH MaxPlayers <- DarwinPlayers, players <- table

ASSUME MCSignalsAssumption == LinuxAssumption /\ Darwin!DarwinAssumption

Symmetry == Permutations(Names) \cup Permutations(Texts) \cup Permutations(Calls)

Off == "off"

LinuxOff ==
  /\ owned = {} /\ text = Off /\ taken = {} /\ watching = FALSE
  /\ subs = [n \in Names |-> 0] /\ signals = <<>>
  /\ players = [s \in Slots |-> Free]
  /\ pc = Off /\ todo = {} /\ cur = -1 /\ unwatched = {} /\ stale = {}

DarwinOff ==
  /\ table = Off /\ media = Off /\ notes = Off /\ call = Off /\ isPlaying = Off
  /\ old = Off /\ player_id = Off /\ alone = Off /\ clean = Off

(* Darwin: a player of the web adapter came first, and one may come after.  *)
MCInit ==
  \/ subject = "linux" /\ Init /\ DarwinOff
  \/ subject = "darwin" /\ Darwin!Init /\ player_id = 1 /\ LinuxOff

OnLinux  == subject = "linux" /\ UNCHANGED <<subject, ofDarwin>>
OnDarwin == subject = "darwin" /\ UNCHANGED <<subject, vars>>

LinuxNext ==
  \/ OnLinux /\ ListNames
  \/ OnLinux /\ AddListed
  \/ OnLinux /\ GetAll
  \/ OnLinux /\ Subscribe
  \/ OnLinux /\ Watch
  \/ OnLinux /\ on_name_owner_appeared
  \/ OnLinux /\ on_name_owner_vanished
  \/ OnLinux /\ on_properties_changed
  \/ OnLinux /\ Drop
  \/ \E n \in Names : OnLinux /\ Vanish(n)
  \/ \E n \in Names, t \in Texts : OnLinux /\ Appear(n, t)
  \/ \E n \in Names, t \in Texts : OnLinux /\ Replace(n, t)
  \/ \E n \in Names, t \in Texts : OnLinux /\ Play(n, t)
  \/ \E s \in Slots : OnLinux /\ OtherAdapter(s)
  \/ \E s \in Slots, t \in Texts : OnLinux /\ Event(s, t)

DarwinNext ==
  \/ \E c \in Calls : OnDarwin /\ Darwin!InfoDidChange(c)
  \/ \E c \in Calls : OnDarwin /\ Darwin!IsPlayingDidChange(c)
  \/ \E c \in Calls : OnDarwin /\ Darwin!AnswerPlaying(c)
  \/ \E c \in Calls : OnDarwin /\ Darwin!AnswerInfo(c)
  \/ \E c \in Calls : OnDarwin /\ Darwin!PlayingBlock(c)
  \/ \E c \in Calls : OnDarwin /\ Darwin!InfoBlock(c)
  \/ \E c \in Calls : OnDarwin /\ Darwin!Update(c)
  \/ \E playing, obeys \in BOOLEAN : OnDarwin /\ Darwin!Event(playing, obeys)
  \/ \E t \in Texts : OnDarwin /\ Darwin!Play(t)
  \/ OnDarwin /\ Darwin!Toggle
  \/ \E s \in Darwin!Slots : OnDarwin /\ Darwin!OtherAdapter(s)

MCNext == LinuxNext \/ DarwinNext

MCSpec == MCInit /\ [][MCNext]_<<subject, vars, ofDarwin>>

-----------------------------------------------------------------------------
(* The modules' properties, each of its own states; OneSubscriptionEach and *)
(* FollowsBus are LinuxAdapter's, and hold where it is off.                 *)
TypesOK ==
  /\ subject = "linux" => TypeOK
  /\ subject = "darwin" => Darwin!TypeOK

ShowsMedia      == subject = "darwin" => Darwin!ShowsMedia
OthersUntouched == [][subject = "darwin" => Darwin!OnlyItsOwn]_<<subject, vars, ofDarwin>>
=============================================================================
