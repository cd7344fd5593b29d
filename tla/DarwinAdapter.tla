----------------------------- MODULE DarwinAdapter -----------------------------
(***************************************************************************)
(* The Darwin adapter (darwin.m): one player, whose media the system       *)
(* announces.  Each notification asks the system two things; the answers   *)
(* are blocks on a concurrent queue and run in any order, on any thread.   *)
(* The block with the media's information compares it with what was        *)
(* written last and then, in an update cycle, writes it to the player.     *)
(*                                                                         *)
(* Title, artist, album, duration and position are one value.  The name of *)
(* the application, which infoDidChange writes to is_web_browser as        *)
(* isPlayingDidChange writes isPlaying, is left out, and so are the times. *)
(***************************************************************************)
EXTENDS Integers, FiniteSets

CONSTANTS
  MaxPlayers,
  Calls,          \* calls of getNowPlayingInfo at a time; not bounded in the code
  Texts,          \* what the media may say
  NoText          \* what WNP_DEFAULT_PLAYER says, and old_title = "no"

(* What is assumed of the constants; MCSignals assumes it of its own.    *)
DarwinAssumption == MaxPlayers \in Nat \ {0} /\ NoText \notin Texts

VARIABLES
  media,          \* the system: what is playing, and whether it is
  notes,          \* the notifications it has posted
  call,           \* each call's two answers: asked, answered, done
  isPlaying,      \* self.isPlaying
  old,            \* self.old_title, self.old_is_playing
  player_id,
  players,        \* the table; the other entries are the web adapter's
  alone,          \* the call no other has overlapped (not in the code)
  clean           \* nothing was lost since a call alone (not in the code)

object == <<isPlaying, old, player_id>>
vars   == <<media, notes, call, object, players, alone, clean>>

Slots == 0..(MaxPlayers - 1)
Free  == [own |-> "nobody"]
Web   == [own |-> "web"]
Says(text, playing) == [text |-> text, playing |-> playing]
Mine(text, playing) == [own |-> "darwin", shown |-> Says(text, playing)]
InUse == {s \in Slots : players[s] # Free}

Answer(a) == [at |-> "answered", says |-> a]
Noted(a)  == [at |-> "noted", says |-> a]
Asked == [at |-> "asked"]
Done  == [at |-> "done"]
PlayingAnswers == {Asked, Done} \cup {Answer(a) : a \in BOOLEAN}
InfoAnswers    == {Asked, Done} \cup {Answer(a) : a \in Texts} \cup {Noted(a) : a \in Texts}
InFlight == {c \in Calls : call[c].playing # Done \/ call[c].info # Done}

(* The call of commonInit is in flight; its own question (108-110) is the   *)
(* one getNowPlayingInfo asks again.                                        *)
Init ==
  /\ media \in [text : Texts, playing : BOOLEAN]
  /\ notes = {}
  /\ \E c \in Calls :
       /\ alone = {c}
       /\ call = [d \in Calls |-> IF d = c THEN [playing |-> Asked, info |-> Asked]
                                  ELSE [playing |-> Done, info |-> Done]]
  /\ isPlaying = FALSE
  /\ old = Says(NoText, FALSE)
  /\ player_id \in Slots
  /\ players = [s \in Slots |-> IF s < player_id THEN Web
                                ELSE IF s = player_id THEN Mine(NoText, FALSE) ELSE Free]
  /\ clean = FALSE

-----------------------------------------------------------------------------
(* A second call in flight may overtake the first.                         *)
GetNowPlayingInfo(c) ==
  /\ c \notin InFlight
  /\ call' = [call EXCEPT ![c] = [playing |-> Asked, info |-> Asked]]
  /\ alone' = IF InFlight = {} THEN {c} ELSE {}
  /\ clean' = (clean /\ InFlight = {})

InfoDidChange(c) ==
  /\ "info" \in notes
  /\ notes' = notes \ {"info"}
  /\ GetNowPlayingInfo(c)
  /\ UNCHANGED <<media, object, players>>

IsPlayingDidChange(c) ==
  /\ "playing" \in notes
  /\ notes' = notes \ {"playing"}
  /\ isPlaying' = media.playing
  /\ GetNowPlayingInfo(c)
  /\ UNCHANGED <<media, old, player_id, players>>

(* The system answers; the answer waits on the queue.                      *)
AnswerPlaying(c) ==
  /\ call[c].playing = Asked
  /\ call' = [call EXCEPT ![c].playing = Answer(media.playing)]
  /\ UNCHANGED <<media, notes, object, players, alone, clean>>

AnswerInfo(c) ==
  /\ call[c].info = Asked
  /\ call' = [call EXCEPT ![c].info = Answer(media.text)]
  /\ UNCHANGED <<media, notes, object, players, alone, clean>>

(* darwin.m:119-121.                                                       *)
PlayingBlock(c) ==
  /\ call[c].playing.at = "answered"
  /\ isPlaying' = call[c].playing.says
  /\ call' = [call EXCEPT ![c].playing = Done]
  /\ IF isPlaying' = isPlaying \/ call[c].info.at \in {"asked", "answered"}
       THEN UNCHANGED <<alone, clean>>
       ELSE alone' = {} /\ clean' = FALSE
  /\ UNCHANGED <<media, notes, old, player_id, players>>

(* Mutant of Same: the title alone is compared.                             *)
SameTitle(text) == old.text = text

Same(text) == old = Says(text, isPlaying)

(* darwin.m:125-133: the block gives up, or takes note and goes on.         *)
InfoBlock(c) ==
  /\ call[c].info.at = "answered"
  /\ LET text == call[c].info.says
     IN IF Same(text)
          THEN call' = [call EXCEPT ![c].info = Done] /\ UNCHANGED old
          ELSE /\ call' = [call EXCEPT ![c].info = Noted(text)]
               /\ old' = Says(text, isPlaying)
  /\ UNCHANGED <<media, notes, isPlaying, player_id, players, alone, clean>>

(* What players[self.player_id] is, once the used slots are moved together.  *)
AtIndex == {s \in InUse : Cardinality({r \in InUse : r < s}) = player_id}

(* Beyond the copied players the array holds what the stack held: often the *)
(* player itself, as an earlier cycle saw it.                               *)
Copies == IF AtIndex # {} THEN AtIndex ELSE Slots

(* Mutant of Found: the player at the index is taken for the adapter's own. *)
FoundAny(s) == TRUE

Found(s) == s = player_id

(* darwin.m:135-171.                                                       *)
Update(c) ==
  /\ call[c].info.at = "noted"
  /\ \E s \in Copies :
       /\ players' = IF Found(s) /\ s \in InUse
                       THEN [players EXCEPT ![s] = Mine(call[c].info.says, isPlaying)]
                       ELSE players
       /\ clean' = (Found(s) /\ (clean \/ c \in alone))
  /\ call' = [call EXCEPT ![c].info = Done]
  /\ UNCHANGED <<media, notes, object, alone>>

-----------------------------------------------------------------------------
(* darwin.m:292-305, the call of wnp.c under the lock: the player shows the *)
(* state asked for; the system may not obey, and announces nothing then.    *)
Event(playing, obeys) ==
  /\ players' = [players EXCEPT ![player_id].shown.playing = playing]
  /\ IF obeys /\ media.playing # playing
       THEN media' = [media EXCEPT !.playing = playing] /\ notes' = notes \cup {"playing"}
       ELSE UNCHANGED <<media, notes>>
  /\ clean' = (clean /\ playing = old.playing)
  /\ UNCHANGED <<call, object, alone>>

(* The system plays something else, or pauses.                             *)
Play(text) ==
  /\ media.text # text
  /\ media' = [media EXCEPT !.text = text]
  /\ notes' = notes \cup {"info"}
  /\ UNCHANGED <<call, object, players, alone, clean>>

Toggle ==
  /\ media' = [media EXCEPT !.playing = ~@]
  /\ notes' = notes \cup {"playing"}
  /\ UNCHANGED <<call, object, players, alone, clean>>

OtherAdapter(s) ==
  /\ players[s].own # "darwin"
  /\ players' = [players EXCEPT ![s] = IF @ = Free THEN Web ELSE Free]
  /\ UNCHANGED <<media, notes, call, object, alone, clean>>

Blocks ==
  \E c \in Calls : \/ InfoDidChange(c) \/ IsPlayingDidChange(c)
                   \/ AnswerPlaying(c) \/ AnswerInfo(c)
                   \/ PlayingBlock(c) \/ InfoBlock(c) \/ Update(c)

Next ==
  \/ Blocks
  \/ \E playing, obeys \in BOOLEAN : Event(playing, obeys)
  \/ \E text \in Texts : Play(text)
  \/ Toggle
  \/ \E s \in Slots : OtherAdapter(s)

Spec == Init /\ [][Next]_vars

-----------------------------------------------------------------------------
(* The types of the adapter's state; its player is where it was added.      *)
TypeOK ==
  /\ media \in [text : Texts, playing : BOOLEAN]
  /\ notes \subseteq {"info", "playing"}
  /\ isPlaying \in BOOLEAN
  /\ old \in [text : Texts \cup {NoText}, playing : BOOLEAN]
  /\ call \in [Calls -> [playing : PlayingAnswers, info : InfoAnswers]]
  /\ players \in [Slots -> {Free, Web} \cup {Mine(a, b) : a \in Texts \cup {NoText}, b \in BOOLEAN}]
  /\ player_id \in Slots
  /\ \A s \in Slots : players[s].own = "darwin" <=> s = player_id
  /\ alone \subseteq Calls /\ clean \in BOOLEAN

(* darwin.m:137-141: the compacted array holds another player at this index *)
(* once a slot before it is free; the check keeps what the system says from *)
(* being written to that player.                                            *)
OnlyItsOwn ==
  \A c \in Calls : Update(c) => \A s \in Slots \ {player_id} : players'[s] = players[s]

OthersUntouched == [][OnlyItsOwn]_vars

(* darwin.m:117-173: when nothing is under way the player shows the media.   *)
(* Lost, and not made up for later because old_title and old_is_playing     *)
(* say it was shown, is what is said while a slot before the player's is     *)
(* free or while two calls overtake one another, an answer to isPlaying that *)
(* comes after the information's, and the true state after an event that the *)
(* system disregards or takes back.                                         *)
ShowsMedia ==
  clean /\ notes = {} /\ InFlight = {} => players[player_id].shown = media
=============================================================================
