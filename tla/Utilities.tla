------------------------------ MODULE Utilities ------------------------------
(***************************************************************************)
(* The controls of wnp.c that compute what they ask for: seeking by seconds *)
(* and by percent, play/pause, volume, and the toggle of the repeat mode.    *)
(* They compute with the copy of the player their caller holds, which an    *)
(* update may have overtaken; a web player's row takes what is asked for at *)
(* once (web.c:415-436).  Positions are unsigned: they are counted modulo    *)
(* Unsigned (2^32).                                                          *)
(***************************************************************************)
EXTENDS Integers, FiniteSets

CONSTANTS
  Unsigned,     \* 2^32
  Durations,    \* of tracks, in seconds: up to 2^20 (see Part)
  Seconds,      \* by how much an application seeks
  Shares        \* percentages / 100, as pairs of numerator and denominator

Modes    == {"NONE", "ALL", "ONE"}

(* What is assumed of the constants; MCSequential assumes it of its own.   *)
UtilitiesAssumption ==
  /\ Unsigned \in Nat \ {0} /\ Durations \subseteq 0..Unsigned-1
  /\ Seconds \subseteq 0..Unsigned-1 /\ Shares \subseteq Nat \X (Nat \ {0})

VARIABLES
  player,       \* the row of the table
  copy,         \* the application's copy of it
  outdated      \* history: the position was last set from a copy of another track

controls_vars == <<player, copy, outdated>>

Row ==
  [ position : 0..Unsigned-1, duration : Durations, state : {"PLAYING", "PAUSED", "STOPPED"},
    volume : 0..100, repeat : Modes, available_repeat : SUBSET Modes ]

(* A player that was announced a while ago and has been asked nothing.       *)
ControlsInit ==
  /\ player \in [ position : {0}, duration : Durations, state : {"STOPPED"}, volume : {100},
                  repeat : Modes, available_repeat : SUBSET Modes \ {{}} ]
  /\ player.repeat \in player.available_repeat
  /\ copy = player
  /\ outdated = FALSE

-----------------------------------------------------------------------------
(* Mutant of Clamped: the clamp is forgotten.                               *)
NotClamped(p, seconds) == seconds

(* wnp_try_set_position.                                                   *)
Clamped(p, seconds) == IF seconds > p.duration THEN p.duration ELSE seconds

Minus(p, seconds) == Clamped(p, (p.position - seconds) % Unsigned)
Plus(p, seconds)  == Clamped(p, (p.position + seconds) % Unsigned)

(* Half a second is added, and what is behind the point cut off.  The code  *)
(* computes in floats, which are at most 4 * 2^-24 of the duration off: less *)
(* than half a second on a track of up to 2^20 seconds.                      *)
Part(p, share) == (2 * share[1] * p.duration + share[2]) \div (2 * share[2])

position_percent(p) == IF p.duration = 0 THEN <<1, 1>> ELSE <<p.position, p.duration>>

Toggled(p) == IF p.state \in {"PAUSED", "STOPPED"} THEN "PLAYING" ELSE "PAUSED"

(* Mutant of Preferred: after ALL comes NONE.                               *)
PreferredBack(mode) ==
  IF mode = "NONE" THEN <<"ALL", "ONE">>
  ELSE IF mode = "ALL" THEN <<"NONE", "ONE">>
  ELSE <<"ALL", "NONE">>

Preferred(mode) ==
  IF mode = "NONE" THEN <<"ALL", "ONE">>
  ELSE IF mode = "ALL" THEN <<"ONE", "NONE">>
  ELSE <<"NONE", "ALL">>

next_repeat(p) ==
  LET modes == Preferred(p.repeat)
  IN IF modes[1] \in p.available_repeat THEN modes[1]
     ELSE IF modes[2] \in p.available_repeat THEN modes[2]
     ELSE p.repeat

-----------------------------------------------------------------------------
Seek(position) ==
  /\ player' = [player EXCEPT !.position = position]
  /\ outdated' = (copy.duration # player.duration)
  /\ UNCHANGED copy

wnp_try_set_position(seconds) == Seek(Clamped(copy, seconds))
wnp_try_revert(seconds)       == Seek(Minus(copy, seconds))
wnp_try_forward(seconds)      == Seek(Plus(copy, seconds))

wnp_try_set_position_percent(share) == Seek(Clamped(copy, Part(copy, share)))
wnp_try_revert_percent(share)       == Seek(Minus(copy, Part(copy, share)))
wnp_try_forward_percent(share)      == Seek(Plus(copy, Part(copy, share)))

wnp_try_play_pause ==
  /\ player' = [player EXCEPT !.state = Toggled(copy)]
  /\ UNCHANGED <<copy, outdated>>

wnp_try_set_volume(volume) ==
  /\ player' = [player EXCEPT !.volume = IF volume > 100 THEN 100 ELSE volume]
  /\ UNCHANGED <<copy, outdated>>

(* With no other mode to change to, it fails.                              *)
wnp_try_toggle_repeat ==
  /\ next_repeat(copy) # copy.repeat
  /\ player' = [player EXCEPT !.repeat = next_repeat(copy)]
  /\ UNCHANGED <<copy, outdated>>

wnp_get_player ==
  /\ copy' = player
  /\ UNCHANGED <<player, outdated>>

(* The adapter reports another track.                                      *)
Track(duration) ==
  /\ player' = [player EXCEPT !.position = 0, !.duration = duration]
  /\ outdated' = FALSE
  /\ UNCHANGED copy

ControlsNext ==
  \/ \E s \in Seconds : \/ wnp_try_set_position(s) \/ wnp_try_revert(s) \/ wnp_try_forward(s)
  \/ \E share \in Shares : \/ wnp_try_set_position_percent(share)
                           \/ wnp_try_revert_percent(share)
                           \/ wnp_try_forward_percent(share)
  \/ wnp_try_play_pause \/ \E volume \in {0, 50, 101} : wnp_try_set_volume(volume)
  \/ wnp_try_toggle_repeat
  \/ wnp_get_player
  \/ \E duration \in Durations : Track(duration)

ControlsSpec == ControlsInit /\ [][ControlsNext]_controls_vars

-----------------------------------------------------------------------------
(* The types of the state.                                                 *)
ControlsTypeOK == player \in Row /\ copy \in Row /\ outdated \in BOOLEAN

(* wnp.c:851-942: the position stays inside the track, whatever is asked    *)
(* for, unless the caller's copy was of another one; setting the percentage *)
(* a player is at leaves it where it is, seeking forward and back again     *)
(* does too if the track goes on for as long, and seeking back further than *)
(* to the start lands on the end; and toggling goes through every mode the  *)
(* player supports.                                                         *)
ControlsAgree ==
  LET again(p)   == [p EXCEPT !.repeat = next_repeat(p)]
      at(s)      == [player EXCEPT !.position = Plus(player, s)]
  IN ~outdated =>
       /\ player.position <= player.duration
       /\ Clamped(player, Part(player, position_percent(player))) = player.position
       /\ \A s \in Seconds :
            /\ player.position + s <= player.duration => Minus(at(s), s) = player.position
            /\ s \in player.position+1..Unsigned + player.position - player.duration =>
                 Minus(player, s) = player.duration
       /\ player.available_repeat \subseteq
            {player.repeat, next_repeat(player), next_repeat(again(player))}
=============================================================================
