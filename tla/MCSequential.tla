---------------------------- MODULE MCSequential ----------------------------
(* The parts of the library that one thread runs: the loop that selects the *)
(* active player, the assembly of a message from frames, the conversion to   *)
(* UTF-16, and the controls.  The initial state chooses one of them.         *)
EXTENDS ActiveScan, CwsFrames, Utf16, Utilities

VARIABLE subject

ASSUME MCSequentialAssumption ==
  FramesAssumption /\ Utf16Assumption /\ UtilitiesAssumption

-----------------------------------------------------------------------------
(* Four slots; every row the branches of the loop tell apart, with three   *)
(* timestamps (0 is a player that was never active).                       *)
MCOwners == {"adapter"}

MCRow(platform, browser, state, volume, when) ==
  [ id |-> -1, platform |-> platform, is_web_browser |-> browser, 
    state |-> state, volume |-> volume, active_at |-> when, data |-> "adapter" ]

MCRows ==
  { MCRow("WEB", FALSE, "PLAYING", 100, 0),    MCRow("WEB", FALSE, "PLAYING", 100, 1),
    MCRow("NATIVE", FALSE, "PLAYING", 100, 2), MCRow("NATIVE", FALSE, "PLAYING", 0, 1),
    MCRow("NATIVE", FALSE, "PLAYING", 0, 3),   MCRow("NATIVE", FALSE, "PAUSED", 100, 2),
    MCRow("NATIVE", FALSE, "STOPPED", 100, 1), MCRow("NATIVE", TRUE, "PLAYING", 100, 3),
    MCRow("NATIVE", TRUE, "PAUSED", 100, 3) }

(* A byte of each type the table of cws.c tells apart, and texts of up to     *)
(* four of them in one frame.                                                *)
Bytes == {97, 128, 144, 169, 193, 195, 224, 226, 237, 240, 241, 244, 255}
MCTexts == UNION {[1..n -> Bytes] : n \in 0..4}

Frame(opcode, fin, payload) ==
  [opcode |-> opcode, fin |-> fin, rsv |-> FALSE, long |-> FALSE, payload |-> payload]

(* Pieces of a text, among them the two halves of a character.              *)
Pieces == {<<97>>, <<195>>, <<169>>, <<195, 169>>}

MCInputs ==
  [opcode : {"TEXT", "CONTINUATION"}, fin : BOOLEAN, rsv : {FALSE}, long : {FALSE}, payload : Pieces]
  \cup {Frame("BINARY", fin, <<255>>) : fin \in BOOLEAN}
  \cup {Frame("PING", TRUE, <<>>), Frame("PING", TRUE, <<97>>), Frame("PONG", TRUE, <<>>)}
  \cup {Frame("CLOSE", TRUE, p) : p \in {<<>>, <<3>>, <<3, 232>>, <<3, 236>>, <<3, 232, 255>>}}
  \cup {Frame("PING", FALSE, <<>>), Frame("other", TRUE, <<>>)}
  \cup {[Frame("TEXT", TRUE, <<97>>) EXCEPT !.rsv = TRUE],
        [Frame("PING", TRUE, <<97>>) EXCEPT !.long = TRUE]}

MCCharacters ==
  { <<97>>, <<195, 169>>, <<237, 159, 191>>, <<237, 160, 128>>, <<239, 191, 191>>,
    <<226, 130, 172>>, <<240, 159, 152, 128>>, <<128>>, <<248>> }

MCShares == {<<1, 3>>, <<3, 2>>}

-----------------------------------------------------------------------------
(* What the parts that are not chosen look like: nothing happens to them.  *)
ScanOff ==
  /\ players = [s \in Slots |-> WNP_DEFAULT_PLAYER] /\ total_web_players = 0
  /\ i = MaxPlayers /\ active_player_id = -1 /\ max_active_at = 0 /\ found_active = FALSE

FramesOff   == FramesInit
Utf16Off    == input = <<>> /\ output_len = 0 /\ at = 1 /\ output = <<>> /\ padded = FALSE
ControlsOff == player = "off" /\ copy = "off" /\ outdated = TRUE

MCInit ==
  \/ subject = "scan" /\ Init /\ FramesOff /\ Utf16Off /\ ControlsOff
  \/ subject \in {"frames", "text"} /\ FramesInit /\ ScanOff /\ Utf16Off /\ ControlsOff
  \/ subject = "utf16" /\ Utf16Init /\ ScanOff /\ FramesOff /\ ControlsOff
  \/ subject = "controls" /\ ControlsInit /\ ScanOff /\ FramesOff /\ Utf16Off

Scan      == subject = "scan" /\ UNCHANGED <<subject, frames_vars, utf16_vars, controls_vars>>
OfFrames  == subject = "frames" /\ UNCHANGED <<subject, vars, utf16_vars, controls_vars>>
OfText    == subject = "text" /\ UNCHANGED <<subject, vars, utf16_vars, controls_vars>>
OfUtf16   == subject = "utf16" /\ UNCHANGED <<subject, vars, frames_vars, controls_vars>>
OfControls == subject = "controls" /\ UNCHANGED <<subject, vars, frames_vars, utf16_vars>>

MCScanNext ==
  \/ Scan /\ SkipHidden
  \/ Scan /\ TakeAudible
  \/ Scan /\ TakePlaying
  \/ Scan /\ TakeIdle
  \/ Scan /\ Pass
  \/ Scan /\ Done

MCFramesNext ==
  \/ \E f \in Inputs : OfFrames /\ Refuse(f)
  \/ \E f \in Inputs : OfFrames /\ Data(f)
  \/ \E f \in Inputs : OfFrames /\ Ping(f)
  \/ \E f \in Inputs : OfFrames /\ Pong(f)
  \/ \E f \in Inputs : OfFrames /\ Close(f)
  \/ OfFrames /\ Cut
  \/ OfFrames /\ Ended
  \/ OfText /\ received = <<>> /\ \E text \in MCTexts : Data(Frame("TEXT", TRUE, text))
  \/ OfText /\ received # <<>> /\ Cut
  \/ OfText /\ Ended

MCUtf16Next ==
  \/ OfUtf16 /\ OneByte
  \/ OfUtf16 /\ Stray
  \/ OfUtf16 /\ TwoBytes
  \/ OfUtf16 /\ ThreeBytes
  \/ OfUtf16 /\ FourBytes
  \/ OfUtf16 /\ Unknown
  \/ OfUtf16 /\ Pad
  \/ OfUtf16 /\ Finished

MCControlsNext ==
  \/ \E s \in Seconds : OfControls /\ wnp_try_set_position(s)
  \/ \E s \in Seconds : OfControls /\ wnp_try_revert(s)
  \/ \E s \in Seconds : OfControls /\ wnp_try_forward(s)
  \/ \E share \in Shares : OfControls /\ wnp_try_set_position_percent(share)
  \/ \E share \in Shares : OfControls /\ wnp_try_revert_percent(share)
  \/ \E share \in Shares : OfControls /\ wnp_try_forward_percent(share)
  \/ OfControls /\ wnp_try_play_pause
  \/ \E volume \in {101} : OfControls /\ wnp_try_set_volume(volume)
  \/ OfControls /\ wnp_try_toggle_repeat
  \/ OfControls /\ wnp_get_player
  \/ \E duration \in Durations : OfControls /\ Track(duration)

MCNext == MCScanNext \/ MCFramesNext \/ MCUtf16Next \/ MCControlsNext

MCSpec == MCInit /\ [][MCNext]_<<subject, vars, frames_vars, utf16_vars, controls_vars>>

-----------------------------------------------------------------------------
(* The types of the parts, each of its own states; the other properties are *)
(* the parts' own, and hold of what is not chosen.                           *)
TypesOK ==
  /\ TypeOK
  /\ subject = "frames" => FramesTypeOK
  /\ subject = "controls" => ControlsTypeOK
=============================================================================
