------------------------------ MODULE CwsFrames ------------------------------
(***************************************************************************)
(* What a client thread of cws.c makes of the frames its peer sends: the    *)
(* loop of `recv_next_frame` that assembles a message, with control frames  *)
(* between the fragments, the check of its text, and `client_thread`, which *)
(* calls it until the connection ends.  The other threads are in CwsServer. *)
(*                                                                         *)
(* A frame is read in one step.  A payload is what is left once the mask   *)
(* is taken off; its length field is a number, whichever form it has.      *)
(***************************************************************************)
EXTENDS Unicode, SequencesExt, FiniteSetsExt

CONSTANTS
  Inputs,       \* the frames a peer may send
  MaxFrames,    \* how many it sends at most
  MaxMessage    \* 16 MiB in the code

Control == {"CLOSE", "PING", "PONG"}
Opcode  == {"CONTINUATION", "TEXT", "BINARY"} \cup Control

(* What is assumed of the constants; MCSequential assumes it of its own. *)
FramesAssumption ==
  /\ \A f \in Inputs : /\ {f.fin, f.rsv, f.long} \subseteq BOOLEAN
                       /\ f.opcode \in Opcode \cup {"other"}
                       /\ f.payload \in Seq(Byte)
  /\ MaxFrames \in Nat /\ MaxMessage \in Nat

VARIABLES
  received,     \* what the peer has sent so far
  op,           \* frame->op, "none" for -1
  msg,          \* fsd.msg_data
  utf8_state,   \* fsd.utf8_state
  thread,       \* "reads", or "ended" once the loop of client_thread is left
  delivered,    \* the messages on_message was called with
  sent          \* the control frames sent to the peer

frames_vars == <<received, op, msg, utf8_state, thread, delivered, sent>>

-----------------------------------------------------------------------------
(* The table utf8d: the type of a byte, and what a type leads to.          *)
type(b) ==
  IF b < 128 THEN 0 ELSE IF b < 144 THEN 1 ELSE IF b < 160 THEN 9 ELSE IF b < 192 THEN 7
  ELSE IF b < 194 THEN 8 ELSE IF b < 224 THEN 2 ELSE IF b = 224 THEN 10
  ELSE IF b = 237 THEN 4 ELSE IF b < 240 THEN 3 ELSE IF b = 240 THEN 11
  ELSE IF b < 244 THEN 6 ELSE IF b = 244 THEN 5 ELSE 8

Lead == <<0, 1, 2, 3, 5, 8, 7, 1, 1, 1, 4, 6>>

(* Mutant of goes_on: a surrogate is taken for a character.                 *)
goes_on_to_surrogates(state, t) ==
  IF state = 0 THEN Lead[t + 1]
  ELSE IF state = 2 /\ t \in {1, 7, 9} THEN 0
  ELSE IF \/ state \in {3, 5} /\ t \in {1, 7, 9}
          \/ state = 4 /\ t = 7 THEN 2
  ELSE IF \/ state = 6 /\ t \in {7, 9}
          \/ state = 7 /\ t \in {1, 7, 9}
          \/ state = 8 /\ t = 1 THEN 3
  ELSE 1

(* The states are 0 (between characters), 1 (refused), 2 and 3 (one or two  *)
(* bytes to come), 4 to 8 (after E0, ED, F0, F1..F3, F4).                    *)
goes_on(state, t) ==
  IF state = 0 THEN Lead[t + 1]
  ELSE IF state = 2 /\ t \in {1, 7, 9} THEN 0
  ELSE IF \/ state = 3 /\ t \in {1, 7, 9}
          \/ state = 4 /\ t = 7
          \/ state = 5 /\ t \in {1, 9} THEN 2
  ELSE IF \/ state = 6 /\ t \in {7, 9}
          \/ state = 7 /\ t \in {1, 7, 9}
          \/ state = 8 /\ t = 1 THEN 3
  ELSE 1

valid_utf8(s, state) ==
  LET after[k \in 0..Len(s)] == IF k = 0 THEN state ELSE goes_on(after[k - 1], type(s[k]))
  IN after[Len(s)]

-----------------------------------------------------------------------------
FramesInit ==
  /\ received = <<>> /\ delivered = <<>> /\ sent = <<>>
  /\ op = "none" /\ msg = <<>> /\ utf8_state = 0
  /\ thread = "reads"

(* recv_next_frame begins anew.                                            *)
Fresh == op' = "none" /\ msg' = <<>> /\ utf8_state' = 0

(* It returns -1: client_thread leaves its loop, whatever it has of a       *)
(* message is freed, and it calls on_close.                                 *)
Fail == thread' = "ended" /\ Fresh /\ UNCHANGED delivered

Receive(f) ==
  /\ thread = "reads" /\ Len(received) < MaxFrames
  /\ received' = Append(received, f)

(* Mutant of Illegal: a new message may begin before the last one ends.      *)
IllegalButRestarted(f) ==
  \/ f.rsv
  \/ op = "none" /\ f.opcode = "CONTINUATION"
  \/ f.opcode = "other"
  \/ f.opcode \in Control /\ (~f.fin \/ f.long)
  \/ f.opcode \notin Control /\ Len(msg) + Len(f.payload) > MaxMessage

Illegal(f) ==
  \/ f.rsv
  \/ op = "none" /\ f.opcode = "CONTINUATION"
  \/ op # "none" /\ f.opcode \notin Control \cup {"CONTINUATION"}
  \/ f.opcode = "other"
  \/ f.opcode \in Control /\ (~f.fin \/ f.long)
  \/ f.opcode \notin Control /\ Len(msg) + Len(f.payload) > MaxMessage

Refuse(f) ==
  /\ Receive(f)
  /\ Illegal(f)
  /\ Fail
  /\ UNCHANGED sent

(* Mutant of Refused: the end of a text may be missing.                     *)
RefusedLoosely(f, opcode) == opcode = "TEXT" /\ valid_utf8(f.payload, 0) = 1

(* The last fragment of a text is checked by itself, the ones before it as  *)
(* one text, which need not be complete.                                    *)
Refused(f, opcode) ==
  /\ opcode = "TEXT"
  /\ IF f.fin THEN valid_utf8(f.payload, 0) # 0 ELSE valid_utf8(f.payload, utf8_state) = 1

Data(f) ==
  LET opcode == IF f.opcode = "CONTINUATION" THEN op ELSE f.opcode
      bytes  == msg \o f.payload
  IN /\ Receive(f)
     /\ ~Illegal(f) /\ f.opcode \notin Control
     /\ IF Refused(f, opcode)
          THEN Fail /\ sent' = Append(sent, [opcode |-> "CLOSE", payload |-> <<3, 239>>]) \* 1007
        ELSE IF f.fin
          THEN /\ delivered' = Append(delivered, [opcode |-> opcode, bytes |-> bytes])
               /\ Fresh
               /\ UNCHANGED <<thread, sent>>
        ELSE /\ op' = opcode /\ msg' = bytes
             /\ utf8_state' = IF opcode = "TEXT" THEN valid_utf8(f.payload, utf8_state)
                              ELSE utf8_state
             /\ UNCHANGED <<thread, delivered, sent>>

(* Mutant of Ping: a ping ends the message, as a fin does.                   *)
PingEnds(f) ==
  /\ Receive(f)
  /\ ~Illegal(f) /\ f.opcode = "PING"
  /\ sent' = Append(sent, [opcode |-> "PONG", payload |-> f.payload])
  /\ delivered' = Append(delivered, [opcode |-> op, bytes |-> msg])
  /\ Fresh
  /\ UNCHANGED thread

(* is_fin is cleared: the loop goes on with the message.  The answer may    *)
(* fail, which ends the connection.                                         *)
Ping(f) ==
  /\ Receive(f)
  /\ ~Illegal(f) /\ f.opcode = "PING"
  /\ \/ /\ sent' = Append(sent, [opcode |-> "PONG", payload |-> f.payload])
        /\ UNCHANGED <<op, msg, utf8_state, thread, delivered>>
     \/ Fail /\ UNCHANGED sent

(* The library sends no pings, and nothing reads the id that is stored.     *)
Pong(f) ==
  /\ Receive(f)
  /\ ~Illegal(f) /\ f.opcode = "PONG"
  /\ UNCHANGED <<op, msg, utf8_state, thread, delivered, sent>>

Code(payload) == IF Len(payload) = 1 THEN payload[1] ELSE payload[1] * 256 + payload[2]

Sensible(code) == code \in 1000..1003 \cup 1007..1011 \cup 3000..4999

(* send_close_frame: a code alone is answered with itself if it is one that *)
(* may be sent, and with 1002 if not; with a reason it is not looked at.    *)
Answer(payload) ==
  IF Len(payload) \in 1..2 /\ ~Sensible(Code(payload)) THEN <<3, 234>> ELSE payload

Close(f) ==
  /\ Receive(f)
  /\ ~Illegal(f) /\ f.opcode = "CLOSE"
  /\ Fail
  /\ IF Len(f.payload) > 2 /\ valid_utf8(SubSeq(f.payload, 3, Len(f.payload)), 0) = 1
       THEN UNCHANGED sent
       ELSE sent' = Append(sent, [opcode |-> "CLOSE", payload |-> Answer(f.payload)])

(* recv_next_byte: the connection is gone.                                  *)
Cut ==
  /\ thread = "reads"
  /\ Fail
  /\ UNCHANGED <<received, sent>>

Ended == thread = "ended" /\ UNCHANGED frames_vars

FramesNext ==
  \/ \E f \in Inputs : Refuse(f) \/ Data(f) \/ Ping(f) \/ Pong(f) \/ Close(f)
  \/ Cut \/ Ended

FramesSpec == FramesInit /\ [][FramesNext]_frames_vars

-----------------------------------------------------------------------------
(* The types of the state.                                                 *)
FramesTypeOK ==
  /\ received \in Seq(Inputs) /\ Len(received) <= MaxFrames
  /\ op \in {"none", "TEXT", "BINARY"}
  /\ utf8_state \in 0..8 \ {1}
  /\ thread \in {"reads", "ended"}
  /\ Len(msg) <= MaxMessage

(* The data frames received, and those of them that are the last of a        *)
(* message; the fragments up to the k-th frame that no such frame follows    *)
(* before it, and what they carry.                                           *)
Fragment(k) == received[k].opcode \notin Control
Ends        == {k \in 1..Len(received) : Fragment(k) /\ received[k].fin}
Message(k)  == {j \in 1..k : Fragment(j) /\ \A e \in Ends : e \notin j..k-1}
Kind(k)     == received[Min(Message(k))].opcode
Carried(k)  == FlattenSeq([j \in 1..k |-> IF j \in Message(k) THEN received[j].payload ELSE <<>>])
Number(k)   == Cardinality(Ends \cap 1..k)

(* cws.c:387-511: the n-th message delivered is what the data frames of the *)
(* n-th message carry, in their order and under the opcode of the first,    *)
(* whatever control frames came between them; no message is delivered       *)
(* before its last fragment or left out, but for the one that ends the      *)
(* connection.                                                               *)
MessagesAreWhole ==
  /\ Len(delivered) <= Cardinality(Ends)
  /\ thread = "reads" => Len(delivered) = Cardinality(Ends)
  /\ \A k \in Ends : Number(k) <= Len(delivered) =>
       delivered[Number(k)] = [opcode |-> Kind(k), bytes |-> Carried(k)]

(* The last frame is a text's, and was answered with 1007.                  *)
Refused1007 ==
  /\ received # <<>> /\ Fragment(Len(received))
  /\ sent # <<>> /\ Last(sent) = [opcode |-> "CLOSE", payload |-> <<3, 239>>]

(* cws.c:449-463: of the texts whose fragments are cut between characters,  *)
(* those delivered are valid UTF-8 and those refused with 1007 are not.      *)
TextIsChecked ==
  \A k \in 1..Len(received) :
    /\ Fragment(k) /\ Kind(k) = "TEXT"
    /\ \A j \in Message(k) \ {k} : WellFormed(received[j].payload)
    => /\ k \in Ends /\ Number(k) <= Len(delivered) => WellFormed(Carried(k))
       /\ k = Len(received) /\ Refused1007 => ~WellFormed(Carried(k))
=============================================================================
