------------------------------- MODULE Unicode -------------------------------
(***************************************************************************)
(* What UTF-8 and UTF-16 are (RFC 3629, RFC 2781), for the two pieces of    *)
(* code that handle them: the check of a message's text in cws.c and the   *)
(* conversion in wnp.c.  Nothing here is taken from the library.           *)
(***************************************************************************)
EXTENDS Integers, Sequences

Byte         == 0..255
Continuation == 128..191

(* The code point that the bits of one character's bytes spell.            *)
CodePoint(c) ==
  LET tail(k) == c[k] - 128
  IN IF Len(c) = 1 THEN c[1]
     ELSE IF Len(c) = 2 THEN (c[1] - 192) * 64 + tail(2)
     ELSE IF Len(c) = 3 THEN (c[1] - 224) * 4096 + tail(2) * 64 + tail(3)
     ELSE (c[1] - 240) * 262144 + tail(2) * 4096 + tail(3) * 64 + tail(4)

Surrogates == 55296..57343

(* One character: the first byte gives its length, and the code point is    *)
(* none that a shorter form spells, no surrogate, and at most U+10FFFF.     *)
Character(c) ==
  /\ \A k \in 2..Len(c) : c[k] \in Continuation
  /\ \/ Len(c) = 1 /\ c[1] < 128
     \/ Len(c) = 2 /\ c[1] \in 192..223 /\ CodePoint(c) >= 128
     \/ Len(c) = 3 /\ c[1] \in 224..239 /\ CodePoint(c) >= 2048
     \/ Len(c) = 4 /\ c[1] \in 240..247 /\ 65536 <= CodePoint(c) /\ CodePoint(c) <= 1114111
  /\ CodePoint(c) \notin Surrogates

(* A text cut before every byte that is no continuation byte.              *)
Starts(s) == {k \in 1..Len(s) : s[k] \notin Continuation \/ k = 1}
Piece(s, k) ==
  LET last == CHOOSE n \in k..Len(s) :
                /\ \A j \in k+1..n : j \notin Starts(s)
                /\ n = Len(s) \/ n + 1 \in Starts(s)
  IN SubSeq(s, k, last)

WellFormed(s) == \A k \in Starts(s) : Character(Piece(s, k))

(* The UTF-16 code units of a code point.                                  *)
Units(point) ==
  IF point < 65536 THEN <<point>>
  ELSE <<55296 + (point - 65536) \div 1024, 56320 + ((point - 65536) % 1024)>>
=============================================================================
