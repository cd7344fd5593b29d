-------------------------------- MODULE Utf16 --------------------------------
(***************************************************************************)
(* `wnp_utf8_to_utf16`, the only function of wnp.c that loops over text:    *)
(* one step of the loop per action, one action per length of a character.   *)
(* The input is text ended by a NUL; its sequences are not cut off.          *)
(***************************************************************************)
EXTENDS Unicode, SequencesExt

CONSTANTS
  Characters,   \* the sequences of bytes a text is made of
  MaxLength,    \* how many
  OutputLens    \* the sizes of the output

(* What is assumed of the constants; MCSequential assumes it of its own.   *)
Utf16Assumption ==
  Characters \subseteq Seq(Byte) /\ MaxLength \in Nat /\ OutputLens \subseteq Nat

VARIABLES
  input, output_len,
  at,           \* utf8_currentCodeUnit, and one more than utf8_str_iterator
  output,       \* the units written
  padded        \* the second loop is done

utf16_vars == <<input, output_len, at, output, padded>>

Texts == UNION {[1..n -> Characters] : n \in 0..MaxLength}

Utf16Init ==
  /\ \E text \in Texts : input = FlattenSeq(text)
  /\ output_len \in OutputLens
  /\ at = 1 /\ output = <<>> /\ padded = FALSE

(* The NUL behind the text ends the loop; the sizes do not before it, as    *)
(* either of them is enough to go on.                                       *)
Goes == at <= Len(input)

Between(low, high) == Goes /\ input[at] \in low..high-1

Step(n, units) ==
  /\ at' = at + n
  /\ output' = output \o units
  /\ UNCHANGED <<input, output_len, padded>>

(* The bits a byte after the first one carries.                             *)
six(k) == input[at + k] % 64

Unless(point) == IF point \in Surrogates THEN <<>> ELSE <<point>>

OneByte   == Between(0, 128) /\ Step(1, <<input[at]>>)
Stray     == Between(128, 192) /\ Step(1, <<>>)
TwoBytes  == Between(192, 224) /\ Step(2, Unless((input[at] % 32) * 64 + six(1)))

(* Mutant of ThreeBytes: the bits of the second byte are one place off.      *)
ThreeBytesOff ==
  /\ Between(224, 240)
  /\ Step(3, Unless((input[at] % 16) * 4096 + six(1) * 128 + six(2)))

ThreeBytes ==
  /\ Between(224, 240)
  /\ Step(3, Unless((input[at] % 16) * 4096 + six(1) * 64 + six(2)))

(* The topmost five bits are put in the lowest places, over those of the     *)
(* last byte, and the units are written in the wrong order.                  *)
unicode ==
  LET high == (input[at] % 8) * 4 + six(1) \div 16
      low  == six(3)
      both == {b \in 0..5 : (high \div 2^b) % 2 = 1 \/ (low \div 2^b) % 2 = 1}
  IN (six(1) % 16) * 4096 + six(2) * 64 + FoldSet(LAMBDA b, sum : sum + 2^b, 0, both)

below         == 65536 - unicode                     \* C's division rounds towards 0
highSurrogate == 55296 - below \div 1024
lowSurrogate  == 56320 - (below % 1024)

FourBytes ==
  /\ Between(240, 248)
  /\ Step(4, <<lowSurrogate>> \o
               (IF Len(output) + 1 < output_len THEN <<highSurrogate>> ELSE <<>>))

Unknown == Between(248, 256) /\ Step(1, <<>>)

Pad ==
  /\ ~Goes /\ ~padded
  /\ output' = output \o [k \in 1..output_len - Len(output) |-> 0]
  /\ padded' = TRUE
  /\ UNCHANGED <<input, output_len, at>>

Finished == padded /\ UNCHANGED utf16_vars

Utf16Next ==
  \/ OneByte \/ Stray \/ TwoBytes \/ ThreeBytes \/ FourBytes \/ Unknown
  \/ Pad \/ Finished

Utf16Spec == Utf16Init /\ [][Utf16Next]_utf16_vars

-----------------------------------------------------------------------------
(* The text in UTF-16, padded with zeroes.                                  *)
Text     == FlattenSeq([k \in 1..Len(input) |->
              IF k \in Starts(input) THEN Units(CodePoint(Piece(input, k))) ELSE <<>>])
Expected == Text \o [k \in 1..output_len - Len(Text) |-> 0]

(* wnp.c:701-781, for every text that is UTF-8: it becomes the same text in   *)
(* UTF-16, if it has no character of four bytes; with such characters it is   *)
(* at least of the right length, if there is room for it.                      *)
Converts ==
  padded /\ WellFormed(input) =>
    /\ (\A k \in Starts(input) : input[k] < 240) => output = Expected
    /\ Len(Text) <= output_len => Len(output) = output_len
=============================================================================
