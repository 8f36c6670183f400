-------------------------------- MODULE Codec --------------------------------
(***************************************************************************)
(* The animation files of the fan: what tools/orb_encode.py writes, what    *)
(* tools/orb_decoder.py reads back, and how long a phase-locked loop is.    *)
(*                                                                          *)
(* A file is revolution after revolution, each Cpr columns, each column two *)
(* header bits and the red, green and blue bit of every LED.  Angles are    *)
(* counted in columns: a turn has Cpr of them.  Sampling and dithering of   *)
(* the picture are left out: a picture is its columns.                      *)
(***************************************************************************)
EXTENDS Integers, Sequences, FiniteSetsExt

CONSTANTS
  Leds,         \* 90
  Cpr,          \* columns per revolution: 2016
  Tol, Hi,      \* of the search for a loop: 2.5 degrees, 500 frames
  FrameMs       \* 40 milliseconds, at 25 revolutions a second

ASSUME CodecAssumption ==
  Leds \in Nat \ {0} /\ Cpr \in Nat \ {0} /\ Tol \in Nat /\ Hi \in Nat \ {0} /\ FrameMs \in Nat \ {0}

Header == 2
ColBits == Header + 3 * Leds

Columns == [0..(Leds - 1) -> [0..2 -> {0, 1}]]
Pictures == [0..(Cpr - 1) -> Columns]

\* A file: pictures shown in turn, each turned on by deg a revolution.
Bins == [base : Seq(Pictures) \ {<<>>}, deg : Int, frames : Nat \ {0}]

FrameColumn(bin, i, c) ==
  bin.base[(i % Len(bin.base)) + 1][(c - bin.deg * i) % Cpr]

\* Mutant of EncodeColumn: the colours of an LED are not kept together.
EncodeColumn_Planes(col) ==
  [j \in 0..(ColBits - 1) |->
     IF j < Header THEN 0 ELSE col[(j - Header) % Leds][(j - Header) \div Leds]]

EncodeColumn(col) ==
  [j \in 0..(ColBits - 1) |->
     IF j < Header THEN 0 ELSE col[(j - Header) \div 3][(j - Header) % 3]]

\* The columns of a file, one after the other.
FileColumns(bin) ==
  [k \in 0..(bin.frames * Cpr - 1) |-> EncodeColumn(FrameColumn(bin, k \div Cpr, k % Cpr))]

DecodeColumn(bits) ==
  [led \in 0..(Leds - 1) |-> [ch \in 0..2 |-> bits[Header + 3 * led + ch]]]

\* Column c of revolution i as the decoder finds it.
Decoded(file, i, c) == DecodeColumn(file[i * Cpr + c])

FileSize(bin) == (bin.frames * Cpr * ColBits) \div 8
DurationMs(bin) == bin.frames * FrameMs

\* How far n frames at d a revolution end from a whole number of turns.
SeamDeg(n, d) == LET s == (n * d) % Cpr IN IF s <= Cpr - s THEN s ELSE Cpr - s

\* Mutant of AutoLoopLen: the turn divided by the step, rounded.
AutoLoopLen_Naive(d) ==
  LET a == IF d < 0 THEN -d ELSE d IN (2 * Cpr + a) \div (2 * a)

\* The first frame count whose seam is small, else the first of the smallest seam.
AutoLoopLen(d) ==
  LET close == {n \in 1..Hi : SeamDeg(n, d) <= Tol}
      least == {n \in 1..Hi : \A m \in 1..Hi : SeamDeg(n, d) <= SeamDeg(m, d)}
  IN  Min(IF close # {} THEN close ELSE least)

\* encode_locked: one picture, turned on by d; encode: pictures as they are, for a
\* given number of revolutions or once through.
Locked(picture, d) == [base |-> <<picture>>, deg |-> d, frames |-> AutoLoopLen(d)]
Plain(pictures, frames) == [base |-> pictures, deg |-> 0, frames |-> frames]
=============================================================================
