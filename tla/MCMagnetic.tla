----------------------------- MODULE MCMagnetic -----------------------------
(***************************************************************************)
(* A small instance of Magnetic: numbers of two digits, and cards that     *)
(* carry the three sentinels, the digits 4 and 9, and one character of    *)
(* the wrong parity.  9 is the LRC of a track without digits, and 13, the  *)
(* field separator, that of a track with the one digit 4.                  *)
(***************************************************************************)
EXTENDS Magnetic

Even(c) == Cardinality({k \in 0..3 : DataBit(c, k) = 1}) % 2 = 0

\* The five bits of a character with the right parity.
Encode(c) == [k \in 1..5 |-> IF k < 5 THEN DataBit(c, k - 1)
                             ELSE IF Even(c) THEN 1 ELSE 0]

MCSymbols == {Encode(c) : c \in {SS, FS, ES, 4, 9}}
               \cup {[Encode(4) EXCEPT ![5] = 1 - @]}
=============================================================================
