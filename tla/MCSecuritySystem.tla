-------------------------- MODULE MCSecuritySystem --------------------------
(***************************************************************************)
(* A small instance of SecuritySystem.  Two slots: one with a number, one  *)
(* empty, as the list is compiled.                                         *)
(***************************************************************************)
EXTENDS SecuritySystem

MCFirstDigit == {0, 4}
MCOtherDigits == {0, 6}

MCInitCards == [s \in Slot |-> IF s = 1 THEN [head |-> 4, tail |-> 6] ELSE NullId]
=============================================================================
