--------------------------- MODULE MCSmtpSession ---------------------------
(***************************************************************************)
(* A small mail: chunks of one byte, and a picture (chunk 9) larger than   *)
(* the send buffer.                                                        *)
(***************************************************************************)
EXTENDS SmtpSession

MCChunkLen == [c \in Chunk |-> IF c = 9 THEN 3 ELSE 1]
=============================================================================
