--------------------------- MODULE MCStressWriter ---------------------------
(***************************************************************************)
(* StressWriter for TLC.  A ring of 8 bytes; with pages of 3 bytes and a    *)
(* header of 1, a pair of 2-byte blocks takes two pages and a pair of       *)
(* 3-byte blocks three, the last one partly filled; an odd block takes one  *)
(* or two.  The clock lets eight blocks be due: the ring wraps, an odd      *)
(* block may remain at the freeze, and the ring overflows when the writer   *)
(* is kept waiting.                                                         *)
(***************************************************************************)
EXTENDS StressWriter

MCBlockSizes == {0, 2, 3}
MCClock == 0 .. 9
=============================================================================
