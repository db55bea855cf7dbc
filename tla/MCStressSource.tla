--------------------------- MODULE MCStressSource ---------------------------
(***************************************************************************)
(* StressSource for TLC.  A ring of 8 bytes with blocks of 2 and of 3 bytes *)
(* gives a rate that divides the ring and one that does not, as the real    *)
(* rates do not divide 4096 bytes; the clock runs past the range limits and *)
(* past the wrap of the time.                                               *)
(***************************************************************************)
EXTENDS StressSource

MCBlockSizes == {0, 2, 3}
MCClock == 0 .. 33
=============================================================================
