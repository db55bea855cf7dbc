---------------------------- MODULE StressSource ----------------------------
(***************************************************************************)
(* The stress source of the online test: zy100_stress_source.c.            *)
(*                                                                         *)
(* A virtual producer owes one block of BlockBytes bytes for every Period  *)
(* that has elapsed since it began.  tick() pays the debt into a byte ring *)
(* that a writer empties, and latches an error, instead of dropping load,  *)
(* when the ring cannot take a block that is due.                          *)
(*                                                                         *)
(* A byte of the pattern is modelled by its offset in the stream: the      *)
(* generator computes it from that offset and the seed alone.              *)
(***************************************************************************)
EXTENDS Integers, FiniteSets

CONSTANTS
  BlockSizes,   \* bytes per period at each configurable rate; 0 is "no load"
  RingBytes,    \* ZY100_STRESS_RING_BYTES
  DelaySlots,   \* ZY100_STRESS_DELAY_SLOTS
  Period,       \* ZY100_STRESS_PERIOD_MS
  CountLimit,   \* UINT32_MAX, the largest byte count the source can hold
  TimeLimit,    \* 0x80000000, the elapsed time that is refused as a wrap
  TimeWord,     \* 2^32, where the clock of the processor wraps
  Clock         \* the true times since begin() at which tick() may be called

ASSUME SourceAssumption ==
  /\ BlockSizes \subseteq Nat
  /\ BlockSizes # {}
  /\ RingBytes \in Nat \ {0}
  /\ DelaySlots \in Nat \ {0}
  /\ Period \in Nat \ {0}
  /\ CountLimit \in Nat
  /\ TimeLimit \in Nat \ {0}
  /\ TimeWord \in Nat /\ TimeLimit <= TimeWord
  /\ Clock \subseteq Nat
  \* The delay table outlives the ring: a slot is reused only for a block that
  \* cannot be in the ring together with the block that owned it.
  /\ \A b \in BlockSizes : b = 0 \/ RingBytes < b * (DelaySlots + 1)

VARIABLES
  blockBytes,   \* rate / 50, fixed by begin()
  ring,         \* the byte ring, each cell holding the stream offset of its byte
  head,         \* index of the oldest byte
  used,         \* bytes in the ring
  generated, expected, consumed, rejected,
  delays,       \* slot -> lateness of a block, with the block it belongs to
  elapsed,      \* true time of the latest tick; elapsed_ms is what 32 bits keep of it
  sourceError,  \* the first error, one of Errors
  frozen        \* no more production

sourceVars == << blockBytes, ring, head, used, generated, expected, consumed,
                 rejected, delays, elapsed, sourceError, frozen >>

\* zy100_stress_error_t: the writer latches its errors in the same field.
Errors == {"none", "range", "ring_full",
           "reserve", "program", "verify", "commit", "owner"}

NoByte  == -1
NoDelay == [seq |-> -1, late |-> 0]

-----------------------------------------------------------------------------
(* zy100_stress_source_begin: memset and a rate that is in the table.        *)

SourceInit ==
  /\ blockBytes \in BlockSizes
  /\ ring = [i \in 0 .. RingBytes - 1 |-> NoByte]
  /\ head = 0
  /\ used = 0
  /\ generated = 0
  /\ expected = 0
  /\ consumed = 0
  /\ rejected = 0
  /\ delays = [i \in 0 .. DelaySlots - 1 |-> NoDelay]
  /\ elapsed = 0
  /\ sourceError = "none"
  /\ frozen = FALSE

-----------------------------------------------------------------------------
(* zy100_stress_source_tick at time t: elapsed_ms is a difference of clocks.  *)

ElapsedMs(t) == t % TimeWord

\* 64 bits wide, before the cast.
Due(e) == (e \div Period) * blockBytes

Expected(e) == Due(e) % (CountLimit + 1)

\* Mistake: the product is computed, and checked, in 32 bits.
OutOfRangeIn32Bits(e) == Expected(e) > CountLimit \/ e >= TimeLimit

OutOfRange(e) == Due(e) > CountLimit \/ e >= TimeLimit

\* Mistake: the check lets the ring overflow by one byte.
RoomPlusOne == RingBytes + 1 - used

Room == RingBytes - used

\* The while loop writes whole blocks until the debt is paid or one does not fit.
BlocksThatFit(e) ==
  IF blockBytes = 0 \/ Expected(e) <= generated THEN 0
  ELSE LET owed == (Expected(e) - generated) \div blockBytes
           fit  == Room \div blockBytes
       IN  IF owed <= fit THEN owed ELSE fit

\* The ring with the next n bytes of the stream stored behind the used ones.
RingAfter(n) ==
  LET Ahead(i) == (i - head - used) % RingBytes
  IN  [i \in 0 .. RingBytes - 1 |->
         IF Ahead(i) < n THEN generated + Ahead(i) ELSE ring[i]]

\* Mistake: a delay table one slot too small.
SlotOfFewer(seq) == seq % (DelaySlots - 1)

SlotOf(seq) == seq % DelaySlots

\* The delay table with the next n blocks entered: block seq was due seq + 1
\* periods after the start, and the latest block of a slot owns it.
DelaysAfter(n, e) ==
  LET first == IF blockBytes = 0 THEN 0 ELSE generated \div blockBytes
      last  == first + n - 1
      Owner(i) == last - SlotOf(last - i)
  IN  [i \in 0 .. DelaySlots - 1 |->
         IF Owner(i) < first THEN delays[i]
         ELSE [seq |-> Owner(i), late |-> e - (Owner(i) + 1) * Period]]

\* Mistake: what does not fit is dropped without an error.
NoErrorAfter(short) == sourceError

ErrorAfter(short) == IF short > 0 THEN "ring_full" ELSE sourceError

Produce(e) ==
  LET n == BlocksThatFit(e)
      bytes == n * blockBytes
      short == Expected(e) - generated - bytes
  IN  /\ expected' = Expected(e)
      /\ ring' = RingAfter(bytes)
      /\ delays' = DelaysAfter(n, e)
      /\ generated' = generated + bytes
      /\ used' = used + bytes
      /\ rejected' = IF short > 0 THEN short ELSE rejected
      /\ sourceError' = ErrorAfter(short)

Stopped == frozen \/ sourceError # "none"

\* What tick() does at time t; "freezing" is TRUE when freeze() is the caller.
TickBody(t, freezing) ==
  LET e == ElapsedMs(t) IN
  IF Stopped
  THEN /\ frozen' = (frozen \/ freezing)
       /\ UNCHANGED << ring, used, generated, expected, rejected, delays,
                       elapsed, sourceError >>
  ELSE IF OutOfRange(e)
  THEN /\ elapsed' = t
       /\ sourceError' = "range"
       /\ frozen' = TRUE
       /\ UNCHANGED << ring, used, generated, expected, rejected, delays >>
  ELSE /\ elapsed' = t
       /\ Produce(e)
       /\ frozen' = (freezing \/ sourceError' # "none")

\* The capture worker polls: 2^31 ms, 24 days, never pass between two ticks.
Later(t) == t >= elapsed /\ t - elapsed <= TimeWord - TimeLimit

Tick(t) ==
  /\ Later(t)
  /\ TickBody(t, FALSE)
  /\ UNCHANGED << blockBytes, head, consumed >>

\* zy100_stress_source_freeze: a last tick, then no more production.
Freeze(t) ==
  /\ Later(t)
  /\ TickBody(t, TRUE)
  /\ UNCHANGED << blockBytes, head, consumed >>

-----------------------------------------------------------------------------
(* The consumer side.                                                        *)

\* zy100_stress_source_copy: what the oldest n bytes are.
CopyOk(n) == n <= used
CopyOf(n) == [i \in 1 .. n |-> ring[(head + i - 1) % RingBytes]]

\* zy100_stress_source_header: accepted only at a block boundary, and it reads
\* the delay slots of the one or two blocks it describes.
HeaderOk(blocks) ==
  /\ blockBytes # 0
  /\ blocks \in 1 .. 2
  /\ consumed % blockBytes = 0
  /\ blocks * blockBytes <= used
HeaderSeq == consumed \div blockBytes
HeaderDelay(k) == delays[SlotOf(HeaderSeq + k)]

\* Mistake: consume() leaves the head where it was.
HeadKept(n) == head

HeadAfter(n) == (head + n) % RingBytes

\* zy100_stress_source_consume.
Consume(n) ==
  /\ n <= used
  /\ head' = HeadAfter(n)
  /\ used' = used - n
  /\ consumed' = consumed + n
  /\ UNCHANGED << blockBytes, ring, generated, expected, rejected, delays,
                  elapsed, sourceError, frozen >>

-----------------------------------------------------------------------------
(* The source alone, with a consumer that takes any number of bytes.         *)

Next ==
  \/ \E t \in Clock : Tick(t)
  \/ \E t \in Clock : Freeze(t)
  \/ \E n \in 1 .. RingBytes : Consume(n)

Spec == SourceInit /\ [][Next]_sourceVars

-----------------------------------------------------------------------------
(* Types of the variables of the source, in every state of the ring.         *)
SourceTypeOK ==
  /\ blockBytes \in BlockSizes
  /\ ring \in [0 .. RingBytes - 1 -> Nat \cup {NoByte}]
  /\ head \in 0 .. RingBytes - 1
  /\ used \in 0 .. RingBytes
  /\ generated \in Nat
  /\ expected \in Nat
  /\ consumed \in Nat
  /\ rejected \in Nat
  /\ delays \in [0 .. DelaySlots - 1 -> [seq : Nat \cup {-1}, late : Int]]
  /\ elapsed \in Nat
  /\ sourceError \in Errors
  /\ frozen \in BOOLEAN

\* The cursors agree: what was generated and not consumed is what the ring
\* holds, and the head is where the oldest unconsumed byte was put.
CursorsAgree ==
  /\ used = generated - consumed
  /\ head = consumed % RingBytes

\* Every byte between the two cursors is still in its cell: no tick overwrites
\* a byte that was not consumed, and copy() hands out the stream in order.
RingHoldsStream ==
  \A i \in 1 .. used : CopyOf(used)[i] = consumed + i - 1

\* "A full ring is an error condition rather than permission to silently reduce
\* the requested load" (docs/ARCHITECTURE.md): without an error everything that
\* was due is in the stream, and after one the shortfall is accounted for.
NoSilentReduction ==
  /\ sourceError = "none" => generated = expected
  /\ sourceError = "ring_full" => rejected = expected - generated /\ rejected > 0

\* The delays a record header reports are those of the blocks it carries, not
\* of later blocks that reused the slots.
HeaderDescribesItsBlocks ==
  \A n \in 1 .. 2 : HeaderOk(n) =>
    \A k \in 0 .. n - 1 : HeaderDelay(k).seq = HeaderSeq + k

\* The byte count and the elapsed time have 32 bits and the session does not
\* end by itself.  Until an error is latched neither has wrapped: the stream is
\* as long as the true time since begin() owes, to the block.
LoadFollowsClock == sourceError = "none" => generated = Due(elapsed)

-----------------------------------------------------------------------------
(* What the proofs carry from step to step, beyond the properties above.     *)

\* Production is by whole blocks and never ahead of the debt.
WholeBlocks ==
  /\ \E k \in Nat : generated = k * blockBytes
  /\ \E k \in Nat : expected = k * blockBytes
  /\ generated <= expected
  /\ sourceError = "none" => expected = Due(elapsed) /\ elapsed < TimeLimit

\* The cell of every unconsumed byte, by its place in the stream.
RingCells == \A x \in consumed .. generated - 1 : ring[x % RingBytes] = x

\* The latest DelaySlots blocks own their slots.
DelaysKept ==
  \A seq \in Nat :
    seq * blockBytes < generated /\ generated <= (seq + DelaySlots) * blockBytes
      => delays[seq % DelaySlots].seq = seq

SourceInv ==
  /\ SourceTypeOK
  /\ CursorsAgree
  /\ WholeBlocks
  /\ RingCells
  /\ DelaysKept
  /\ NoSilentReduction
=============================================================================
