------------------------ MODULE StressWriter_proofs ------------------------
(***************************************************************************)
(* The safety properties of the record writer, for every page and header   *)
(* size and every source SourceAssumption admits.                           *)
(*                                                                         *)
(* WriterInv adds to them the place of the cursor in the record, what the   *)
(* page buffer and the verified pages hold of the stream, and at which      *)
(* bytes a record may begin.                                                *)
(***************************************************************************)
EXTENDS StressWriter, StressSource_proofs, SequenceTheorems

-----------------------------------------------------------------------------
(* The pages of a record.                                                    *)

\* The page after k whole ones: what it takes of the record's data, and that the
\* cursor reaches RecordBytes exactly when no data is left.
LEMMA PageNumbers ==
  ASSUME WriterAssumption, NEW k, NEW offset, NEW size, AtPage(k, offset, size)
  PROVE  LET left  == size - DataBefore(offset)
             count == DataOnPage(offset, left)
             next  == offset + PageBytes
         IN  /\ PageBytes \in Nat \ {0} /\ HeaderBytes \in 1 .. PageBytes - 1
             /\ offset \in Nat /\ next = (k + 1) * PageBytes /\ next \in Nat \ {0}
             /\ offset = 0 <=> k = 0
             /\ DataBefore(offset) \in Nat
             /\ left \in Nat \ {0} /\ count \in 1 .. PageBytes /\ count <= left
             /\ k = 0 => count + HeaderBytes <= PageBytes
             /\ next = RecordBytes(size) => DataBefore(next) >= size /\ left - count = 0
             /\ next # RecordBytes(size) =>
                  DataBefore(next) < size /\ left - count = size - DataBefore(next)
  <1> DEFINE left  == size - DataBefore(offset)
             count == DataOnPage(offset, left)
             next  == offset + PageBytes
  <1>1. /\ PageBytes \in Nat \ {0} /\ HeaderBytes \in 1 .. PageBytes - 1
        /\ k \in Nat /\ size \in Nat /\ offset = k * PageBytes /\ DataBefore(offset) < size
    BY DEF WriterAssumption, AtPage
  <1>2. offset \in Nat /\ size \in Nat \ {0} BY <1>1 DEF DataBefore
  <1>3. next = (k + 1) * PageBytes BY <1>1
  <1>4. k # 0 => offset >= PageBytes
    <2>1. k # 0 => PageBytes * k >= PageBytes BY <1>1, MulGe
    <2>2. PageBytes * k = offset BY <1>1
    <2> QED BY <2>1, <2>2
  <1>5. k = 0 => offset = 0 BY <1>1
  <1> DEFINE n == (HeaderBytes + size + PageBytes - 1) \div PageBytes
  <1>6. /\ n \in Nat
        /\ n * PageBytes <= HeaderBytes + size + PageBytes - 1
        /\ HeaderBytes + size <= n * PageBytes
    <2> DEFINE a == HeaderBytes + size + PageBytes - 1
    <2>1. a \in Nat /\ a \in Int /\ PageBytes \in Nat \ {0} BY <1>1, <1>2
    <2>2. a = PageBytes * n + (a % PageBytes) /\ a % PageBytes \in 0 .. PageBytes - 1
      BY ONLY <2>1, DivModDef
    <2>3. n \in Nat /\ n * PageBytes <= a BY <1>1, <2>1, DivNat
    <2>4. PageBytes * n = n * PageBytes BY <1>1, <2>3
    <2> HIDE DEF n
    <2> QED BY <1>1, <2>1, <2>2, <2>3, <2>4
  <1>7. RecordBytes(size) = n * PageBytes BY DEF RecordBytes
  <1> HIDE DEF n, left, count, next
  <1>8. DataBefore(offset) = IF offset = 0 THEN 0 ELSE offset - HeaderBytes
    BY DEF DataBefore
  <1>9. DataBefore(offset) < size /\ left = size - DataBefore(offset)
        /\ count = DataOnPage(offset, left) /\ next = offset + PageBytes
    BY <1>1 DEF left, count, next
  <1>10. /\ DataBefore(offset) \in Nat /\ left \in Nat \ {0}
         /\ count = IF PageBytes - (IF offset = 0 THEN HeaderBytes ELSE 0) < left
                    THEN PageBytes - (IF offset = 0 THEN HeaderBytes ELSE 0) ELSE left
    BY <1>1, <1>2, <1>4, <1>5, <1>8, <1>9 DEF DataOnPage
  <1>11. DataBefore(next) = next - HeaderBytes /\ next \in Nat \ {0}
    BY <1>1, <1>2, <1>9 DEF DataBefore
  <1>12. k + 1 <= n
    <2> SUFFICES ASSUME n <= k PROVE FALSE BY <1>1, <1>6
    <2>1. n * PageBytes <= offset BY <1>1, <1>6, MulMono
    <2> QED BY <1>1, <1>2, <1>4, <1>5, <1>6, <1>8, <1>9, <2>1
  <1>13. next # RecordBytes(size) => next + PageBytes <= n * PageBytes
    <2>1. next # RecordBytes(size) => k + 2 <= n BY <1>1, <1>3, <1>6, <1>7, <1>12
    <2>2. k + 2 <= n => (k + 2) * PageBytes <= n * PageBytes BY <1>1, <1>6, MulMono
    <2>3. (k + 2) * PageBytes = next + PageBytes BY <1>1, <1>3
    <2> QED BY <2>1, <2>2, <2>3
  <1>14. n * PageBytes \in Nat BY <1>1, <1>6
  <1>15. next = RecordBytes(size) => DataBefore(next) >= size /\ left - count = 0
    BY <1>1, <1>2, <1>4, <1>5, <1>6, <1>7, <1>8, <1>9, <1>10, <1>11, <1>14
  <1>16. next # RecordBytes(size) =>
           DataBefore(next) < size /\ left - count = size - DataBefore(next)
    BY <1>1, <1>2, <1>4, <1>5, <1>6, <1>8, <1>9, <1>10, <1>11, <1>13, <1>14
  <1>17. count \in 1 .. PageBytes /\ count <= left /\ (k = 0 => count + HeaderBytes <= PageBytes)
    BY <1>1, <1>2, <1>5, <1>10
  <1>18. offset = 0 <=> k = 0 BY <1>1, <1>4, <1>5
  <1> QED BY <1>1, <1>2, <1>3, <1>10, <1>11, <1>15, <1>16, <1>17, <1>18
      DEF left, count, next

\* A function on 1 .. n is a sequence of n elements.
LEMMA FunctionIsSeq ==
  ASSUME NEW S, NEW n \in Nat, NEW f \in [1 .. n -> S]
  PROVE  f \in Seq(S) /\ Len(f) = n
  <1>1. f \in Seq(S) BY SeqDef
  <1> QED BY <1>1, LenProperties

\* What copy() returns is a sequence of that many bytes of the stream.
LEMMA CopyCarriesStream ==
  ASSUME SourceAssumption, SourceInv, NEW n \in Nat, CopyOk(n)
  PROVE  CopyOf(n) \in Seq(Int) /\ CarriesStream(CopyOf(n), consumed, n)
  <1>1. n <= used BY DEF CopyOk
  <1>2. \A i \in 1 .. n : CopyOf(n)[i] = consumed + i - 1 BY <1>1, CopyIsStream
  <1>3. consumed \in Nat BY SourceNumbers
  <1>4. DOMAIN CopyOf(n) = 1 .. n /\ CopyOf(n) = [i \in 1 .. n |-> CopyOf(n)[i]]
    BY DEF CopyOf
  <1>5. CopyOf(n) \in [1 .. n -> Int] BY <1>2, <1>3, <1>4
  <1> QED BY <1>2, <1>5, FunctionIsSeq DEF CarriesStream

\* An accepted header names the blocks it is written for.
LEMMA HeaderNamesBlocks ==
  ASSUME SourceAssumption, SourceInv, NEW blocks \in Nat, HeaderOk(blocks)
  PROVE  /\ HeaderFor(blocks) \in Headers
         /\ NamesBlocks(HeaderFor(blocks), consumed, blocks * blockBytes)
  <1>1. /\ blockBytes \in Nat \ {0} /\ DelaySlots \in Nat \ {0} /\ consumed \in Nat
        /\ consumed % blockBytes = 0 /\ blocks \in 1 .. 2
    BY SourceNumbers DEF HeaderOk
  <1>2. PICK c \in Nat : c = HeaderSeq BY <1>1, DivNat DEF HeaderSeq
  <1>3. c * blockBytes = consumed
    <2>1. consumed = blockBytes * (consumed \div blockBytes) + (consumed % blockBytes)
      <3>1. consumed \in Int /\ blockBytes \in Nat \ {0} BY <1>1
      <3> QED BY ONLY <3>1, DivModDef
    <2> QED BY <1>1, <1>2, <2>1 DEF HeaderSeq
  <1>4. \A k \in 0 .. blocks - 1 : HeaderDelay(k).seq = c + k
    BY <1>1, <1>2, HeaderIsTrue DEF HeaderDescribesItsBlocks
  <1>5. \A k \in 0 .. blocks - 1 : HeaderDelay(k) \in [seq : Int, late : Int]
    <2> SUFFICES ASSUME NEW k \in 0 .. blocks - 1
                 PROVE HeaderDelay(k) \in [seq : Int, late : Int]
      OBVIOUS
    <2>1. SlotOf(HeaderSeq + k) \in 0 .. DelaySlots - 1
      <3>1. c + k \in Int BY <1>1
      <3>2. (c + k) % DelaySlots \in 0 .. DelaySlots - 1 BY <1>1, <3>1, DivModDef
      <3> QED BY <1>2, <3>2 DEF SlotOf
    <2>2. delays \in [0 .. DelaySlots - 1 -> [seq : Nat \cup {-1}, late : Int]]
      BY DEF SourceInv, SourceTypeOK
    <2>3. delays[SlotOf(HeaderSeq + k)] \in [seq : Nat \cup {-1}, late : Int]
      BY <2>1, <2>2
    <2> QED BY <2>3 DEF HeaderDelay
  <1> DEFINE late == [k \in 1 .. blocks |-> HeaderDelay(k - 1)]
  <1>6. late \in Seq([seq : Int, late : Int])
    <2>1. ASSUME NEW k \in 1 .. blocks PROVE k - 1 \in 0 .. blocks - 1 BY <1>1
    <2>2. late \in [1 .. blocks -> [seq : Int, late : Int]] BY <1>5, <2>1
    <2> HIDE DEF late
    <2> QED BY <1>1, <2>2, FunctionIsSeq
  <1>7. HeaderFor(blocks) = [seq |-> c, blocks |-> blocks, late |-> late]
    BY <1>2 DEF HeaderFor
  <1>8. \A k \in 1 .. blocks : late[k].seq = c + k - 1
    <2> TAKE k \in 1 .. blocks
    <2>1. k - 1 \in 0 .. blocks - 1 /\ c + (k - 1) = c + k - 1 BY <1>1
    <2> QED BY <1>4, <2>1
  <1> HIDE DEF late
  <1>9. HeaderFor(blocks) \in Headers BY <1>6, <1>7 DEF Headers
  <1> QED BY <1>3, <1>7, <1>8, <1>9 DEF NamesBlocks

-----------------------------------------------------------------------------
(* Steps that leave the record where it is.                                  *)

\* fail() stops the source and changes nothing else of it.
LEMMA FailKeepsSource ==
  ASSUME SourceInv, NEW error \in {"owner", "reserve", "program", "verify", "commit"},
         WriterFails(error), sourceError = "none"
  PROVE  SourceInv' /\ frozen'
  <1>1. /\ sourceError' = error /\ frozen' = TRUE
        /\ UNCHANGED << blockBytes, ring, head, used, generated, expected, consumed,
                        rejected, delays, elapsed >>
    BY DEF WriterFails, Fail
  <1>2. SourceTypeOK' BY <1>1 DEF SourceInv, SourceTypeOK, Errors
  <1> QED BY <1>1, <1>2 DEF SourceInv, CursorsAgree, WholeBlocks, RingCells, DelaysKept,
                           NoSilentReduction

\* Whatever the source and the session do, short of a release, the record and
\* its pages stay what they were.
LEMMA RecordKept ==
  ASSUME WriterInv, SourceInv', stage # "released", stage' \in {"running", "finishing"},
         discard' \in BOOLEAN, UNCHANGED << recordVars, committed, log, blockBytes, consumed >>,
         frozen => frozen' /\ generated' = generated
  PROVE  WriterInv'
  <1>1. UNCHANGED << phase, recordData, dataLeft, pageOffset, pageData, prepared, page,
                     verified, committed, log, blockBytes, consumed >>
    BY DEF recordVars
  <1>2. WriterTypeOK' BY <1>1 DEF WriterInv, WriterTypeOK, SourceInv, SourceTypeOK
  <1>3. PagesTyped' BY <1>1 DEF WriterInv, PagesTyped
  <1>4. CursorInv' BY <1>1 DEF WriterInv, CursorInv
  <1>5. RecordInv' BY <1>1 DEF WriterInv, RecordInv
  <1>6. PageInv' BY <1>1 DEF WriterInv, PageInv, PageOf, CarriesStream, NamesBlocks
  <1>7. ReleasedBytesAreStored' BY <1>1 DEF WriterInv, ReleasedBytesAreStored
  <1>8. LogIsStream' BY <1>1 DEF WriterInv, LogIsStream
  <1>9. CleanReleaseIsComplete' BY DEF CleanReleaseIsComplete
  <1> QED BY <1>2, <1>3, <1>4, <1>5, <1>6, <1>7, <1>8, <1>9 DEF WriterInv

\* A tick, or the last one of the freeze.
LEMMA TickKeepsFrozen ==
  ASSUME NEW e, NEW freezing \in BOOLEAN, SourceInv, TickBody(e, freezing)
  PROVE  frozen => frozen' /\ generated' = generated
  BY DEF TickBody, Stopped

LEMMA StressTickInv ==
  ASSUME SourceAssumption, WriterInv, NEW e \in Nat, StressTick(e)
  PROVE  WriterInv'
  <1>1. SourceInv BY DEF WriterInv
  <1>2. Tick(e) /\ stage # "released" /\ UNCHANGED << recordVars, committed, log, stage, discard >>
    BY DEF StressTick, writerVars
  <1>3. /\ Later(e) /\ TickBody(e, FALSE)
        /\ UNCHANGED << blockBytes, head, consumed >>
    BY <1>2 DEF Tick
  <1>4. SourceInv' BY <1>1, <1>3, TickBodyInv
  <1>5. frozen => frozen' /\ generated' = generated BY <1>1, <1>3, TickKeepsFrozen
  <1>6. stage' \in {"running", "finishing"} /\ discard' \in BOOLEAN
    BY <1>2 DEF WriterInv, WriterTypeOK
  <1> QED BY <1>2, <1>3, <1>4, <1>5, <1>6, RecordKept

LEMMA FinishBeginInv ==
  ASSUME SourceAssumption, WriterInv, NEW e \in Nat, NEW discardTail \in BOOLEAN,
         FinishBegin(e, discardTail)
  PROVE  WriterInv'
  <1>1. SourceInv BY DEF WriterInv
  <1>2. /\ Freeze(e) /\ stage = "running" /\ stage' = "finishing"
        /\ discard' = (discard \/ discardTail)
        /\ UNCHANGED << recordVars, committed, log >>
    BY DEF FinishBegin
  <1>3. /\ Later(e) /\ TickBody(e, TRUE)
        /\ UNCHANGED << blockBytes, head, consumed >>
    BY <1>2 DEF Freeze
  <1>4. SourceInv' BY <1>1, <1>3, TickBodyInv
  <1>5. frozen => frozen' /\ generated' = generated BY <1>1, <1>3, TickKeepsFrozen
  <1>6. discard' \in BOOLEAN BY <1>2 DEF WriterInv, WriterTypeOK
  <1> QED BY <1>2, <1>3, <1>4, <1>5, <1>6, RecordKept

\* An error elsewhere, or the finish timeout: the tail will be discarded.
LEMMA DiscardInv ==
  ASSUME WriterInv, CaptureError \/ FinishTimeout
  PROVE  WriterInv'
  <1>1. /\ stage # "released" /\ discard' = TRUE
        /\ UNCHANGED << sourceVars, recordVars, committed, log, stage >>
    BY DEF CaptureError, FinishTimeout
  <1>2. UNCHANGED << blockBytes, ring, head, used, generated, expected, consumed,
                     rejected, delays, elapsed, sourceError, frozen >>
    BY <1>1 DEF sourceVars
  <1>3. SourceInv'
    BY <1>2 DEF WriterInv, SourceInv, SourceTypeOK, CursorsAgree, WholeBlocks, Due,
                RingCells, DelaysKept, NoSilentReduction
  <1>4. stage' \in {"running", "finishing"} BY <1>1 DEF WriterInv, WriterTypeOK
  <1> QED BY <1>1, <1>2, <1>3, <1>4, RecordKept

\* A failure of the reservation, of a readback or of the commit.
LEMMA StepFailsInv ==
  ASSUME WriterInv, WriterLives, NEW error \in {"reserve", "verify", "commit"},
         WriterFails(error), UNCHANGED recordVars
  PROVE  WriterInv'
  <1>1. SourceInv' /\ frozen' BY FailKeepsSource DEF WriterInv, WriterLives
  <1>2. UNCHANGED << blockBytes, consumed, generated, committed, log, stage, discard >>
    BY DEF WriterFails
  <1>3. stage # "released" /\ stage' \in {"running", "finishing"} /\ discard' \in BOOLEAN
    BY <1>2 DEF WriterInv, WriterTypeOK, WriterLives
  <1> QED BY <1>1, <1>2, <1>3, RecordKept

\* The end of the session: a clean one has an empty ring and no record open.
LEMMA ReleaseInv ==
  ASSUME SourceAssumption, WriterInv, Release
  PROVE  WriterInv'
  <1>1. /\ stage = "finishing" /\ stage' = "released" /\ phase' = "idle"
        /\ discard' = (discard \/ sourceError # "none")
        /\ discard \/ sourceError # "none" \/ ~Pending
        /\ UNCHANGED << sourceVars, recordData, dataLeft, pageOffset, pageData, prepared,
                        page, verified, committed, log >>
    BY DEF Release
  <1>2. UNCHANGED << blockBytes, ring, head, used, generated, expected, consumed,
                     rejected, delays, elapsed, sourceError, frozen >>
    BY <1>1 DEF sourceVars
  <1>3. SourceInv'
    BY <1>2 DEF WriterInv, SourceInv, SourceTypeOK, CursorsAgree, WholeBlocks, Due,
                RingCells, DelaysKept, NoSilentReduction
  <1>4. WriterTypeOK' BY <1>1, <1>2 DEF WriterInv, WriterTypeOK
  <1>5. PagesTyped' BY <1>1 DEF WriterInv, PagesTyped
  <1>6. CursorInv' BY <1>1 DEF WriterInv, CursorInv
  <1>7. RecordInv' BY <1>1, <1>2 DEF WriterInv, RecordInv
  <1>8. PageInv' BY <1>1 DEF PageInv
  <1>9. /\ consumed \in Nat /\ committed \in Nat /\ recordData \in Nat
        /\ dataLeft \in 0 .. recordData
        /\ consumed = committed + (IF phase = "idle" THEN 0 ELSE recordData - dataLeft)
    BY <1>1, SourceNumbers
       DEF WriterInv, WriterTypeOK, CursorInv, ReleasedBytesAreStored
  <1>10. ReleasedBytesAreStored' BY <1>1, <1>2, <1>9 DEF ReleasedBytesAreStored
  <1>11. LogIsStream' BY <1>1, <1>2 DEF WriterInv, LogIsStream
  <1>12. CleanReleaseIsComplete'
    <2> SUFFICES ASSUME ~discard'
                 PROVE used = 0 /\ committed = consumed /\ committed = generated
                       /\ committed = expected
      BY <1>1, <1>2 DEF CleanReleaseIsComplete
    <2>1. sourceError = "none" /\ used = 0 /\ phase = "idle" BY <1>1 DEF Pending
    <2>2. generated \in Nat /\ used = generated - consumed BY SourceNumbers DEF WriterInv
    <2>3. generated = expected BY <2>1 DEF WriterInv, SourceInv, NoSilentReduction
    <2> QED BY <1>9, <2>1, <2>2, <2>3
  <1> QED BY <1>3, <1>4, <1>5, <1>6, <1>7, <1>8, <1>10, <1>11, <1>12 DEF WriterInv

\* begin() establishes the invariant.
LEMMA WriterInitInv ==
  ASSUME SourceAssumption, WriterAssumption, WriterInit
  PROVE  WriterInv
  <1>1. SourceInv BY SourceInitInv DEF WriterInit
  <1>2. /\ PageBytes \in Nat \ {0} /\ HeaderBytes \in 1 .. PageBytes - 1
        /\ blockBytes \in Nat /\ consumed = 0
    BY <1>1, SourceNumbers DEF WriterAssumption, WriterInit, SourceInit
  <1>3. NoPage \in Pages /\ Len(NoPage.data) = 0 /\ NoPage.header = NoHeader
    <2>1. << >> \in Seq(Int) /\ << >> \in Seq([seq : Int, late : Int]) /\ Len(<< >>) = 0
      BY EmptySeq
    <2> QED BY <2>1 DEF NoPage, NoHeader, Pages, Headers
  <1>4. << >> \in Seq(Pages) /\ Len(<< >>) = 0 BY EmptySeq
  <1>5. WriterTypeOK
    <2>1. blockBytes \in BlockSizes /\ used \in 0 .. RingBytes /\ sourceError \in Errors
      BY <1>1 DEF SourceInv, SourceTypeOK
    <2>2. (IF page.header = NoHeader THEN 0 ELSE HeaderBytes) + Len(page.data) <= PageBytes
      BY <1>2, <1>3 DEF WriterInit
    <2>3. /\ phase = "idle" /\ recordData = 0 /\ dataLeft = 0 /\ pageOffset = 0
          /\ pageData = 0 /\ prepared = FALSE /\ stage = "running" /\ discard = FALSE
      BY DEF WriterInit
    <2>4. dataLeft \in 0 .. recordData /\ pageData \in 0 .. PageBytes /\ pageOffset \in Nat
      BY <1>2, <2>3
    <2> QED BY <2>1, <2>2, <2>3, <2>4 DEF WriterTypeOK
  <1>6. PagesTyped BY <1>3, <1>4 DEF WriterInit, PagesTyped
  <1>7. CursorInv BY DEF WriterInit, CursorInv
  <1>8. RecordInv BY <1>2, <1>4 DEF WriterInit, RecordInv
  <1>9. PageInv BY DEF WriterInit, PageInv
  <1>10. ReleasedBytesAreStored BY <1>2 DEF WriterInit, ReleasedBytesAreStored
  <1>11. LogIsStream BY <1>4 DEF WriterInit, LogIsStream
  <1>12. CleanReleaseIsComplete BY DEF WriterInit, CleanReleaseIsComplete
  <1> QED BY <1>1, <1>5, <1>6, <1>7, <1>8, <1>9, <1>10, <1>11, <1>12 DEF WriterInv

-----------------------------------------------------------------------------
(* The steps that move a record on.                                          *)

\* A page is built, if it has to be, and handed to the spool.  The hypotheses
\* place the page behind the verified ones of a record that begins at committed.
LEMMA WritePageInv ==
  ASSUME SourceAssumption, WriterAssumption, WriterInv, WriterLives, blockBytes # 0,
         NEW data \in Nat, NEW left, NEW offset, NEW built \in BOOLEAN,
         NEW pages \in Seq(Pages), verified' = pages,
         WritePage(data, left, offset, built),
         offset = Len(pages) * PageBytes, DataBefore(offset) < data,
         left = data - DataBefore(offset),
         consumed = committed + DataBefore(offset),
         committed = Len(log) * (2 * blockBytes),
         \/ data = 2 * blockBytes
         \/ data = blockBytes /\ frozen /\ committed + data = generated,
         built => /\ pageData = DataOnPage(offset, left)
                  /\ PageOf(page, offset, committed, data),
         \A p \in 1 .. Len(pages) : PageOf(pages[p], (p - 1) * PageBytes, committed, data)
  PROVE  WriterInv'
  <1> DEFINE blocks == data \div blockBytes
             count == IF built THEN pageData ELSE DataOnPage(offset, left)
             buildable == built \/ ((offset = 0 => HeaderOk(blocks)) /\ CopyOk(count))
             content == IF built THEN page
                        ELSE [header |-> IF offset = 0 THEN HeaderFor(blocks) ELSE NoHeader,
                              data |-> CopyOf(count)]
  <1>1. SourceInv /\ sourceError = "none" /\ stage # "released"
    BY DEF WriterInv, WriterLives
  <1>2. /\ blockBytes \in Nat \ {0} /\ consumed \in Nat /\ generated \in Nat
    BY <1>1, SourceNumbers
  <1>3. committed \in Nat /\ pageData \in Nat BY DEF WriterInv, CursorInv
  <1>4. blocks \in 1 .. 2 /\ data = blocks * blockBytes /\ data \in Nat \ {0}
    <2>1. (2 * blockBytes) \div blockBytes = 2 /\ (1 * blockBytes) \div blockBytes = 1
      BY <1>2, DivOfMultiple
    <2>2. blockBytes = 1 * blockBytes /\ 2 * blockBytes \in Nat \ {0} BY <1>2
    <2>3. CASE data = 2 * blockBytes
      <3>1. blocks = 2 BY <2>1, <2>3
      <3> HIDE DEF blocks
      <3> QED BY <2>2, <2>3, <3>1
    <2>4. CASE data = blockBytes
      <3>1. blocks = 1 BY <2>1, <2>2, <2>4
      <3> HIDE DEF blocks
      <3> QED BY <1>2, <2>2, <2>4, <3>1
    <2> QED BY <2>3, <2>4
  <1>5. PICK k \in Nat : k = Len(pages) BY LenProperties
  <1>6. /\ PageBytes \in Nat \ {0} /\ HeaderBytes \in 1 .. PageBytes - 1
        /\ offset \in Nat /\ (offset = 0 <=> k = 0) /\ DataBefore(offset) \in Nat
        /\ left \in Nat \ {0}
        /\ DataOnPage(offset, left) \in 1 .. PageBytes
        /\ k = 0 => DataOnPage(offset, left) + HeaderBytes <= PageBytes
    <2>1. AtPage(k, offset, data) /\ left = data - DataBefore(offset)
      BY <1>5 DEF AtPage
    <2> QED BY ONLY WriterAssumption, <2>1, PageNumbers
  <1>7. offset = 0 => consumed = committed
    <2>1. consumed = committed + DataBefore(offset) OBVIOUS
    <2>2. offset = 0 => consumed = committed BY ONLY <1>3, <2>1 DEF DataBefore
    <2> QED BY <2>2
  <1>8. /\ recordData' = data /\ dataLeft' = left /\ pageOffset' = offset
        /\ phase' \in {"write", "read"} /\ prepared' \in BOOLEAN
        /\ phase' = "read" => prepared'
        /\ prepared' => buildable /\ pageData' = count /\ page' = content
        /\ ~prepared' => pageData' = pageData /\ page' = page
    BY DEF WritePage
  <1>9. UNCHANGED sourceVars \/ WriterFails("owner") \/ WriterFails("program")
    BY DEF WritePage
  <1>10. UNCHANGED << committed, log, stage, discard >>
    BY DEF WritePage, WriterFails
  <1>11. SourceInv' /\ (frozen => frozen')
    <2>1. CASE UNCHANGED sourceVars
      <3>1. UNCHANGED << blockBytes, ring, head, used, generated, expected, consumed,
                         rejected, delays, elapsed, sourceError, frozen >>
        BY <2>1 DEF sourceVars
      <3> QED BY <1>1, <3>1 DEF SourceInv, SourceTypeOK, CursorsAgree, WholeBlocks, Due,
                                RingCells, DelaysKept, NoSilentReduction
    <2>2. CASE WriterFails("owner") \/ WriterFails("program") BY <1>1, <2>2, FailKeepsSource
    <2> QED BY <1>9, <2>1, <2>2
  <1>12. UNCHANGED << blockBytes, consumed, generated >>
    BY <1>9 DEF sourceVars, WriterFails
  <1>13. buildable =>
           /\ count = DataOnPage(offset, left)
           /\ PageOf(content, offset, committed, data)
           /\ content \in Pages
           /\ (IF content.header = NoHeader THEN 0 ELSE HeaderBytes) + Len(content.data)
                <= PageBytes
    <2>1. CASE built BY <2>1 DEF WriterInv, PagesTyped, WriterTypeOK
    <2>2. CASE ~built /\ buildable
      <3>1. count = DataOnPage(offset, left) /\ count \in Nat BY <1>6, <2>2
      <3>2. /\ CopyOf(count) \in Seq(Int)
            /\ CarriesStream(CopyOf(count), committed + DataBefore(offset), count)
        BY <1>1, <2>2, <3>1, CopyCarriesStream
      <3>3. Len(CopyOf(count)) = count BY <3>2 DEF CarriesStream
      <3>4. ASSUME offset = 0
            PROVE /\ HeaderFor(blocks) \in Headers
                  /\ NamesBlocks(HeaderFor(blocks), committed, data)
        <4>1. HeaderOk(blocks) /\ blocks \in Nat BY <1>4, <2>2, <3>4
        <4>2. consumed = committed BY <1>7, <3>4
        <4> QED BY <1>1, <1>4, <4>1, <4>2, HeaderNamesBlocks
      <3>5. NoHeader \in Headers
        <4>1. << >> \in Seq([seq : Int, late : Int]) BY EmptySeq
        <4> QED BY <4>1 DEF NoHeader, Headers
      <3> DEFINE header == IF offset = 0 THEN HeaderFor(blocks) ELSE NoHeader
                 bytes == CopyOf(count)
      <3>6. content = [header |-> header, data |-> bytes] BY <2>2
      <3>7. header \in Headers /\ (offset = 0 => NamesBlocks(header, committed, data))
            /\ (offset # 0 => header = NoHeader)
        BY <3>4, <3>5
      <3> HIDE DEF header, bytes
      <3>8. content.header = header /\ content.data = bytes /\ content \in Pages
        BY <3>2, <3>6, <3>7 DEF Pages, bytes
      <3> HIDE DEF content, count
      <3>9. PageOf(content, offset, committed, data)
        BY <3>1, <3>2, <3>7, <3>8 DEF PageOf, bytes
      <3>10. Len(content.data) = DataOnPage(offset, left) BY <3>1, <3>3, <3>8 DEF bytes
      <3> QED BY <1>6, <3>1, <3>7, <3>8, <3>9, <3>10
    <2> QED BY <2>1, <2>2
  <1> HIDE DEF blocks, count, buildable, content
  <1>14. WriterTypeOK'
    <2>1. blockBytes' \in BlockSizes /\ used' \in 0 .. RingBytes /\ sourceError' \in Errors
      BY <1>11 DEF SourceInv, SourceTypeOK
    <2>2. dataLeft' \in 0 .. recordData'
      BY <1>4, <1>6, <1>8
    <2>3. pageData' \in 0 .. PageBytes
      <3>1. pageData \in 0 .. PageBytes BY DEF WriterInv, WriterTypeOK
      <3>2. prepared' => pageData' \in 1 .. PageBytes BY <1>6, <1>8, <1>13
      <3> QED BY <1>6, <1>8, <3>1, <3>2
    <2>4. (IF page'.header = NoHeader THEN 0 ELSE HeaderBytes) + Len(page'.data) <= PageBytes
      BY <1>8, <1>13 DEF WriterInv, WriterTypeOK
    <2>5. stage' \in {"running", "finishing", "released"} /\ discard' \in BOOLEAN
      BY <1>10 DEF WriterInv, WriterTypeOK
    <2> QED BY <1>6, <1>8, <2>1, <2>2, <2>3, <2>4, <2>5 DEF WriterTypeOK
  <1>15. PagesTyped' BY <1>8, <1>10, <1>13 DEF WriterInv, PagesTyped
  <1>16. CursorInv'
    <2>1. recordData' \in Nat /\ committed' \in Nat BY <1>3, <1>8, <1>10
    <2>2. pageData' \in Nat
      <3>1. prepared' => pageData' \in 1 .. PageBytes BY <1>6, <1>8, <1>13
      <3> QED BY <1>3, <1>6, <1>8, <3>1
    <2>3. AtPage(Len(verified), pageOffset, recordData)'
          /\ dataLeft' = recordData' - DataBefore(pageOffset')
      BY <1>5, <1>8 DEF AtPage
    <2> QED BY <1>8, <2>1, <2>2, <2>3 DEF CursorInv
  <1>17. RecordInv' BY <1>8, <1>10, <1>11, <1>12 DEF RecordInv
  <1>18. PageInv'
    <2>1. prepared' => /\ pageData' = DataOnPage(pageOffset, dataLeft)'
                       /\ PageOf(page', offset, committed, data)
      BY <1>8, <1>13
    <2> QED BY <1>8, <1>10, <1>12, <2>1 DEF PageInv, PageOf, NamesBlocks
  <1>19. ReleasedBytesAreStored'
    BY <1>1, <1>2, <1>3, <1>4, <1>6, <1>8, <1>10, <1>12 DEF ReleasedBytesAreStored
  <1>20. LogIsStream' BY <1>10, <1>12 DEF WriterInv, LogIsStream
  <1>21. CleanReleaseIsComplete' BY <1>1, <1>10 DEF CleanReleaseIsComplete
  <1> QED BY <1>11, <1>14, <1>15, <1>16, <1>17, <1>18, <1>19, <1>20, <1>21 DEF WriterInv

\* What a record in progress means for the stream.
LEMMA InProgress ==
  ASSUME WriterInv, phase # "idle", WriterLives
  PROVE  /\ SourceInv /\ blockBytes # 0 /\ committed = Len(log) * (2 * blockBytes)
         /\ \/ recordData = 2 * blockBytes
            \/ recordData = blockBytes /\ frozen /\ committed + recordData = generated
         /\ recordData \in Nat /\ committed \in Nat /\ dataLeft \in 0 .. recordData
         /\ consumed = committed + (recordData - dataLeft)
         /\ page \in Pages /\ verified \in Seq(Pages) /\ log \in Seq(Pages)
  BY DEF WriterInv, WriterLives, RecordInv, CursorInv, WriterTypeOK, PagesTyped,
         ReleasedBytesAreStored

\* A record is started with its first page, or its reservation is refused.
LEMMA StartRecordInv ==
  ASSUME SourceAssumption, WriterAssumption, WriterInv, StartRecord
  PROVE  WriterInv'
  <1>1. WriterLives /\ phase = "idle" /\ blockBytes # 0 /\ RecordDue BY DEF StartRecord
  <1>2. CASE WriterFails("reserve") /\ UNCHANGED recordVars BY <1>1, <1>2, StepFailsInv
  <1>3. CASE /\ WritePage(RecordBlocks * blockBytes, RecordBlocks * blockBytes, 0, FALSE)
             /\ verified' = << >>
    <2>1. SourceInv /\ consumed = committed /\ committed \in Nat
      BY <1>1 DEF WriterInv, ReleasedBytesAreStored, CursorInv, WriterLives
    <2>2. /\ blockBytes \in Nat \ {0} /\ used \in Nat /\ used = generated - consumed
          /\ generated \in Nat
      BY <1>1, <2>1, SourceNumbers
    <2>3. PICK held \in Nat : held = BlocksHeld /\ held * blockBytes <= used
      BY <2>2, DivNat DEF BlocksHeld
    <2>4. held >= 2 \/ (frozen /\ held = 1) BY <1>1, <2>3 DEF RecordDue
    <2>5. committed = Len(log) * (2 * blockBytes)
      <3>1. held # 0 => used # 0
        <4>1. 0 \div blockBytes = 0
          <5>1. (0 * blockBytes) \div blockBytes = 0 /\ 0 * blockBytes = 0
            BY <2>2, DivOfMultiple
          <5> QED BY <5>1
        <4> QED BY <2>3, <4>1 DEF BlocksHeld
      <3>2. generated # committed BY <2>1, <2>2, <2>4, <3>1
      <3> QED BY <1>1, <3>2 DEF WriterInv, RecordInv
    <2> DEFINE data == RecordBlocks * blockBytes
    <2>6. data \in Nat \ {0}
          /\ \/ data = 2 * blockBytes
             \/ data = blockBytes /\ frozen /\ committed + data = generated
      <3>1. CASE held >= 2
        <4>1. RecordBlocks = 2 BY <2>3, <3>1 DEF RecordBlocks
        <4> QED BY <2>2, <4>1
      <3>2. CASE frozen /\ held = 1
        <4>1. RecordBlocks = 1 BY <2>3, <3>2 DEF RecordBlocks
        <4>2. data = blockBytes BY <2>2, <4>1
        <4>3. used = blockBytes
          <5>1. PICK k \in Nat : generated = k * blockBytes
            BY <2>1 DEF SourceInv, WholeBlocks
          <5>2. PICK l \in Nat : l = Len(log)
            BY LenProperties DEF WriterInv, PagesTyped
          <5>3. committed = (2 * l) * blockBytes BY <2>2, <2>5, <5>2
          <5>4. used = (k - 2 * l) * blockBytes BY <2>1, <2>2, <5>1, <5>3
          <5>5. k - 2 * l = 1
            <6>1. used \div blockBytes = k - 2 * l BY <2>2, <5>4, DivOfMultiple
            <6> QED BY <2>3, <3>2, <6>1 DEF BlocksHeld
          <5> QED BY <2>2, <5>4, <5>5
        <4> HIDE DEF data
        <4> QED BY <2>1, <2>2, <3>2, <4>2, <4>3
      <3> QED BY <2>4, <3>1, <3>2
    <2>7. PICK pages \in Seq(Pages) : verified' = pages /\ Len(pages) = 0
      BY <1>3, EmptySeq
    <2>8. DataBefore(0) = 0 BY DEF DataBefore
    <2>9. WritePage(data, data, 0, FALSE) BY <1>3
    <2> HIDE DEF data
    <2>10. /\ 0 = Len(pages) * PageBytes /\ DataBefore(0) < data /\ data = data - DataBefore(0)
           /\ consumed = committed + DataBefore(0)
      BY <2>1, <2>6, <2>7, <2>8 DEF WriterAssumption
    <2>11. \A p \in 1 .. Len(pages) : PageOf(pages[p], (p - 1) * PageBytes, committed, data)
      BY <2>7
    <2> QED BY <1>1, <2>5, <2>6, <2>7, <2>9, <2>10, <2>11, WritePageInv
  <1> QED BY <1>2, <1>3 DEF StartRecord

\* The write phase goes on with the page at the cursor.
LEMMA ContinuePageInv ==
  ASSUME SourceAssumption, WriterAssumption, WriterInv, ContinuePage
  PROVE  WriterInv'
  <1>1. /\ WriterLives /\ phase = "write" /\ verified' = verified
        /\ WritePage(recordData, dataLeft, pageOffset, prepared)
    BY DEF ContinuePage
  <1>2. /\ SourceInv /\ blockBytes # 0 /\ committed = Len(log) * (2 * blockBytes)
        /\ \/ recordData = 2 * blockBytes
           \/ recordData = blockBytes /\ frozen /\ committed + recordData = generated
        /\ recordData \in Nat /\ committed \in Nat /\ dataLeft \in 0 .. recordData
        /\ consumed = committed + (recordData - dataLeft) /\ verified \in Seq(Pages)
    BY <1>1, InProgress
  <1>3. AtPage(Len(verified), pageOffset, recordData)
        /\ dataLeft = recordData - DataBefore(pageOffset)
    BY <1>1 DEF WriterInv, CursorInv
  <1>4. DataBefore(pageOffset) \in Nat BY WriterAssumption, <1>3, PageNumbers
  <1>5. consumed = committed + DataBefore(pageOffset) BY ONLY <1>2, <1>3, <1>4
  <1>6. pageOffset = Len(verified) * PageBytes /\ DataBefore(pageOffset) < recordData
    BY <1>3 DEF AtPage
  <1>7. prepared \in BOOLEAN BY DEF WriterInv, WriterTypeOK
  <1>8. /\ prepared => /\ pageData = DataOnPage(pageOffset, dataLeft)
                       /\ PageOf(page, pageOffset, committed, recordData)
        /\ \A p \in 1 .. Len(verified) :
             PageOf(verified[p], (p - 1) * PageBytes, committed, recordData)
    BY <1>1 DEF WriterInv, PageInv
  <1> QED BY <1>1, <1>2, <1>3, <1>5, <1>6, <1>7, <1>8, WritePageInv

\* A page that reads back as it was programmed releases its bytes and moves the
\* cursor to the next page, or to the commit when it was the last one.
LEMMA VerifyPageInv ==
  ASSUME SourceAssumption, WriterAssumption, WriterInv, VerifyPage
  PROVE  WriterInv'
  <1>1. /\ WriterLives /\ phase = "read"
        /\ UNCHANGED << recordData, pageData, page, committed, log, stage, discard >>
    BY DEF VerifyPage
  <1>2. CASE WriterFails("verify") /\ UNCHANGED recordVars BY <1>1, <1>2, StepFailsInv
  <1>3. CASE /\ Consume(pageData)
             /\ dataLeft' = dataLeft - pageData
             /\ pageOffset' = pageOffset + PageBytes
             /\ prepared' = FALSE
             /\ verified' = Append(verified, page)
             /\ phase' = IF pageOffset' = RecordBytes(recordData) THEN "commit" ELSE "write"
    <2>1. /\ SourceInv /\ blockBytes # 0 /\ committed = Len(log) * (2 * blockBytes)
          /\ \/ recordData = 2 * blockBytes
             \/ recordData = blockBytes /\ frozen /\ committed + recordData = generated
          /\ recordData \in Nat /\ committed \in Nat /\ dataLeft \in 0 .. recordData
          /\ consumed = committed + (recordData - dataLeft) /\ consumed \in Nat
          /\ page \in Pages /\ verified \in Seq(Pages) /\ log \in Seq(Pages)
      BY <1>1, InProgress, SourceNumbers
    <2>2. /\ AtPage(Len(verified), pageOffset, recordData)
          /\ dataLeft = recordData - DataBefore(pageOffset)
      BY <1>1 DEF WriterInv, CursorInv
    <2>3. /\ pageData = DataOnPage(pageOffset, dataLeft)
          /\ PageOf(page, pageOffset, committed, recordData)
      BY <1>1 DEF WriterInv, CursorInv, PageInv
    <2>4. PICK k \in Nat : k = Len(verified) BY <2>1, LenProperties
    <2>5. /\ PageBytes \in Nat \ {0} /\ pageOffset \in Nat
          /\ pageOffset' = (k + 1) * PageBytes /\ pageOffset' \in Nat \ {0}
          /\ pageData \in 1 .. PageBytes /\ pageData <= dataLeft
          /\ pageOffset' = RecordBytes(recordData) =>
               DataBefore(pageOffset') >= recordData /\ dataLeft' = 0
          /\ pageOffset' # RecordBytes(recordData) =>
               /\ DataBefore(pageOffset') < recordData
               /\ dataLeft' = recordData - DataBefore(pageOffset')
      <3>1. dataLeft' = dataLeft - pageData /\ pageOffset' = pageOffset + PageBytes BY <1>3
      <3> QED BY ONLY WriterAssumption, <2>2, <2>3, <2>4, <3>1, PageNumbers
    <2>6. /\ Consume(pageData) /\ consumed' = consumed + pageData
          /\ UNCHANGED << blockBytes, generated, frozen >>
      BY <1>3 DEF Consume
    <2>7. SourceInv'
      <3>1. SourceInv /\ pageData \in Nat /\ Consume(pageData) BY <2>1, <2>5, <2>6
      <3> QED BY ONLY SourceAssumption, <3>1, ConsumeInv
    <2>8. dataLeft' \in Nat /\ dataLeft' <= recordData /\ dataLeft' = dataLeft - pageData
      BY <1>3, <2>1, <2>5
    <2>9. /\ verified' \in Seq(Pages) /\ Len(verified') = k + 1
          /\ \A p \in 1 .. k : verified'[p] = verified[p]
          /\ verified'[k + 1] = page
      BY <1>3, <2>1, <2>4, AppendProperties
    <2>10. WriterTypeOK'
      <3>1. blockBytes' \in BlockSizes /\ used' \in 0 .. RingBytes /\ sourceError' \in Errors
        BY <2>7 DEF SourceInv, SourceTypeOK
      <3>2. dataLeft' \in 0 .. recordData' /\ pageData' \in 0 .. PageBytes
            /\ pageOffset' \in Nat
        BY <1>1, <2>1, <2>5, <2>8
      <3>3. phase' \in {"idle", "write", "read", "commit"} /\ prepared' \in BOOLEAN BY <1>3
      <3> QED BY <1>1, <3>1, <3>2, <3>3 DEF WriterInv, WriterTypeOK
    <2>11. PagesTyped' BY <1>1, <2>9 DEF WriterInv, PagesTyped
    <2>12. CursorInv'
      <3>1. recordData' \in Nat /\ pageData' \in Nat /\ committed' \in Nat
        BY <1>1, <2>1, <2>5
      <3>2. CASE pageOffset' = RecordBytes(recordData)
        <4>1. phase' = "commit" BY <1>3, <3>2
        <4> QED BY <1>1, <2>5, <2>9, <3>1, <3>2, <4>1 DEF CursorInv
      <3>3. CASE pageOffset' # RecordBytes(recordData)
        <4>1. phase' = "write" BY <1>3, <3>3
        <4>2. AtPage(Len(verified), pageOffset, recordData)'
          BY <1>1, <2>1, <2>5, <2>9, <3>3 DEF AtPage
        <4> QED BY <1>1, <2>5, <3>1, <3>3, <4>1, <4>2 DEF CursorInv
      <3> QED BY <3>2, <3>3
    <2>13. phase' \in {"write", "commit"} BY <1>3
    <2>14. RecordInv' BY <1>1, <2>1, <2>6, <2>13 DEF RecordInv
    <2>15. PageInv'
      <3> SUFFICES ASSUME NEW p \in 1 .. k + 1
                   PROVE PageOf(verified[p], (p - 1) * PageBytes, committed, recordData)'
        BY <1>1, <1>3, <2>9 DEF PageInv
      <3>1. PageOf(verified'[p], (p - 1) * PageBytes, committed, recordData)
        <4>1. CASE p \in 1 .. k
          <5>1. \A m \in 1 .. k : PageOf(verified[m], (m - 1) * PageBytes, committed, recordData)
            BY <1>1, <2>4 DEF WriterInv, PageInv
          <5> QED BY <2>9, <4>1, <5>1
        <4>2. CASE p = k + 1
          <5>1. (p - 1) * PageBytes = pageOffset BY <2>2, <2>4, <4>2 DEF AtPage
          <5> QED BY <2>3, <2>9, <4>2, <5>1
        <4> QED BY <4>1, <4>2
      <3> QED BY <1>1, <2>6, <3>1 DEF PageOf, NamesBlocks
    <2>16. ReleasedBytesAreStored'
      <3>1. consumed' = committed + (recordData - dataLeft')
        BY ONLY <2>1, <2>5, <2>6, <2>8
      <3>2. stage' # "released" BY <1>1 DEF WriterLives
      <3> QED BY <1>1, <2>13, <3>1, <3>2 DEF ReleasedBytesAreStored
    <2>17. LogIsStream' BY <1>1, <2>6 DEF WriterInv, LogIsStream
    <2>18. CleanReleaseIsComplete' BY <1>1 DEF CleanReleaseIsComplete, WriterLives
    <2> QED BY <2>7, <2>10, <2>11, <2>12, <2>14, <2>15, <2>16, <2>17, <2>18 DEF WriterInv
  <1>4. \A got : ReadBackMatches(got) => got = page BY DEF ReadBackMatches
  <1> QED BY <1>2, <1>3, <1>4 DEF VerifyPage, ReleasedByPage

\* The pages of a complete record put together: its bytes in order, under the
\* header of its first page.
LEMMA RecordReadIsStream ==
  ASSUME SourceAssumption, WriterAssumption, WriterInv, WriterLives, phase = "commit"
  PROVE  /\ RecordRead \in Pages
         /\ CarriesStream(RecordRead.data, committed, recordData)
         /\ NamesBlocks(RecordRead.header, committed, recordData)
  <1>1. /\ recordData \in Nat /\ committed \in Nat /\ verified \in Seq(Pages)
    BY InProgress
  <1>2. /\ pageOffset = Len(verified) * PageBytes /\ pageOffset # 0
        /\ DataBefore(pageOffset) >= recordData
    BY DEF WriterInv, CursorInv
  <1>3. PageBytes \in Nat \ {0} /\ HeaderBytes \in 1 .. PageBytes - 1 BY DEF WriterAssumption
  <1>4. PICK k \in Nat : k = Len(verified) BY <1>1, LenProperties
  <1>5. k >= 1 /\ k * PageBytes - HeaderBytes >= recordData /\ k * PageBytes \in Nat
    BY <1>2, <1>3, <1>4 DEF DataBefore
  <1>6. \A p \in 1 .. k : PageOf(verified[p], (p - 1) * PageBytes, committed, recordData)
    BY <1>4 DEF WriterInv, PageInv
  <1>7. \A p \in 1 .. k : verified[p] \in Pages BY <1>1, <1>4, ElementOfSeq
  <1> DEFINE one == verified[1]
  <1>8. PageOf(one, 0, committed, recordData) /\ one \in Pages
    <2>1. (1 - 1) * PageBytes = 0 BY <1>3
    <2> QED BY <1>5, <1>6, <1>7, <2>1
  <1>9. /\ NamesBlocks(one.header, committed, recordData)
        /\ Len(one.data) = DataOnPage(0, recordData)
        /\ \A i \in 1 .. Len(one.data) : one.data[i] = committed + i - 1
    <2>1. DataBefore(0) = 0 BY DEF DataBefore
    <2>2. committed + DataBefore(0) = committed /\ recordData - DataBefore(0) = recordData
      BY ONLY <1>1, <2>1
    <2> HIDE DEF one
    <2> QED BY <1>8, <2>2 DEF PageOf, CarriesStream
  <1>10. Len(one.data) = (IF PageBytes - HeaderBytes < recordData
                          THEN PageBytes - HeaderBytes ELSE recordData)
    BY <1>9 DEF DataOnPage
  <1> HIDE DEF one
  <1> DEFINE Byte(i) ==
               IF i <= Len(one.data) THEN one.data[i]
               ELSE LET j == i - Len(one.data) - 1
                    IN  verified[2 + (j \div PageBytes)].data[1 + (j % PageBytes)]
  <1>11. ASSUME NEW i \in 1 .. recordData PROVE Byte(i) = committed + i - 1
    <2>1. CASE i <= Len(one.data)
      <3>1. i \in 1 .. Len(one.data) BY <1>1, <1>3, <1>10, <2>1
      <3> QED BY <1>9, <2>1, <3>1
    <2>2. CASE ~(i <= Len(one.data))
      <3>1. Len(one.data) = PageBytes - HeaderBytes BY <1>1, <1>3, <1>10, <2>2
      <3>2. PICK j \in Nat : j = i - Len(one.data) - 1 BY <1>1, <1>3, <2>2, <3>1
      <3>3. PICK q \in Nat : q = j \div PageBytes BY <1>3, DivNat
      <3>4. PICK r \in 0 .. PageBytes - 1 : r = j % PageBytes
        <4>1. j \in Int BY <3>2
        <4> QED BY <1>3, <4>1, DivModDef
      <3>5. j = PageBytes * q + r
        <4>1. j \in Int BY <3>2
        <4>2. j = PageBytes * (j \div PageBytes) + (j % PageBytes) BY <1>3, <4>1, DivModDef
        <4> QED BY <3>3, <3>4, <4>2
      <3>6. i = (q + 1) * PageBytes - HeaderBytes + r + 1
        <4>1. (q + 1) * PageBytes = PageBytes * q + PageBytes BY <1>3
        <4>2. PageBytes * q \in Nat BY <1>3
        <4> QED BY ONLY <1>3, <3>1, <3>2, <3>4, <3>5, <4>1, <4>2, i \in Int
      <3> DEFINE offset == (q + 1) * PageBytes
      <3>7. offset \in Nat \ {0}
        <4>1. (q + 1) * PageBytes = PageBytes * (q + 1) /\ (q + 1) * PageBytes \in Nat BY <1>3
        <4>2. PageBytes * (q + 1) >= PageBytes BY <1>3, MulGe
        <4> QED BY <1>3, <4>1, <4>2
      <3>8. q + 2 <= k
        <4> SUFFICES ASSUME k <= q + 1 PROVE FALSE BY <1>4
        <4>1. k * PageBytes <= offset BY <1>3, MulMono
        <4> HIDE DEF offset
        <4> QED BY <1>1, <1>3, <1>5, <3>4, <3>6, <3>7, <4>1 DEF offset
      <3>9. PageOf(verified[2 + q], offset, committed, recordData)
        <4>1. 2 + q \in 1 .. k /\ (2 + q) - 1 = q + 1 BY <3>8
        <4> QED BY <1>6, <4>1
      <3> HIDE DEF offset
      <3>10. DataBefore(offset) = offset - HeaderBytes BY <3>7 DEF DataBefore
      <3>11. i = offset - HeaderBytes + r + 1 BY <3>6 DEF offset
      <3>12. 1 + r \in 1 .. DataOnPage(offset, recordData - DataBefore(offset))
        <4>1. DataOnPage(offset, recordData - DataBefore(offset))
                = IF PageBytes < recordData - DataBefore(offset)
                  THEN PageBytes ELSE recordData - DataBefore(offset)
          BY <1>3, <3>7 DEF DataOnPage
        <4> QED BY <1>1, <1>3, <3>4, <3>7, <3>10, <3>11, <4>1
      <3>13. verified[2 + q].data[1 + r] = committed + DataBefore(offset) + (1 + r) - 1
        BY <3>9, <3>12 DEF PageOf, CarriesStream
      <3>14. Byte(i) = verified[2 + q].data[1 + r] BY <2>2, <3>2, <3>3, <3>4
      <3> HIDE DEF Byte
      <3> QED BY <1>1, <1>3, <3>4, <3>7, <3>10, <3>11, <3>13, <3>14
    <2> QED BY <2>1, <2>2
  <1>12. RecordRead = [header |-> one.header, data |-> [i \in 1 .. recordData |-> Byte(i)]]
    BY DEF RecordRead, one
  <1> HIDE DEF Byte
  <1> DEFINE bytes == [i \in 1 .. recordData |-> Byte(i)]
  <1>13. /\ bytes \in [1 .. recordData -> Int]
         /\ \A i \in 1 .. recordData : bytes[i] = committed + i - 1
    BY <1>1, <1>11
  <1> HIDE DEF bytes
  <1>14. bytes \in Seq(Int) /\ Len(bytes) = recordData BY <1>1, <1>13, FunctionIsSeq
  <1>15. RecordRead = [header |-> one.header, data |-> bytes] BY <1>12 DEF bytes
  <1> QED BY <1>8, <1>9, <1>13, <1>14, <1>15 DEF Pages, CarriesStream

\* The commit appends the record to the log, where the last one ended.
LEMMA CommitRecordInv ==
  ASSUME SourceAssumption, WriterAssumption, WriterInv, CommitRecord
  PROVE  WriterInv'
  <1>1. /\ WriterLives /\ phase = "commit" /\ phase' = "idle"
        /\ committed' = committed + recordData /\ log' = Append(log, RecordRead)
        /\ UNCHANGED << sourceVars, recordData, dataLeft, pageOffset, pageData, prepared,
                        page, verified, stage, discard >>
    BY DEF CommitRecord
  <1>2. UNCHANGED << blockBytes, ring, head, used, generated, expected, consumed,
                     rejected, delays, elapsed, sourceError, frozen >>
    BY <1>1 DEF sourceVars
  <1>3. /\ SourceInv /\ blockBytes # 0 /\ committed = Len(log) * (2 * blockBytes)
        /\ \/ recordData = 2 * blockBytes
           \/ recordData = blockBytes /\ frozen /\ committed + recordData = generated
        /\ recordData \in Nat /\ committed \in Nat /\ dataLeft = 0
        /\ consumed = committed + (recordData - dataLeft)
        /\ log \in Seq(Pages)
    BY <1>1, InProgress DEF WriterInv, CursorInv
  <1>4. /\ RecordRead \in Pages
        /\ CarriesStream(RecordRead.data, committed, recordData)
        /\ NamesBlocks(RecordRead.header, committed, recordData)
    BY <1>1, RecordReadIsStream
  <1>5. blockBytes \in Nat BY <1>3, SourceNumbers
  <1>6. PICK n \in Nat : n = Len(log) BY <1>3, LenProperties
  <1>7. /\ log' \in Seq(Pages) /\ Len(log') = n + 1 /\ log'[n + 1] = RecordRead
        /\ \A m \in 1 .. n : log'[m] = log[m]
    BY <1>1, <1>3, <1>4, <1>6, AppendProperties
  <1>8. SourceInv'
    BY <1>2, <1>3 DEF SourceInv, SourceTypeOK, CursorsAgree, WholeBlocks, Due,
                      RingCells, DelaysKept, NoSilentReduction
  <1>9. WriterTypeOK' BY <1>1, <1>2 DEF WriterInv, WriterTypeOK
  <1>10. PagesTyped' BY <1>1, <1>7 DEF WriterInv, PagesTyped
  <1>11. CursorInv' BY <1>1, <1>3 DEF WriterInv, CursorInv
  <1>12. RecordInv'
    <2>1. CASE recordData = 2 * blockBytes
      <3>1. committed' = (n + 1) * (2 * blockBytes) BY <1>1, <1>3, <1>5, <1>6, <2>1
      <3> QED BY <1>1, <1>2, <1>7, <3>1 DEF RecordInv
    <2>2. CASE frozen /\ committed + recordData = generated
      BY <1>1, <1>2, <2>2 DEF RecordInv
    <2> QED BY <1>3, <2>1, <2>2
  <1>13. PageInv' BY <1>1 DEF PageInv
  <1>14. ReleasedBytesAreStored'
    <2>1. consumed' = committed' BY <1>1, <1>2, <1>3
    <2>2. stage' # "released" /\ committed' + 0 = committed' BY <1>1, <1>3 DEF WriterLives
    <2> QED BY <1>1, <2>1, <2>2 DEF ReleasedBytesAreStored
  <1>15. LogIsStream'
    <2> DEFINE Good(r, start) ==
                 /\ r.data = [i \in 1 .. Len(r.data) |-> start + i - 1]
                 /\ Len(r.data) = r.header.blocks * blockBytes
                 /\ r.header.seq * blockBytes = start
                 /\ \A k \in 1 .. r.header.blocks : r.header.late[k].seq = r.header.seq + k - 1
    <2>1. \A m \in 1 .. n : Good(log[m], (m - 1) * 2 * blockBytes)
      BY <1>6 DEF WriterInv, LogIsStream
    <2>2. Good(RecordRead, committed)
      <3>1. RecordRead.data \in Seq(Int) /\ Len(RecordRead.data) = recordData
        BY <1>4 DEF Pages, CarriesStream
      <3>2. RecordRead.data \in [1 .. recordData -> Int] BY <3>1, LenProperties
      <3>3. \A i \in 1 .. recordData : RecordRead.data[i] = committed + i - 1
        BY <1>4 DEF CarriesStream
      <3>4. RecordRead.data = [i \in 1 .. recordData |-> committed + i - 1]
        BY <3>2, <3>3
      <3> QED BY <1>4, <3>1, <3>4 DEF NamesBlocks
    <2>3. committed = ((n + 1) - 1) * 2 * blockBytes BY <1>3, <1>5, <1>6
    <2> HIDE DEF Good
    <2>4. \A m \in 1 .. n + 1 : Good(log'[m], (m - 1) * 2 * blockBytes)
      <3> SUFFICES ASSUME NEW m \in 1 .. n + 1
                   PROVE Good(log'[m], (m - 1) * 2 * blockBytes)
        OBVIOUS
      <3>1. CASE m \in 1 .. n BY <1>7, <2>1, <3>1
      <3>2. CASE m = n + 1 BY <1>7, <2>2, <2>3, <3>2
      <3> QED BY <3>1, <3>2
    <2> QED BY <1>2, <1>7, <2>4 DEF LogIsStream, Good
  <1>16. CleanReleaseIsComplete' BY <1>1 DEF CleanReleaseIsComplete, WriterLives
  <1> QED BY <1>8, <1>9, <1>10, <1>11, <1>12, <1>13, <1>14, <1>15, <1>16 DEF WriterInv

-----------------------------------------------------------------------------
(* The theorems.                                                             *)

\* A step of the writer and of what surrounds it, or a stutter, preserves the
\* invariant.
LEMMA WriterNextInv ==
  ASSUME SourceAssumption, WriterAssumption, WriterInv, [WriterNext]_vars
  PROVE  WriterInv'
  <1>1. Clock \subseteq Nat BY DEF SourceAssumption
  <1>2. ASSUME NEW e \in Clock, StressTick(e) PROVE WriterInv'
    BY <1>1, <1>2, StressTickInv
  <1>3. ASSUME NEW e \in Clock, NEW discardTail \in BOOLEAN, FinishBegin(e, discardTail)
        PROVE WriterInv'
    BY <1>1, <1>3, FinishBeginInv
  <1>4. CASE StartRecord BY <1>4, StartRecordInv
  <1>5. CASE ContinuePage BY <1>5, ContinuePageInv
  <1>6. CASE VerifyPage BY <1>6, VerifyPageInv
  <1>7. CASE CommitRecord BY <1>7, CommitRecordInv
  <1>8. CASE CommitFails BY <1>8, StepFailsInv DEF CommitFails
  <1>9. CASE CaptureError \/ FinishTimeout BY <1>9, DiscardInv
  <1>10. CASE Release BY <1>10, ReleaseInv
  <1>11. CASE UNCHANGED vars
    <2>1. UNCHANGED << blockBytes, ring, head, used, generated, expected, consumed,
                       rejected, delays, elapsed, sourceError, frozen >>
          /\ UNCHANGED << phase, recordData, dataLeft, pageOffset, pageData, prepared, page,
                          verified, committed, log, stage, discard >>
      BY <1>11 DEF vars, sourceVars, writerVars, recordVars
    <2>2. SourceInv'
      BY <2>1 DEF WriterInv, SourceInv, SourceTypeOK, CursorsAgree, WholeBlocks, Due,
                  RingCells, DelaysKept, NoSilentReduction
    <2>3. WriterTypeOK' /\ PagesTyped' /\ CursorInv' /\ RecordInv'
      BY <2>1 DEF WriterInv, WriterTypeOK, PagesTyped, CursorInv, RecordInv
    <2>4. PageInv' BY <2>1 DEF WriterInv, PageInv, PageOf, CarriesStream, NamesBlocks
    <2>5. ReleasedBytesAreStored' /\ LogIsStream' /\ CleanReleaseIsComplete'
      BY <2>1 DEF WriterInv, ReleasedBytesAreStored, LogIsStream, CleanReleaseIsComplete
    <2> QED BY <2>2, <2>3, <2>4, <2>5 DEF WriterInv
  <1> QED BY <1>2, <1>3, <1>4, <1>5, <1>6, <1>7, <1>8, <1>9, <1>10, <1>11 DEF WriterNext

\* The inductive invariant of the writer together with its source.
THEOREM WriterInvariant == WriterSpec => []WriterInv
  <1>1. WriterInit => WriterInv
    BY SourceAssumption, WriterAssumption, WriterInitInv
  <1>2. WriterInv /\ [WriterNext]_vars => WriterInv'
    BY SourceAssumption, WriterAssumption, WriterNextInv
  <1> QED BY <1>1, <1>2, PTL DEF WriterSpec

\* Every variable keeps its type and no page is built larger than a Flash page.
THEOREM WriterTypeCorrect == WriterSpec => []WriterTypeOK
  <1>1. WriterInv => WriterTypeOK BY DEF WriterInv
  <1> QED BY <1>1, WriterInvariant, PTL

\* Whatever the spool answers and wherever errors, timeouts and ticks fall, the
\* committed records are the stream from its first byte, without a gap, a
\* repetition or a header of other blocks.
THEOREM CommittedRecordsAreTheStream == WriterSpec => []LogIsStream
  <1>1. WriterInv => LogIsStream BY DEF WriterInv
  <1> QED BY <1>1, WriterInvariant, PTL

\* A byte leaves the ring only when the page that carries it was read back.
THEOREM OnlyStoredBytesAreReleased == WriterSpec => []ReleasedBytesAreStored
  <1>1. WriterInv => ReleasedBytesAreStored BY DEF WriterInv
  <1> QED BY <1>1, WriterInvariant, PTL

\* A session that ends clean has committed everything that was due.
THEOREM CleanReleaseStoresAll == WriterSpec => []CleanReleaseIsComplete
  <1>1. WriterInv => CleanReleaseIsComplete BY DEF WriterInv
  <1> QED BY <1>1, WriterInvariant, PTL
=============================================================================
