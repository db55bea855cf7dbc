---------------------------- MODULE StressWriter ----------------------------
(***************************************************************************)
(* The record writer of the online test: zy100_online_stress.c.            *)
(*                                                                         *)
(* One call of write_step() is one action.  It moves a record through       *)
(* reserve, page program, page readback and commit, releasing the bytes of  *)
(* the source ring page by page as each page is verified.  Ticks of the     *)
(* source come between any two calls.  The answers of the Flash spool are   *)
(* an environment here: any answer its interface allows, at any call.       *)
(***************************************************************************)
EXTENDS StressSource, Sequences

CONSTANTS
  PageBytes,    \* GD25Q32E_PAGE_BYTES
  HeaderBytes   \* ZY100_STRESS_HEADER_BYTES

ASSUME WriterAssumption ==
  /\ PageBytes \in Nat \ {0}
  /\ HeaderBytes \in 1 .. PageBytes - 1

VARIABLES
  phase,        \* "idle", "write", "read" (readback), "commit"
  recordData,   \* data bytes of the record being written
  dataLeft,     \* of those, not yet verified
  pageOffset,   \* offset of the current page in the record
  pageData,     \* data bytes on the current page
  prepared,     \* the page buffer holds the current page
  page,         \* the page buffer
  verified,     \* pages of this record that were read back
  committed,    \* data bytes of committed records
  log,          \* the committed records, as read back
  stage,        \* "running", "finishing" (raw_capture_finish), "released"
  discard       \* the tail is to be dropped: asked for, or an error elsewhere

recordVars == << phase, recordData, dataLeft, pageOffset, pageData, prepared,
                 page, verified >>
writerVars == << recordVars, committed, log, stage, discard >>
vars == << sourceVars, writerVars >>

NoHeader == [seq |-> -1, blocks |-> 0, late |-> << >>]
NoPage   == [header |-> NoHeader, data |-> << >>]

WriterInit ==
  /\ SourceInit
  /\ phase = "idle"
  /\ recordData = 0 /\ dataLeft = 0 /\ pageOffset = 0 /\ pageData = 0
  /\ prepared = FALSE
  /\ page = NoPage
  /\ verified = << >>
  /\ committed = 0
  /\ log = << >>
  /\ stage = "running"
  /\ discard = FALSE

-----------------------------------------------------------------------------
(* Errors and shapes.                                                        *)

\* fail(): the first error is kept, and production stops.
Fail(error) ==
  /\ sourceError' = IF sourceError = "none" THEN error ELSE sourceError
  /\ frozen' = TRUE

WriterFails(error) ==
  /\ Fail(error)
  /\ UNCHANGED << blockBytes, ring, head, used, generated, expected, consumed,
                  rejected, delays, elapsed, committed, log, stage, discard >>

BlocksHeld == used \div blockBytes

\* Mistake: the last odd block of a frozen source is never written.
PairOnly == BlocksHeld >= 2

\* A pair of blocks makes a record; a single one does only after the freeze.
RecordDue == BlocksHeld >= 2 \/ (frozen /\ BlocksHeld = 1)

RecordBlocks == IF BlocksHeld > 2 THEN 2 ELSE BlocksHeld

\* Header and data, rounded up to whole pages.
RecordBytes(data) ==
  ((HeaderBytes + data + PageBytes - 1) \div PageBytes) * PageBytes

\* Mistake: the data of the header's page is counted as if it had no header.
FullPageData(offset, left) == IF PageBytes < left THEN PageBytes ELSE left

\* How many of the "left" data bytes go on the page at "offset".
DataOnPage(offset, left) ==
  LET space == PageBytes - (IF offset = 0 THEN HeaderBytes ELSE 0)
  IN  IF space < left THEN space ELSE left

\* What zy100_stress_source_header writes for a record of that many blocks.
HeaderFor(blocks) ==
  [seq |-> HeaderSeq, blocks |-> blocks,
   late |-> [k \in 1 .. blocks |-> HeaderDelay(k - 1)]]

-----------------------------------------------------------------------------
(* zy100_online_stress_write_step.                                           *)

\* The write phase at (data, left, offset): build the page unless it is built,
\* then hand it to the spool.
WritePage(data, left, offset, built) ==
  LET blocks == data \div blockBytes
      count  == IF built THEN pageData ELSE DataOnPage(offset, left)
      buildable == built \/ ((offset = 0 => HeaderOk(blocks)) /\ CopyOk(count))
      content == IF built THEN page
                 ELSE [header |-> IF offset = 0 THEN HeaderFor(blocks) ELSE NoHeader,
                       data |-> CopyOf(count)]
  IN  /\ recordData' = data
      /\ dataLeft' = left
      /\ pageOffset' = offset
      /\ \/ /\ ~buildable
            /\ phase' = "write"
            /\ prepared' = FALSE
            /\ UNCHANGED << pageData, page >>
            /\ WriterFails("owner")
         \/ /\ buildable
            /\ pageData' = count
            /\ page' = content
            /\ prepared' = TRUE
            /\ \/ /\ phase' = "read"            \* programmed
                  /\ UNCHANGED << sourceVars, committed, log, stage, discard >>
               \/ /\ phase' = "write"           \* BUSY
                  /\ UNCHANGED << sourceVars, committed, log, stage, discard >>
               \/ /\ phase' = "write"           \* the spool refuses or fails
                  /\ WriterFails("program")

\* A latched error ends the writer at the next call, in whatever phase it is.
WriterLives == stage # "released" /\ sourceError = "none" /\ ~discard

\* Idle: start a record when one is due.  A reservation that is granted runs on
\* into the first page; one that is refused leaves everything for the next call.
StartRecord ==
  /\ WriterLives
  /\ phase = "idle"
  /\ blockBytes # 0
  /\ RecordDue
  /\ \/ /\ WritePage(RecordBlocks * blockBytes, RecordBlocks * blockBytes, 0, FALSE)
        /\ verified' = << >>
     \/ /\ WriterFails("reserve")
        /\ UNCHANGED recordVars

ContinuePage ==
  /\ WriterLives
  /\ phase = "write"
  /\ WritePage(recordData, dataLeft, pageOffset, prepared)
  /\ UNCHANGED verified

\* Mistake: the whole record is released with its first page.
ReleaseRecord == recordData

\* "Only verified bytes are reusable": what a verified page releases.
ReleasedByPage == pageData

\* Mistake: a read-back page is accepted without comparing it.
AcceptAnyRead(got) == TRUE

\* memcmp of the page buffer with what was read.
ReadBackMatches(got) == got = page

\* A page with the right layout and the wrong bytes.
Corrupted(good) == [good EXCEPT !.data = [i \in DOMAIN good.data |-> NoByte]]

\* Readback: the spool returns what the Flash holds, which may not be the page.
VerifyPage ==
  /\ WriterLives
  /\ phase = "read"
  /\ UNCHANGED << recordData, pageData, page, committed, log, stage, discard >>
  /\ \/ \E got \in {page, Corrupted(page)} :
          IF ReadBackMatches(got)
          THEN /\ Consume(ReleasedByPage)
               /\ dataLeft' = dataLeft - pageData
               /\ pageOffset' = pageOffset + PageBytes
               /\ prepared' = FALSE
               /\ verified' = Append(verified, got)
               /\ phase' = IF pageOffset' = RecordBytes(recordData) THEN "commit" ELSE "write"
          ELSE WriterFails("verify") /\ UNCHANGED recordVars
     \/ /\ WriterFails("verify")         \* the read itself fails
        /\ UNCHANGED recordVars

\* The record as its pages give it back.
RecordRead ==
  [header |-> verified[1].header,
   data |-> [i \in 1 .. recordData |->
               IF i <= Len(verified[1].data) THEN verified[1].data[i]
               ELSE LET j == i - Len(verified[1].data) - 1
                    IN  verified[2 + (j \div PageBytes)].data[1 + (j % PageBytes)]]]

\* The commit pump reports COMMITTED.  (PROGRESS and BUSY change nothing here.)
CommitRecord ==
  /\ WriterLives
  /\ phase = "commit"
  /\ committed' = committed + recordData
  /\ log' = Append(log, RecordRead)
  /\ phase' = "idle"
  /\ UNCHANGED << sourceVars, recordData, dataLeft, pageOffset, pageData, prepared,
                  page, verified, stage, discard >>

\* The spool refuses the record's CRC, or its commit pump reports an error.
CommitFails ==
  /\ WriterLives
  /\ phase = "commit"
  /\ WriterFails("commit")
  /\ UNCHANGED recordVars

WriteStep == StartRecord \/ ContinuePage \/ VerifyPage \/ CommitRecord \/ CommitFails

-----------------------------------------------------------------------------
(* The raw pump and zy100_online_raw_capture_finish around it.               *)

\* zy100_online_stress_tick, on every pump, and in the loop of the finish.
StressTick(e) ==
  /\ stage # "released"
  /\ ~discard
  /\ Tick(e)
  /\ UNCHANGED writerVars

\* Another part of the capture fails: the pump stops calling the writer.
CaptureError ==
  /\ stage # "released"
  /\ discard' = TRUE
  /\ UNCHANGED << sourceVars, recordVars, committed, log, stage >>

\* finish(): freeze with a last tick, then drain unless the tail is discarded.
FinishBegin(e, discardTail) ==
  /\ stage = "running"
  /\ Freeze(e)
  /\ stage' = "finishing"
  /\ discard' = (discard \/ discardTail)
  /\ UNCHANGED << recordVars, committed, log >>

\* Mistake: a record in progress does not count as pending.
PendingBytes == used # 0

Pending == used # 0 \/ phase # "idle"

\* ZY100_ONLINE_RAW_FINISH_TIMEOUT_MS: looked at after every call of the pump,
\* the one that ends the work included; other rings may keep the loop going too.
FinishTimeout ==
  /\ stage = "finishing"
  /\ discard' = TRUE
  /\ UNCHANGED << sourceVars, recordVars, committed, log, stage >>

\* release(discard || error) ends the session of the writer.
Release ==
  /\ stage = "finishing"
  /\ discard \/ sourceError # "none" \/ ~Pending
  /\ stage' = "released"
  /\ phase' = "idle"
  /\ discard' = (discard \/ sourceError # "none")
  /\ UNCHANGED << sourceVars, recordData, dataLeft, pageOffset, pageData, prepared,
                  page, verified, committed, log >>

-----------------------------------------------------------------------------

WriterNext ==
  \/ \E e \in Clock : StressTick(e)
  \/ StartRecord
  \/ ContinuePage
  \/ VerifyPage
  \/ CommitRecord
  \/ CommitFails
  \/ CaptureError
  \/ \E e \in Clock, discardTail \in BOOLEAN : FinishBegin(e, discardTail)
  \/ FinishTimeout
  \/ Release

\* The finish loop keeps calling the pump, and the Flash answers BUSY only for
\* the time an operation takes: a call that can move the record on is answered,
\* well or badly, in the end.  Nothing forces a stop, a timeout or an error.
WriterFairness == WF_vars(WriteStep) /\ WF_vars(Release)

WriterSpec == WriterInit /\ [][WriterNext]_vars /\ WriterFairness

-----------------------------------------------------------------------------
\* Types of the variables of the writer; the page buffer is never overrun.
WriterTypeOK ==
  /\ phase \in {"idle", "write", "read", "commit"}
  /\ blockBytes \in BlockSizes
  /\ used \in 0 .. RingBytes
  /\ sourceError \in Errors
  /\ dataLeft \in 0 .. recordData
  /\ pageData \in 0 .. PageBytes
  /\ pageOffset \in Nat
  /\ prepared \in BOOLEAN
  /\ (IF page.header = NoHeader THEN 0 ELSE HeaderBytes) + Len(page.data) <= PageBytes
  /\ stage \in {"running", "finishing", "released"}
  /\ discard \in BOOLEAN

\* The committed records are the stream: each one starts where the last ended,
\* carries its bytes in order, and its header numbers and dates those blocks.
LogIsStream ==
  \A n \in 1 .. Len(log) :
    LET r     == log[n]
        start == (n - 1) * 2 * blockBytes
    IN  /\ r.data = [i \in 1 .. Len(r.data) |-> start + i - 1]
        /\ Len(r.data) = r.header.blocks * blockBytes
        /\ r.header.seq * blockBytes = start
        /\ \A k \in 1 .. r.header.blocks : r.header.late[k].seq = r.header.seq + k - 1

\* "Source release is tied to the storage path" (docs/ARCHITECTURE.md): what
\* left the ring is in a committed record or in a verified page of the current.
ReleasedBytesAreStored ==
  IF stage = "released" THEN consumed >= committed
  ELSE consumed = committed + (IF phase = "idle" THEN 0 ELSE recordData - dataLeft)

\* A session that ends without an error and without a discard has stored all of
\* what was due up to the freeze.
CleanReleaseIsComplete ==
  stage = "released" /\ ~discard =>
    /\ used = 0
    /\ committed = consumed /\ committed = generated /\ committed = expected

\* The finish loop ends: the last records are written, an odd block included,
\* or an error ends it; no timeout is needed.
FinishEnds == stage = "finishing" ~> stage = "released"
-----------------------------------------------------------------------------
(* What the proofs carry from step to step, beyond the properties above.     *)

\* Pages and, put together, records.
Headers == [seq : Int, blocks : Nat, late : Seq([seq : Int, late : Int])]
Pages   == [header : Headers, data : Seq(Int)]

PagesTyped ==
  /\ page \in Pages
  /\ verified \in Seq(Pages)
  /\ log \in Seq(Pages)

\* Data bytes of a record that lie before the page at an offset.
DataBefore(offset) == IF offset = 0 THEN 0 ELSE offset - HeaderBytes

\* An offset is that of page k, and data of a record of that size is left for it.
AtPage(k, offset, size) ==
  /\ k \in Nat /\ size \in Nat
  /\ offset = k * PageBytes
  /\ DataBefore(offset) < size

\* The data is "count" bytes of the stream, from "first" on.
CarriesStream(data, first, count) ==
  /\ Len(data) = count
  /\ \A i \in 1 .. count : data[i] = first + i - 1

\* The header of a record of "size" data bytes that begins at "first".
NamesBlocks(h, first, size) ==
  /\ h.blocks * blockBytes = size
  /\ h.seq * blockBytes = first
  /\ \A k \in 1 .. h.blocks : h.late[k].seq = h.seq + k - 1

\* What the page at an offset must hold in such a record.
PageOf(p, offset, first, size) ==
  /\ CarriesStream(p.data, first + DataBefore(offset),
                   DataOnPage(offset, size - DataBefore(offset)))
  /\ offset = 0 => NamesBlocks(p.header, first, size)

\* Where the cursor is, in the phases that write a record.
CursorInv ==
  /\ recordData \in Nat /\ pageData \in Nat /\ committed \in Nat
  /\ phase \in {"write", "read"} =>
       /\ AtPage(Len(verified), pageOffset, recordData)
       /\ dataLeft = recordData - DataBefore(pageOffset)
  /\ phase = "commit" =>
       /\ pageOffset = Len(verified) * PageBytes /\ pageOffset # 0
       /\ DataBefore(pageOffset) >= recordData
       /\ dataLeft = 0
  /\ phase = "read" => prepared

\* A record is a pair of blocks, or the last one of a frozen source; only after
\* that one do the committed bytes not end at a pair.
RecordInv ==
  /\ phase # "idle" =>
       /\ blockBytes # 0
       /\ committed = Len(log) * (2 * blockBytes)
       /\ \/ recordData = 2 * blockBytes
          \/ recordData = blockBytes /\ frozen /\ committed + recordData = generated
  /\ phase = "idle" =>
       \/ committed = Len(log) * (2 * blockBytes)
       \/ frozen /\ committed = generated

\* The page buffer holds the page at the cursor, and the pages that were read
\* back are those before it.
PageInv ==
  /\ phase \in {"write", "read"} /\ prepared =>
       /\ pageData = DataOnPage(pageOffset, dataLeft)
       /\ PageOf(page, pageOffset, committed, recordData)
  /\ phase # "idle" =>
       \A p \in 1 .. Len(verified) :
         PageOf(verified[p], (p - 1) * PageBytes, committed, recordData)

WriterInv ==
  /\ SourceInv
  /\ WriterTypeOK
  /\ PagesTyped
  /\ CursorInv
  /\ RecordInv
  /\ PageInv
  /\ ReleasedBytesAreStored
  /\ LogIsStream
  /\ CleanReleaseIsComplete
=============================================================================
