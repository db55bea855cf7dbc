---------------------------- MODULE OnlineSpool ----------------------------
(***************************************************************************)
(* The record ring in Flash of an online session: zy100_online_spool.c.     *)
(*                                                                         *)
(* The capture task reserves room, programs and reads back the pages of a   *)
(* record, programs and verifies its header, and stages committed records   *)
(* for sending; the App task reports them sent and hands in the ACKs.       *)
(* Erased room is made ahead of the writer in blocks whose records are all  *)
(* acked.  Each call of the spool is one action (the callers serialise      *)
(* them); a call that finds the Flash busy changes nothing unless its       *)
(* action says so, and is tried again.  A position counts the pages since   *)
(* the session's start: the page in the region is its remainder, the        *)
(* generation its quotient.  No record straddles the end of the region: the *)
(* pages left over there are the wrap gap.                                  *)
(***************************************************************************)
EXTENDS Integers, Sequences, FiniteSets

CONSTANTS
  RegionPages,    \* ZY100_ONLINE_SPOOL_REGION_BYTES, in pages
  SectorPages,    \* GD25Q32E_SECTOR_BYTES
  BlockSectors,   \* ZY100_ONLINE_SPOOL_BLOCK32_SECTORS
  RecordSizes,    \* pages of a record with its header; the largest is the plan of the erase
  InFlightMax,    \* ZY100_ONLINE_RECORD_IN_FLIGHT_MAX
  MaxGeneration,  \* the generation that still fits the header, 0xFFFF
  PreeraseMin,    \* ZY100_ONLINE_SPOOL_PREERASE_MIN_BYTES
  EraseHigh,      \* ZY100_ONLINE_ERASE_HIGH_BYTES, erased before a start too
  SessionLimit    \* bound: sessions that are started

BlockPages == BlockSectors * SectorPages

ASSUME SpoolAssumption ==
  /\ SectorPages \in Nat \ {0} /\ BlockSectors \in Nat \ {0}
  /\ RegionPages \in Nat \ {0} /\ RegionPages % BlockPages = 0
  /\ RecordSizes \subseteq 2 .. BlockPages /\ RecordSizes # {}
  /\ InFlightMax \in Nat \ {0} /\ MaxGeneration \in Nat /\ SessionLimit \in Nat
  /\ PreeraseMin \in 1 .. RegionPages /\ PreeraseMin % BlockPages = 0
  /\ EraseHigh \in PreeraseMin .. RegionPages /\ EraseHigh % BlockPages = 0

Pages     == 0 .. RegionPages - 1
SectorCount == RegionPages \div SectorPages
Sectors   == 0 .. SectorCount - 1
Positions == 0 .. (MaxGeneration + 1) * RegionPages
LargestRecord == CHOOSE n \in RecordSizes : \A m \in RecordSizes : m <= n

VARIABLES
  session,        \* session_active
  sessionId,
  capturing,      \* the record writer is attached: raw capture active
  failed,         \* "none", or the call whose error ends the session
  reservePos, commitPos, ackPos, sendPos,
  gapStart, gapPages,     \* the wrap gap, no pages when there is none
  resv,           \* the reservation: phase, start, pages in all, data pages done
  pending,        \* committed and not acked, oldest first (the code counts them)
  txRecord,       \* the record of the next send, read from its header (tx_cached)
  sent,           \* sent_records
  erased, dirty, reclaimable,   \* the three sector bitmaps
  erasing,        \* the sectors of the erase in progress (erase_wip)
  retryPending,   \* page_retry_pending
  flash,          \* external: what each page of the region holds
  busy            \* external: the Flash is programming or erasing

positions == << reservePos, commitPos, ackPos, sendPos, gapStart, gapPages >>
records   == << pending, txRecord, sent >>
sectors   == << erased, dirty, reclaimable, erasing >>
device    == << flash, busy, retryPending >>
control   == << session, sessionId, capturing, failed >>
vars == << control, positions, resv, records, sectors, device >>

(* What a page can hold.  A header carries its session and generation, and  *)
(* stands at its address, so the pair is written as the position at.        *)
Blank == [kind |-> "blank", s |-> 0, at |-> 0, n |-> 0]
Bad   == [kind |-> "bad",   s |-> 0, at |-> 0, n |-> 0]
Header(s, at, total) == [kind |-> "header", s |-> s, at |-> at, n |-> total]
Data(s, at, index)   == [kind |-> "data",   s |-> s, at |-> at, n |-> index]

Record(s, at, total) == [s |-> s, at |-> at, total |-> total]
NoRecord == Record(0, 0, 0)
NoResv   == [phase |-> "none", start |-> 0, total |-> 0, done |-> 0]

\* After ready_begin(): nothing is known to be erased, and the region holds
\* records of sessions before the boot.
Init ==
  /\ session = FALSE /\ sessionId = 0 /\ capturing = FALSE /\ failed = "none"
  /\ reservePos = 0 /\ commitPos = 0 /\ ackPos = 0 /\ sendPos = 0
  /\ gapStart = 0 /\ gapPages = 0
  /\ resv = NoResv
  /\ pending = << >> /\ txRecord = NoRecord /\ sent = << >>
  /\ erased = {} /\ dirty = {} /\ reclaimable = Sectors /\ erasing = {}
  /\ retryPending = FALSE
  /\ flash = [p \in Pages |-> Header(0, p, LargestRecord)]
  /\ busy = FALSE

-----------------------------------------------------------------------------
(* Positions and the wrap gap.                                               *)

Page(pos)       == pos % RegionPages
Generation(pos) == pos \div RegionPages
Used == reservePos - ackPos

SkipGap(pos) ==
  IF gapPages # 0 /\ pos = gapStart THEN pos + gapPages ELSE pos

\* Mistake: the gap is skipped before anything behind it is committed.
SkipGapUnbounded(pos, limit) == SkipGap(pos)

SkipGapBounded(pos, limit) == IF SkipGap(pos) > limit THEN pos ELSE SkipGap(pos)

ReleaseGap == gapStart' = 0 /\ gapPages' = 0
KeepGap    == UNCHANGED << gapStart, gapPages >>

-----------------------------------------------------------------------------
(* Sectors.                                                                  *)

SectorOf(page) == page \div SectorPages
PagesOf(set)   == { p \in Pages : SectorOf(p) \in set }
Block(sector)  == { s \in Sectors : s \div BlockSectors = sector \div BlockSectors }

RecordPages(r) == { Page(p) : p \in r.at .. r.at + r.total - 1 }
LivePages      == { Page(p) : p \in ackPos .. reservePos - 1 }

\* Pages erased from a position on: the rest of its sector when it is inside
\* one, then the run of erased sectors, up to the limit.
ErasedFrom(pos, limit) ==
  LET lead  == (SectorPages - (Page(pos) % SectorPages)) % SectorPages
      first == (Page(pos) + lead) \div SectorPages
      run   == CHOOSE k \in 0 .. SectorCount :
                 /\ \A i \in 0 .. k - 1 : (first + i) % SectorCount \in erased
                 /\ k = SectorCount \/ (first + k) % SectorCount \notin erased
      ahead == lead + run * SectorPages
  IN  IF ahead > limit THEN limit ELSE ahead

SectorProtected(sector) ==
  /\ session
  /\ \/ sector \notin reclaimable
     \/ PagesOf({sector}) \cap LivePages # {}
     \/ txRecord # NoRecord /\ PagesOf({sector}) \cap RecordPages(txRecord) # {}
     \/ \E i \in DOMAIN sent : PagesOf({sector}) \cap RecordPages(sent[i]) # {}

BlockReclaimable(block) ==
  \A s \in block \ erased : s \in reclaimable /\ ~SectorProtected(s)

\* Mistake: a sector counts as passed only when the ACK goes beyond its end.
SectorsBefore(from, to) ==
  { s \in Sectors : \E k \in 1 .. to \div SectorPages :
      /\ from < k * SectorPages /\ k * SectorPages < to
      /\ s = (k - 1) % SectorCount }

\* The sectors whose end lies in from+1 .. to.
SectorsPassed(from, to) ==
  { s \in Sectors : \E k \in 1 .. to \div SectorPages :
      /\ from < k * SectorPages /\ k * SectorPages <= to
      /\ s = (k - 1) % SectorCount }

-----------------------------------------------------------------------------
(* The writer: reserve, program, read back, commit.                          *)

\* The capture task serves the writer while no erase is in progress.
PumpRuns == capturing /\ failed = "none" /\ erasing = {}

Fails(call) ==
  /\ failed' = call
  /\ UNCHANGED << session, sessionId, capturing >>

WrapGap(total) ==
  IF Page(reservePos) + total > RegionPages THEN RegionPages - Page(reservePos)
                                            ELSE 0

StartPos(total) == reservePos + WrapGap(total)

\* Mistake: a used sector serves any record, not only one that starts inside it.
SectorsReadyOrUsed(start, total) ==
  \A s \in SectorOf(Page(start)) .. SectorOf(Page(start + total - 1)) :
    s \in erased \/ s \in dirty

\* All sectors of the record are erased, but for the one it starts inside.
SectorsReady(start, total) ==
  \A s \in SectorOf(Page(start)) .. SectorOf(Page(start + total - 1)) :
    \/ s \in erased
    \/ s = SectorOf(Page(start)) /\ Page(start) % SectorPages # 0 /\ s \in dirty

\* spool_build_reserve_plan(): its checks in their order.
Plan(total) ==
  IF WrapGap(total) # 0 /\ gapPages # 0 THEN "error"
  ELSE IF WrapGap(total) + total > RegionPages - Used THEN "unacked"
  ELSE IF Generation(StartPos(total) + total) > MaxGeneration THEN "error"
  ELSE IF ~SectorsReady(StartPos(total), total) THEN "erase"
  ELSE "ok"

Reserve(total) ==
  /\ PumpRuns /\ resv = NoResv
  /\ \/ /\ Plan(total) = "ok"
        /\ resv' = [phase |-> "page", start |-> StartPos(total),
                    total |-> total, done |-> 0]
        /\ reservePos' = StartPos(total) + total
        /\ IF WrapGap(total) = 0 THEN KeepGap
           ELSE gapStart' = reservePos /\ gapPages' = WrapGap(total)
        /\ LET taken == SectorOf(Page(StartPos(total)))
                          .. SectorOf(Page(StartPos(total) + total - 1))
           IN  /\ erased' = erased \ taken
               /\ dirty' = dirty \cup taken
               /\ reclaimable' = reclaimable \ taken
        /\ UNCHANGED << control, erasing >>
     \/ /\ Plan(total) = "error"
        /\ Fails("reserve")
        /\ UNCHANGED << resv, reservePos, gapStart, gapPages, sectors >>
  /\ UNCHANGED << commitPos, ackPos, sendPos, records, device >>

\* Programming clears bits only: a page that was not erased ends up wrong, and
\* the device may fail to program.
Program(pos, content) ==
  /\ \E stored \in BOOLEAN :
       flash' = [flash EXCEPT ![Page(pos)] =
                   IF stored /\ @ = Blank THEN content ELSE Bad]
  /\ busy' = TRUE
  /\ retryPending' = TRUE

DataPos == resv.start + 1 + resv.done

WritePage ==
  /\ PumpRuns /\ ~busy /\ resv.phase = "page"
  /\ Program(DataPos, Data(sessionId, DataPos, resv.done))
  /\ resv' = [resv EXCEPT !.phase = "verify"]
  /\ UNCHANGED << control, positions, records, sectors >>

\* Mistake: whatever is read back counts as written.
AnyReadBack == TRUE

ReadBackMatches == flash[Page(DataPos)] = Data(sessionId, DataPos, resv.done)

\* The last page read back completes the data: commit_with_crc().
ReadBack ==
  /\ PumpRuns /\ ~busy /\ resv.phase = "verify"
  /\ retryPending' = FALSE
  /\ IF ReadBackMatches
     THEN /\ resv' = [resv EXCEPT
                        !.done = @ + 1,
                        !.phase = IF resv.done + 2 = resv.total THEN "header"
                                                                ELSE "page"]
          /\ UNCHANGED control
     ELSE Fails("verify") /\ UNCHANGED resv
  /\ UNCHANGED << positions, records, sectors, flash, busy >>

\* The commit position skips the gap first, also when the bus then refuses the
\* program and the call has to be made again.
HeaderProgram ==
  /\ PumpRuns /\ ~busy /\ resv.phase = "header"
  /\ LET at == SkipGap(commitPos) IN
     /\ commitPos' = at
     /\ \/ /\ Page(at) # Page(resv.start) \/ Generation(at) > MaxGeneration
           /\ Fails("commit")
           /\ UNCHANGED << resv, device >>
        \/ /\ Page(at) = Page(resv.start) /\ Generation(at) <= MaxGeneration
           /\ Program(at, Header(sessionId, at, resv.total))
           /\ resv' = [resv EXCEPT !.phase = "headerVerify"]
           /\ UNCHANGED control
        \/ /\ Page(at) = Page(resv.start) /\ Generation(at) <= MaxGeneration
           /\ UNCHANGED << resv, control, device >>
  /\ UNCHANGED << reservePos, ackPos, sendPos, gapStart, gapPages, records, sectors >>

\* The header a page must hold for a record at a position of this session.
HeaderAt(pos) ==
  /\ flash[Page(pos)].kind = "header"
  /\ flash[Page(pos)].s = sessionId
  /\ Generation(flash[Page(pos)].at) = Generation(pos)

HeaderVerify ==
  /\ PumpRuns /\ ~busy /\ resv.phase = "headerVerify"
  /\ retryPending' = FALSE
  /\ IF HeaderAt(commitPos) /\ flash[Page(commitPos)].at = resv.start
        /\ commitPos + resv.total <= reservePos
     THEN /\ commitPos' = commitPos + resv.total
          /\ pending' = Append(pending, Record(sessionId, resv.start, resv.total))
          /\ resv' = NoResv
          /\ UNCHANGED control
     ELSE Fails("commit") /\ UNCHANGED << commitPos, pending, resv >>
  /\ UNCHANGED << reservePos, ackPos, sendPos, gapStart, gapPages, txRecord, sent,
                  sectors, flash, busy >>

-----------------------------------------------------------------------------
(* Sending and acking.                                                       *)

\* Mistake: one record more than the window.
WindowOverfull == Len(sent) > InFlightMax

WindowFull == Len(sent) >= InFlightMax

\* Mistake: a record is offered only when another one follows it.
NothingButOne(pos) == pos + LargestRecord >= commitPos

NothingToSend(pos) == pos >= commitPos

\* Mistake: any read takes the writer's pending readback for done.
RetryCleared == FALSE

RetryAfterTxRead == retryPending

\* Mistake: looking at the next record already frees the gap.
PeekReleases == ReleaseGap

PeekKeepsGap == KeepGap

\* The gap is skipped whether or not the header can be read now.
PeekTx ==
  /\ session /\ failed = "none" /\ txRecord = NoRecord
  /\ LET at == SkipGapBounded(sendPos, commitPos) IN
     /\ sendPos' = at
     /\ IF at = sendPos THEN KeepGap ELSE PeekKeepsGap
     /\ IF WindowFull \/ NothingToSend(at) \/ erasing # {} \/ busy
        THEN UNCHANGED << txRecord, retryPending, control >>
        ELSE /\ retryPending' = RetryAfterTxRead
             /\ IF HeaderAt(at)
                THEN /\ txRecord' = Record(sessionId, at, flash[Page(at)].n)
                     /\ UNCHANGED control
                ELSE Fails("peek") /\ UNCHANGED txRecord
  /\ UNCHANGED << reservePos, commitPos, ackPos, resv, pending, sent, sectors,
                  flash, busy >>

MarkTxSent ==
  /\ session /\ failed = "none" /\ txRecord # NoRecord
  /\ IF ~WindowFull /\ txRecord.at = sendPos /\ sendPos + txRecord.total <= commitPos
     THEN /\ sent' = Append(sent, txRecord)
          /\ sendPos' = sendPos + txRecord.total
          /\ txRecord' = NoRecord
          /\ UNCHANGED control
     ELSE Fails("sent") /\ UNCHANGED << sent, sendPos, txRecord >>
  /\ UNCHANGED << reservePos, commitPos, ackPos, gapStart, gapPages, resv, pending,
                  sectors, device >>

\* Mistake: the count goes down but the head of the queue stays.
SentHeadKept == SubSeq(sent, 1, Len(sent) - 1)

SentAfterAck == Tail(sent)

\* The stream passes on only the ACK of the oldest record it waits for.
Ack ==
  /\ session /\ failed = "none" /\ sent # << >>
  /\ LET from == SkipGapBounded(ackPos, commitPos)
         end  == from + Head(sent).total
         upTo == SkipGapBounded(end, commitPos)
     IN  IF Head(sent).at = from /\ end <= commitPos /\ pending # << >>
         THEN /\ ackPos' = upTo
              /\ IF from # ackPos \/ upTo # end THEN ReleaseGap ELSE KeepGap
              /\ reclaimable' = reclaimable
                                  \cup (dirty \cap SectorsPassed(ackPos, upTo))
              /\ sent' = SentAfterAck
              /\ pending' = Tail(pending)
              /\ UNCHANGED control
         ELSE /\ Fails("ack")
              /\ UNCHANGED << ackPos, gapStart, gapPages, reclaimable, sent, pending >>
  /\ UNCHANGED << reservePos, commitPos, sendPos, resv, txRecord, erased, dirty,
                  erasing, device >>

-----------------------------------------------------------------------------
(* Erasing.                                                                  *)

\* An erase is accepted: what its sectors hold is gone.
IssueErase(set) ==
  /\ erasing' = set
  /\ flash' = [p \in Pages |-> IF p \in PagesOf(set) THEN Bad ELSE flash[p]]
  /\ busy' = TRUE

\* spool_erase_forward_block32_step(): the block behind the erased room, when
\* the largest record would not find room or less than target is erased.
EraseForward(target) ==
  /\ PumpRuns /\ ~busy /\ resv = NoResv
  /\ LET start == StartPos(LargestRecord)
         free  == RegionPages - Used - WrapGap(LargestRecord)
         ahead == ErasedFrom(start, free)
         block == Block(SectorOf(Page(start + ahead)))
     IN  \/ /\ Plan(LargestRecord) = "error"
            /\ Fails("erase")
            /\ UNCHANGED << erasing, flash, busy >>
         \/ /\ Plan(LargestRecord) \in {"ok", "erase"}
            /\ ahead < free
            /\ Plan(LargestRecord) = "erase" \/ ahead < target
            /\ ~(block \subseteq erased)
            /\ BlockReclaimable(block)
            /\ IssueErase(block)
            /\ UNCHANGED control
  /\ UNCHANGED << positions, resv, records, erased, dirty, reclaimable, retryPending >>

\* spool_poll_erase_wip() finds the Flash idle.
PollErase ==
  /\ erasing # {} /\ ~busy
  /\ erased' = erased \cup erasing
  /\ dirty' = dirty \ erasing
  /\ reclaimable' = reclaimable \ erasing
  /\ erasing' = {}
  /\ UNCHANGED << control, positions, resv, records, device >>

\* The Flash finishes what it was doing.
DeviceDone ==
  /\ busy
  /\ busy' = FALSE
  /\ flash' = [p \in Pages |-> IF p \in PagesOf(erasing) THEN Blank ELSE flash[p]]
  /\ UNCHANGED << control, positions, resv, records, sectors, retryPending >>

\* Between sessions: start_prepare_poll() erases, sector by sector, the room a
\* start asks for, and the cleanup erases blocks until there is as much.
EraseIdle ==
  /\ ~session /\ erasing = {} /\ ~busy
  /\ \/ \E s \in Sectors \ erased :
          /\ s < EraseHigh \div SectorPages
          /\ \A t \in 0 .. s - 1 : t \in erased
          /\ IssueErase({s})
     \/ /\ ErasedFrom(0, RegionPages) < EraseHigh
        /\ \E s \in { t \in Sectors \ erased : BlockReclaimable(Block(t)) } :
             /\ \A t \in Sectors \ erased :
                  BlockReclaimable(Block(t)) => Block(s) = Block(t) \/ s < t
             /\ IssueErase(Block(s))
  /\ UNCHANGED << control, positions, resv, records, erased, dirty, reclaimable,
                  retryPending >>

-----------------------------------------------------------------------------
(* Sessions.                                                                 *)

\* The Flash driver reports an error to the writer, the erase or the sending
\* side; positions have moved at most over the gap, as in the calls above.
FlashError ==
  /\ session /\ failed = "none"
  /\ capturing \/ txRecord # NoRecord \/ ~NothingToSend(SkipGapBounded(sendPos, commitPos))
  /\ Fails("flash")
  /\ UNCHANGED << positions, resv, records, sectors, device >>

\* The start gate: prepared room is erased, no erase is in progress.
Begin ==
  /\ ~session /\ erasing = {} /\ sessionId < SessionLimit
  /\ ErasedFrom(0, RegionPages) >= EraseHigh
  /\ session' = TRUE /\ sessionId' = sessionId + 1 /\ capturing' = TRUE
  /\ failed' = "none"
  /\ dirty' = {}
  /\ retryPending' = FALSE
  /\ UNCHANGED << positions, resv, records, erased, reclaimable, erasing, flash, busy >>

\* raw_capture_finish() with everything written.
StopCapture ==
  /\ capturing /\ failed = "none" /\ resv = NoResv /\ erasing = {}
  /\ capturing' = FALSE
  /\ UNCHANGED << session, sessionId, failed, positions, resv, records, sectors, device >>

AbortReservation ==
  IF gapPages # 0 /\ reservePos - resv.total = gapStart + gapPages
  THEN reservePos' = gapStart /\ ReleaseGap
  ELSE reservePos' = reservePos - resv.total /\ KeepGap

\* raw_capture_finish() that drops the tail, asked for or after an error: the
\* session cannot end as complete any more.
DiscardTail ==
  /\ capturing
  /\ capturing' = FALSE
  /\ failed' = IF failed = "none" THEN "discarded" ELSE failed
  /\ IF resv = NoResv THEN UNCHANGED << reservePos, gapStart, gapPages >>
                      ELSE AbortReservation
  /\ resv' = NoResv
  /\ UNCHANGED << session, sessionId, commitPos, ackPos, sendPos, records, sectors,
                  device >>

AllAcked ==
  /\ resv = NoResv /\ pending = << >> /\ sent = << >>
  /\ ackPos = commitPos /\ sendPos = commitPos

\* What both cleanups leave: nothing in the ring, all of it to be erased.
CleanupDone ==
  /\ session' = FALSE
  /\ reservePos' = 0 /\ commitPos' = 0 /\ ackPos' = 0 /\ sendPos' = 0
  /\ ReleaseGap
  /\ pending' = << >> /\ txRecord' = NoRecord /\ sent' = << >>
  /\ reclaimable' = Sectors
  /\ UNCHANGED << sessionId, capturing, failed, resv, erased, dirty, erasing, device >>

PostSessionCleanup ==
  /\ session /\ ~capturing /\ failed = "none" /\ erasing = {}
  /\ AllAcked
  /\ CleanupDone

AbortCleanup ==
  /\ session /\ ~capturing /\ failed # "none" /\ erasing = {}
  /\ CleanupDone

Next ==
  \/ \E total \in RecordSizes : Reserve(total)
  \/ WritePage \/ ReadBack \/ HeaderProgram \/ HeaderVerify
  \/ PeekTx \/ MarkTxSent \/ Ack
  \/ \E target \in {PreeraseMin, EraseHigh} : EraseForward(target)
  \/ PollErase \/ DeviceDone \/ EraseIdle
  \/ FlashError
  \/ Begin \/ StopCapture \/ DiscardTail
  \/ PostSessionCleanup \/ AbortCleanup

SpoolSafety == Init /\ [][Next]_vars

(* The capture task and the App task keep calling: the Flash finishes, the    *)
(* writer has a record to reserve, staging looks for the next record, a sent   *)
(* record is acked (or the ACK timeout fails the session: fewer behaviours     *)
(* wait then), and a failed session is torn down.                              *)
SpoolFairness ==
  /\ WF_vars(DeviceDone) /\ WF_vars(PollErase)
  /\ WF_vars(\E total \in RecordSizes : Reserve(total))
  /\ WF_vars(EraseForward(PreeraseMin))
  /\ WF_vars(WritePage) /\ WF_vars(ReadBack)
  /\ WF_vars(HeaderProgram) /\ WF_vars(HeaderVerify)
  /\ WF_vars(PeekTx) /\ WF_vars(MarkTxSent) /\ WF_vars(Ack)
  /\ WF_vars(failed # "none" /\ DiscardTail)
  /\ WF_vars(PostSessionCleanup) /\ WF_vars(AbortCleanup)

SpoolSpec == SpoolSafety /\ SpoolFairness

-----------------------------------------------------------------------------
(* What must be true of it.                                                  *)

Contents == [kind : {"blank", "bad", "header", "data"}, s : 0 .. SessionLimit,
             at : Positions, n : 0 .. LargestRecord]

SpoolTypeOK ==
  /\ session \in BOOLEAN /\ sessionId \in 0 .. SessionLimit
  /\ capturing \in BOOLEAN /\ (capturing => session)
  /\ failed \in {"none", "reserve", "verify", "commit", "peek", "sent", "ack",
                 "erase", "flash", "discarded"}
  /\ {reservePos, commitPos, ackPos, sendPos, gapStart} \subseteq Positions
  /\ gapPages \in 0 .. LargestRecord - 1
  /\ resv \in [phase: {"none", "page", "verify", "header", "headerVerify"},
               start: Positions, total: RecordSizes \cup {0}, done: 0 .. LargestRecord]
  /\ \A i \in DOMAIN pending : pending[i] \in
       [s: {sessionId}, at: Positions, total: RecordSizes]
  /\ txRecord = NoRecord \/ txRecord.total \in RecordSizes
  /\ Len(sent) <= InFlightMax
  /\ erased \subseteq Sectors /\ dirty \subseteq Sectors
  /\ reclaimable \subseteq Sectors /\ erasing \subseteq Sectors
  /\ flash \in [Pages -> Contents]
  /\ retryPending \in BOOLEAN /\ busy \in BOOLEAN

Holds(r) ==
  /\ flash[Page(r.at)] = Header(r.s, r.at, r.total)
  /\ \A i \in 1 .. r.total - 1 : flash[Page(r.at + i)] = Data(r.s, r.at + i, i - 1)

\* A committed record stays readable, header and data, until it is acked; so do
\* the verified pages of the record being written.  No erase, no later record
\* and no reuse of the region after a wrap touches them.
LiveBytesIntact ==
  /\ \A i \in DOMAIN pending : Holds(pending[i])
  /\ resv # NoResv => \A i \in 1 .. resv.done :
       flash[Page(resv.start + i)] = Data(sessionId, resv.start + i, i - 1)

\* The pages of a reservation that are not written yet are erased, its header
\* to the last: a program never lands on the bytes of an earlier record.
ReservedRoomIsErased ==
  LET next == IF resv.phase = "page" THEN resv.done + 1 ELSE resv.done + 2
  IN  resv # NoResv =>
        /\ \A i \in next .. resv.total - 1 : flash[Page(resv.start + i)] = Blank
        /\ resv.phase # "headerVerify" => flash[Page(resv.start)] = Blank

RecordEnd(r) == r.at + r.total

\* The rules of invariant_code() that hold between any two calls.  The pending
\* records follow each other from the ACK position to the commit position, the
\* reservation from there to the reserve position, with nothing between them
\* but the wrap gap, which ends at the end of the region; the records sent are
\* the oldest ones; and all of it fits the region.
RecordsFillTheRing ==
  session /\ (capturing \/ failed = "none") =>
    /\ Used \in 0 .. RegionPages
    /\ LET bounds == << ackPos >> \o [i \in DOMAIN pending |-> RecordEnd(pending[i])]
       IN  /\ \A i \in DOMAIN pending :
                pending[i].at \in {bounds[i], SkipGap(bounds[i])}
           /\ commitPos \in {bounds[Len(bounds)], SkipGap(bounds[Len(bounds)])}
    /\ IF resv = NoResv THEN reservePos = commitPos
       ELSE resv.start = SkipGap(commitPos) /\ reservePos = resv.start + resv.total
    /\ gapPages # 0 => /\ ackPos <= gapStart /\ gapStart + gapPages <= reservePos
                       /\ Page(gapStart + gapPages) = 0
    /\ sent = SubSeq(pending, 1, Len(sent))

\* The pump takes "a page is programmed and not yet read back" from the retry
\* flag: while it is so the flag is up, whatever the sending side reads.
RetryIsReported ==
  failed = "none" /\ resv.phase \in {"verify", "headerVerify"} => retryPending

\* Sending and acking in order is never refused, and a commit fails only when
\* the Flash did not keep the header: the bookkeeping never fails a session.
\* (The read of a header for sending is not listed: see SendNotBehindAck.)
BookkeepingNeverFails ==
  /\ failed \notin {"sent", "ack"}
  /\ failed = "commit" /\ capturing => flash[Page(resv.start)] = Bad

\* The spool is the log that RecordLog describes: each committed record is
\* offered once, in order, as it was committed, and ACKs retire the oldest.
Log == INSTANCE RecordLog WITH
  Records  <- [s: 1 .. SessionLimit, at: Positions, total: RecordSizes],
  Window   <- InFlightMax,
  backlog  <- SubSeq(pending, Len(sent) + 1, Len(pending)),
  inFlight <- sent

ImplementsRecordLog == Log!LogSpec

\* A writer that waits for room gets it: acked room is erased in time and the
\* erase finds a block it may take, or the session fails visibly.
WriterGetsRoom ==
  capturing /\ failed = "none" /\ resv = NoResv
    ~> resv # NoResv \/ ~capturing \/ failed # "none"

\* A session whose writer has finished delivers what is left and is closed as
\* complete: every record is sent and acked, unless the session fails.
StoppedSessionDrains ==
  session /\ ~capturing /\ failed = "none" ~> ~session \/ failed # "none"

\* What invariant_code() demands in its first rule.  The code breaks it: an ACK
\* that crosses the wrap gap frees the gap while the send position still
\* stands before it.
SendNotBehindAck == ackPos <= sendPos

-----------------------------------------------------------------------------
(* What the proofs carry from step to step, beyond the properties above.     *)

RecordSet == [s : Nat, at : Positions, total : RecordSizes]

\* The bookkeeping of a session that can still end as complete, or that failed
\* and has not dropped its tail yet.
Running == session /\ (capturing \/ failed = "none")

\* Between sessions the ring is empty; a reservation belongs to a capture, and
\* no erase runs beside it.
QuietInv ==
  /\ session => sessionId >= 1
  /\ ~session => /\ reservePos = 0 /\ commitPos = 0 /\ ackPos = 0 /\ sendPos = 0
                 /\ gapPages = 0 /\ txRecord = NoRecord
                 /\ pending = << >> /\ sent = << >>
  /\ ~capturing => resv = NoResv
  /\ resv # NoResv => erasing = {}

\* How far a reservation is.
ReservationInv ==
  resv # NoResv =>
    /\ resv.total \in RecordSizes
    /\ resv.phase \in {"page", "verify"} => resv.done + 1 < resv.total
    /\ resv.phase \in {"header", "headerVerify"} => resv.done + 1 = resv.total
    /\ resv.phase # "none"
    /\ Page(resv.start) + resv.total <= RegionPages
    /\ Generation(resv.start) <= MaxGeneration

\* Where the record before the i-th pending one ends.
EndBefore(i) == IF i = 1 THEN ackPos ELSE RecordEnd(pending[i - 1])

\* The cursors follow each other and fit the region.
CursorsInv ==
  Running =>
    /\ ackPos <= commitPos /\ commitPos <= reservePos
    /\ reservePos - ackPos <= RegionPages
    /\ resv = NoResv => reservePos = commitPos
    /\ resv # NoResv => /\ resv.start = SkipGap(commitPos)
                        /\ reservePos = resv.start + resv.total
    /\ resv.phase = "headerVerify" => commitPos = resv.start

\* The pending records lie in order between the ACK and the commit position.
PendingInv ==
  Running =>
    /\ \A i \in 1 .. Len(pending) :
         /\ pending[i].s = sessionId
         /\ pending[i].at = SkipGap(EndBefore(i))
         /\ ackPos <= pending[i].at /\ RecordEnd(pending[i]) <= commitPos
    /\ \A i, j \in 1 .. Len(pending) :
         i < j => RecordEnd(pending[i]) <= pending[j].at
    /\ commitPos \in {EndBefore(Len(pending) + 1), SkipGap(EndBefore(Len(pending) + 1))}

\* The gap ends at the end of the region and no record touches it.
GapInv ==
  Running /\ gapPages # 0 =>
    /\ ackPos <= gapStart /\ gapStart + gapPages <= reservePos
    /\ Page(gapStart + gapPages) = 0
    /\ \A i \in 1 .. Len(pending) : \/ RecordEnd(pending[i]) <= gapStart
                                    \/ gapStart + gapPages <= pending[i].at
    /\ resv # NoResv => gapStart + gapPages <= resv.start

\* No header of this session stands for the record at this position.
NoHeaderFor(pos) ==
  flash[Page(pos)].kind = "header" /\ flash[Page(pos)].s = sessionId
    => flash[Page(pos)].at # pos

\* The records sent are the oldest pending ones and the next to be sent is the
\* one behind them; unless an ACK has left the send position before a gap that
\* it freed, where no record begins.
SendInv ==
  Running =>
    /\ Len(sent) <= Len(pending)
    /\ \A i \in 1 .. Len(sent) : sent[i] = pending[i]
    /\ txRecord # NoRecord => /\ Len(sent) < InFlightMax /\ Len(sent) < Len(pending)
                              /\ txRecord = pending[Len(sent) + 1]
                              /\ sendPos = txRecord.at
    /\ \/ sendPos \in {EndBefore(Len(sent) + 1), SkipGap(EndBefore(Len(sent) + 1))}
       \/ sent = << >> /\ txRecord = NoRecord /\ sendPos < ackPos /\ NoHeaderFor(sendPos)

\* Headers stand at their address, and none of this session is ahead of the writer.
HeadersInv ==
  /\ \A p \in Pages : flash[p].kind = "header" =>
       /\ flash[p].s \in Nat /\ flash[p].s <= sessionId
       /\ flash[p].at \in Nat /\ Page(flash[p].at) = p
       /\ Running /\ flash[p].s = sessionId => flash[p].at < reservePos
  /\ Running /\ gapPages # 0 => NoHeaderFor(gapStart)
  /\ resv.phase = "headerVerify" =>
       flash[Page(resv.start)] \in {Header(sessionId, resv.start, resv.total), Bad}

\* Erased sectors are blank and free, those being erased are free and blank in
\* the end, and so is the rest of the sector in which the last record ended.
ErasedInv ==
  /\ \A p \in Pages : SectorOf(p) \in erased \ erasing => flash[p] = Blank
  /\ ~busy => \A p \in Pages : SectorOf(p) \in erasing => flash[p] = Blank
  /\ \A i \in 1 .. Len(pending) : \A p \in RecordPages(pending[i]) :
       SectorOf(p) \notin erased \cup erasing
  /\ resv # NoResv => \A p \in RecordPages(Record(sessionId, resv.start, resv.total)) :
       SectorOf(p) \notin erased
  /\ capturing /\ Page(reservePos) % SectorPages # 0 =>
       \A p \in Pages :
         /\ SectorOf(p) = SectorOf(Page(reservePos)) /\ Page(reservePos) <= p
         /\ SectorOf(p) \in dirty \ erasing
         => flash[p] = Blank

\* A header that failed to be stored is why a commit failed.
FailedInv ==
  failed = "commit" /\ capturing => resv.phase = "headerVerify"

SpoolInv ==
  /\ SpoolTypeOK
  /\ pending \in Seq(RecordSet) /\ sent \in Seq(RecordSet)
  /\ QuietInv /\ ReservationInv /\ CursorsInv /\ PendingInv /\ GapInv /\ SendInv
  /\ HeadersInv /\ ErasedInv /\ FailedInv
  /\ LiveBytesIntact /\ ReservedRoomIsErased
  /\ RetryIsReported /\ BookkeepingNeverFails
=============================================================================
