---------------------------- MODULE OfflineStorage ----------------------------
(***************************************************************************)
(* The offline store: sessions recorded to the result area, their          *)
(* directory rebuilt at every boot, and the journal that makes their       *)
(* release (confirmed by the phone, or discarded by a purge of other       *)
(* users' data) survive a power loss: zy100_offline_v2_storage.c.          *)
(*                                                                         *)
(* A job has one Flash operation in flight.  OperationDone is the poll     *)
(* that finds it complete, reads it back and goes on with the job; between *)
(* two of those the power may go.  Recovery writes nothing before it has   *)
(* read everything, so it is one step up to its first repair.              *)
(***************************************************************************)
EXTENDS OfflineFlash, FiniteSetsExt, SequencesExt

CONSTANTS
    IdLimit,      \* the id no session takes (0xFFFFFFFF)
    RoomToBegin,  \* pages a session needs to start: erased pool and reserve
    Purgers,      \* users whose phones ask for a purge
    MaxEvents,    \* bound: events of a session
    Mishaps       \* bound: losses of power and failed Flash operations

ASSUME StorageAssumption ==
    /\ IdLimit \in Nat /\ IdLimit > 1
    /\ RoomToBegin \in Nat /\ RoomToBegin >= 2 * SectorPages
    /\ Purgers \subseteq Users
    /\ {MaxEvents, Mishaps} \subseteq Nat

VARIABLES
    flash,      \* [Chip -> page]
    store,      \* s_storage: all of it is lost with the power
    saved,      \* history: of each id, what the store has verified on Flash
    released,   \* history: ids confirmed by a phone or named by a purge
    shown,      \* history: ids that were in the directory
    mishaps

vars == <<flash, store, saved, released, shown, mishaps>>

Ids == 1 .. IdLimit - 1

(* cur, next, gen, snap: the journal's bank, free page, generation and      *)
(* snapshot pages.  held, resume: the entry a rotation must still write,    *)
(* and its job.  reclaim: the session that goes; foreign: by a purge.       *)
Off == [mode |-> "off", job |-> "none", op |-> Idle, dir |-> {}, head |-> 0,
        nextId |-> 1, active |-> FALSE, act |-> NoSession, checked |-> 0,
        cur |-> 0, next |-> 1, gen |-> 1, snap |-> 0, runtime |-> FALSE,
        held |-> Blank, resume |-> "none",
        purge |-> NoUser, pending |-> FALSE, foreign |-> FALSE,
        reclaim |-> NoSession, tomb |-> NoSession, paused |-> FALSE]

Do(m) ==
    /\ store' = m
    /\ shown' = shown \cup {s.id : s \in store'.dir}

-----------------------------------------------------------------------------
(* Sessions *)

Overlaps(a, b) == a.begin < b.end /\ b.begin < a.end
\* Mistake: the room behind a released session, not behind every session.
FirstEnd(dir) == IF dir = {} THEN 0 ELSE Min({s.end : s \in dir})
\* Only the tail behind every owner's sessions is free to be written.
MaxEnd(dir) == Max({s.end : s \in dir} \cup {0})
Named(dir, id) == CHOOSE s \in dir : s.id = id
Known(dir, id) == \E s \in dir : s.id = id
Replace(dir, s) == {d \in dir : d.id # s.id} \cup {s}
First(dir) == CHOOSE s \in dir : \A d \in dir : s.id <= d.id
Latest(dir) == CHOOSE s \in dir : \A d \in dir : s.id >= d.id
OwnedBy(dir, u) == {s \in dir : s.owner = u}
Foreign(dir, u) == {s \in dir : s.owner # u}

FinalSector(a) == AlignUp(Slot(a.begin, a.count))
ActiveInfo(a, end) == Session(a.id, a.owner, a.begin, end, a.count)
FinalInfo(a) == ActiveInfo(a, FinalSector(a) + SectorPages)

-----------------------------------------------------------------------------
(* The journal *)

\* storage_fail.  What else it leaves in RAM nothing reads before a mount
\* clears it.
Failed == [Off EXCEPT !.mode = "error"]

\* storage_program_journal_entry: the entry, or a rotation to the other bank
\* when this one is full, ends in a torn page or has the old format.
Journal(m, entry, job) ==
    IF m.runtime /\ m.next < BankPages
    THEN [m EXCEPT !.op = Program(Bank(m.cur) + m.next, entry), !.job = job]
    ELSE [m EXCEPT !.op = Erase(Bank(1 - m.cur), BankPages), !.job = "rotate",
                   !.held = entry, !.resume = job]

\* Mistake: a new bank carries over what a purge discards, not what a phone
\* confirmed.
Discarded(dir) == {s \in dir : s.discard}
Going(dir) == {s \in dir : s.confirmed}

\* In the order in which they were recorded.
InOrder(dir) ==
    CHOOSE q \in [1 .. Cardinality(dir) -> dir] :
        \A i, j \in DOMAIN q : i < j => q[i].id < q[j].id

\* The pages a new bank opens with: sessions still to be erased, the tombstone.
SnapshotPages(m) ==
    LET going == InOrder(Going(m.dir))
        kind(s) == IF m.purge # NoUser /\ s.discard THEN "discard" ELSE "confirmed"
    IN  [i \in DOMAIN going |-> Entry(kind(going[i]), going[i])]
          \o (IF m.tomb = NoSession THEN <<>> ELSE <<Entry("reclaimed", m.tomb)>>)

\* Mistake: the next identity is left to what the sessions still show.
HeaderAnew(m) == Header(m.gen, 1, m.purge, m.snap, TRUE)
\* storage_build_journal_header
HeaderOf(m) == Header(m.gen, m.nextId, m.purge, m.snap, TRUE)

\* storage_snapshot_next: the header, written last, makes the bank count.
SnapshotNext(m) ==
    LET pages == SnapshotPages(m)
        bank  == Bank(1 - m.cur)
    IN  IF m.snap < Len(pages)
        THEN [m EXCEPT !.op = Program(bank + 1 + m.snap, pages[m.snap + 1]),
                       !.job = "snapshot"]
        ELSE [m EXCEPT !.op = Program(bank, HeaderOf(m)), !.job = "header"]

\* storage_journal_session_info
Readable(s) ==
    /\ s.id # 0 /\ s.begin < s.end /\ s.end <= Pages
    /\ s.next >= s.begin /\ s.next <= s.end

\* storage_restore_reclaim
Restorable(r, s) ==
    /\ Readable(s)
    /\ Known(r.dir, s.id) \/ Cardinality(r.dir) < MaxSessions
    /\ \A d \in r.dir : d.id # s.id => ~Overlaps(d, s)

\* One entry of the bank, replayed; what it names is confirmed.
Replayed(r, e) ==
    LET s == [e.s EXCEPT !.confirmed = TRUE,
                         !.discard = @ \/ e.type = "discard"]
        counted == {"open", "checkpoint", "final", "confirmed", "discard", "reclaimed"}
        r1 == IF e.type \in counted /\ e.s.id >= r.nextId
              THEN [r EXCEPT !.nextId = e.s.id + 1] ELSE r
        same == r1.pending /\ r1.reclaim.id = s.id
    IN  CASE e.type = "purge_begin" ->
                [r1 EXCEPT !.purge = e.s.owner, !.pending = FALSE, !.foreign = FALSE]
          [] e.type \in {"confirmed", "progress", "discard"} /\ Restorable(r1, s) ->
                [r1 EXCEPT !.dir = Replace(@, s), !.reclaim = s,
                           !.pending = TRUE, !.foreign = (e.type = "discard")]
          [] e.type = "reclaimed" /\ Readable(s) ->
                [r1 EXCEPT !.tomb = s, !.dir = {d \in @ : d.id # s.id},
                           !.pending = @ /\ ~same, !.foreign = @ /\ ~same]
          [] e.type = "purge_done" -> [r1 EXCEPT !.purge = NoUser]
          [] e.type \in {"open", "checkpoint", "final"} -> r1
          [] OTHER -> Failed

IsHeader(page) == page.kind = "header" /\ page.ok
IsEntry(page) == page.kind = "entry" /\ page.ok

ValidBanks(fl) == {k \in 0 .. 1 : IsHeader(fl[Bank(k)])}
Generation(fl, k) == fl[Bank(k)].gen

\* The valid header of the higher generation counts.
CurrentBank(fl) ==
    LET valid == ValidBanks(fl)
    IN  IF 1 \in valid /\ (0 \in valid => Generation(fl, 1) > Generation(fl, 0))
        THEN 1 ELSE 0

\* The first page of bank k that is no entry.
Stop(fl, k) ==
    Min({i \in 1 .. BankPages - 1 : ~IsEntry(fl[Bank(k) + i])} \cup {BankPages})

SnapshotSize(h) == IF h.runtime THEN h.snap ELSE 0

FromHeader(fl, k) ==
    LET h == fl[Bank(k)]
    IN  [Off EXCEPT !.mode = "recovering", !.job = "scan", !.cur = k,
                    !.gen = h.gen, !.nextId = h.nextId, !.purge = h.purge,
                    !.snap = SnapshotSize(h), !.runtime = h.runtime]

\* What the header of bank k and the pages up to each one amount to.
After(fl, k) ==
    LET after[i \in 0 .. BankPages] ==
            IF i = 0 THEN FromHeader(fl, k)
            ELSE IF after[i - 1].mode = "error" THEN after[i - 1]
            ELSE Replayed(after[i - 1], fl[Bank(k) + i])
    IN  after

(* storage_journal_open_existing: the entries of the current bank up to a   *)
(* blank page, where the next goes, or a torn one, after which nothing      *)
(* goes.  Neither may stand in the snapshot.                                *)
Replay(fl) ==
    LET valid == ValidBanks(fl)
        twins == /\ valid = {0, 1} /\ Generation(fl, 0) = Generation(fl, 1)
                 /\ fl[Bank(0)] # fl[Bank(1)]
        cur   == CurrentBank(fl)
        stop  == Stop(fl, cur)
        last  == After(fl, cur)[stop - 1]
    IN  IF valid = {} \/ twins THEN Failed
        ELSE IF last.mode = "error" \/ stop <= SnapshotSize(fl[Bank(cur)]) THEN Failed
        ELSE [last EXCEPT !.next = IF stop < BankPages /\ fl[Bank(cur) + stop] = Blank
                                   THEN stop ELSE BankPages]

-----------------------------------------------------------------------------
(* Releasing what is confirmed or purged *)

\* storage_start_reclaim: from where an earlier attempt left off.
StartReclaim(m, s) ==
    LET from == IF s.next >= s.begin THEN s.next ELSE s.begin
        m1   == [m EXCEPT !.reclaim = [s EXCEPT !.next = from]]
    IN  IF m.paused /\ ~m.foreign
        THEN [m1 EXCEPT !.pending = FALSE, !.mode = "ready", !.job = "none",
                        !.op = Idle]
        ELSE IF from = s.end
        THEN Journal([m1 EXCEPT !.pending = TRUE], Entry("reclaimed", s), "reclaimed")
        ELSE [m1 EXCEPT !.pending = TRUE, !.mode = "busy", !.job = "reclaim",
                        !.op = Erase(from, SectorPages)]

\* storage_foreign_purge_start_next
StartNextPurge(m) ==
    LET left == Foreign(m.dir, m.purge)
        s    == First(left)
        m1   == [m EXCEPT !.mode = "busy"]
    IN  IF left = {}
        THEN Journal(m1, Entry("purge_done", [NoSession EXCEPT !.owner = m.purge]),
                     "purge_done")
        ELSE Journal([m1 EXCEPT !.reclaim = s, !.foreign = TRUE],
                     Entry("discard", s), "discard")

Ready(m) == [m EXCEPT !.mode = "ready", !.job = "none", !.op = Idle]

\* storage_recovery_complete
RecoveryComplete(m) ==
    LET m1 == [m EXCEPT !.head = MaxEnd(m.dir)]
        m2 == [m1 EXCEPT !.pending = FALSE]
    IN  IF m.pending /\ m.foreign THEN StartReclaim(m1, m.reclaim)
        ELSE IF m.purge # NoUser THEN StartNextPurge(m2)
        ELSE Ready(m2)

-----------------------------------------------------------------------------
(* Jobs: what each goes on with once its operation is read back. *)

Logged(m) == [m EXCEPT !.next = @ + 1]
Done(m) == [m EXCEPT !.job = "none", !.op = Idle]

BeginDone(m) == Journal(m, Entry("open", ActiveInfo(m.act, m.act.begin + 1)), "open")
OpenDone(m) == [Ready(Logged(m)) EXCEPT !.active = TRUE, !.checked = 0]

HeadDone(m) ==
    [m EXCEPT !.job = "page1",
              !.op = Program(@.at + 1, Torn(EventTail(m.act.id, m.act.count)))]
TailDone(m) ==
    [m EXCEPT !.job = "commit",
              !.op = Program(@.at, EventTail(m.act.id, m.act.count))]
CommitDone(m) == Done([m EXCEPT !.act.count = @ + 1])
CheckpointDone(m) == Done(Logged([m EXCEPT !.checked = m.act.count]))

EndDone(m) == Journal(m, Entry("final", FinalInfo(m.act)), "final")
FinalDone(m) ==
    LET s == FinalInfo(m.act)
    IN  IF Cardinality(m.dir) >= MaxSessions THEN Failed
        ELSE [Ready(Logged(m)) EXCEPT !.dir = @ \cup {s}, !.head = s.end,
                                      !.active = FALSE]

ConfirmDone(m) ==
    LET s == [Named(m.dir, m.reclaim.id) EXCEPT !.confirmed = TRUE]
    IN  IF ~Known(m.dir, m.reclaim.id) THEN Failed
        ELSE StartReclaim([Logged(m) EXCEPT !.dir = Replace(@, s)], s)

DiscardDone(m) ==
    LET s == IF Known(m.dir, m.reclaim.id)
             THEN LET d == Named(m.dir, m.reclaim.id)
                  IN  [d EXCEPT !.confirmed = TRUE, !.discard = TRUE, !.next = d.begin]
             ELSE m.reclaim
    IN  StartReclaim([Logged(m) EXCEPT
                        !.dir = IF Known(@, s.id) THEN Replace(@, s) ELSE @], s)

\* Mistake: one sector beyond the extent.
GoesOn(s) == s.next <= s.end
Unfinished(s) == s.next < s.end

\* RECLAIM_VERIFY: one sector is blank again.
SectorReclaimed(m) ==
    LET s  == [m.reclaim EXCEPT !.next = @ + SectorPages]
        m1 == [m EXCEPT !.reclaim = s,
                        !.dir = IF Known(@, s.id)
                                THEN Replace(@, [Named(@, s.id) EXCEPT !.next = s.next])
                                ELSE @]
    IN  IF m.paused /\ ~m.foreign THEN Journal(m1, Entry("progress", s), "progress")
        ELSE IF Unfinished(s) THEN [m1 EXCEPT !.op = Erase(s.next, SectorPages)]
        ELSE Journal(m1, Entry("reclaimed", s), "reclaimed")

ProgressDone(m) == Ready([Logged(m) EXCEPT !.pending = FALSE])

ReclaimedDone(m) ==
    LET left == {d \in m.dir : d.id # m.reclaim.id}
        m1   == [Logged(m) EXCEPT !.pending = FALSE, !.foreign = FALSE,
                                  !.tomb = m.reclaim, !.dir = left,
                                  !.head = MaxEnd(left)]
    IN  IF m.foreign THEN StartNextPurge(m1) ELSE Ready(m1)

PurgeDone(m) == Ready([Logged(m) EXCEPT !.purge = NoUser])

RotateDone(m) == SnapshotNext([m EXCEPT !.gen = @ + 1, !.snap = 0])
SnapshotDone(m) == SnapshotNext([m EXCEPT !.snap = @ + 1])
HeaderDone(m) ==
    [m EXCEPT !.cur = 1 - @, !.next = m.snap + 1, !.runtime = TRUE,
              !.op = Program(Bank(1 - m.cur) + m.snap + 1, m.held),
              !.job = m.resume, !.held = Blank, !.resume = "none"]

RepairDone(m) == [m EXCEPT !.job = "scan", !.op = Idle]

\* storage_poll_runtime
RuntimeStep(m) ==
    CASE m.job = "begin"       -> BeginDone(m)
      [] m.job = "open"        -> OpenDone(m)
      [] m.job = "page0"       -> HeadDone(m)
      [] m.job = "page1"       -> TailDone(m)
      [] m.job = "commit"      -> CommitDone(m)
      [] m.job = "checkpoint"  -> CheckpointDone(m)
      [] m.job = "end"         -> EndDone(m)
      [] m.job = "final"       -> FinalDone(m)
      [] m.job = "confirm"     -> ConfirmDone(m)
      [] m.job = "purge_begin" -> StartNextPurge(Logged(m))
      [] m.job = "discard"     -> DiscardDone(m)
      [] m.job = "reclaim"     -> SectorReclaimed(m)
      [] m.job = "progress"    -> ProgressDone(m)
      [] m.job = "reclaimed"   -> ReclaimedDone(m)
      [] m.job = "purge_done"  -> PurgeDone(m)
      [] m.job = "rotate"      -> RotateDone(m)
      [] m.job = "snapshot"    -> SnapshotDone(m)
      [] m.job = "header"      -> HeaderDone(m)

\* storage_poll_recovery_step knows the recovery's own jobs only.
RecoveryStep(m) == IF m.job = "repair" THEN RepairDone(m) ELSE Failed

\* The read-back after the write.
Verified(fl, op) ==
    CASE op.do = "program" -> fl[op.at] = op.page
      [] op.do = "erase"   -> \A p \in op.at .. op.upto : fl[p] = Blank

OperationDone ==
    LET fl == Completed(flash, store.op)
        m  == IF ~Verified(fl, store.op) THEN Failed
              ELSE IF store.mode = "recovering" THEN RecoveryStep(store)
              ELSE RuntimeStep(store)
    IN  /\ store.op # Idle
        /\ flash' = fl
        /\ Do(m)
        /\ saved' = IF store.job \in {"open", "commit"} /\ store'.active
                    THEN [saved EXCEPT ![store'.act.id] = store'.act] ELSE saved
        /\ UNCHANGED <<released, mishaps>>

-----------------------------------------------------------------------------
(* Boot and recovery *)

\* storage_init_with_policy with the marker READY, and storage_recover_begin.
Mount ==
    /\ store.mode \in {"off", "error"}
    /\ Do(Replay(flash))
    /\ UNCHANGED <<flash, saved, released, mishaps>>

\* storage_recovery_journal_safe
JournalSafe(m, dir) ==
    m.pending => \A s \in dir : Overlaps(s, m.reclaim) =>
        s.id = m.reclaim.id /\ s.begin = m.reclaim.begin /\ s.end = m.reclaim.end

\* The extents that go: the walk skips them.
Claims(m) == m.dir \cup (IF m.pending /\ m.foreign THEN {m.reclaim} ELSE {})

\* What the walk `w` amounts to: the directory and the repairs.
Scanned(m, w) ==
    LET found == ToSet(w.found)
        dir   == m.dir \cup found
    IN  [ok |-> /\ w.ok
                /\ Cardinality(m.dir) + Len(w.found) <= MaxSessions
                /\ \A s \in found, d \in dir :
                      s # d => s.id # d.id /\ ~Overlaps(s, d)
                /\ JournalSafe(m, dir),
         dir |-> dir, repair |-> w.repair,
         nextId |-> Max({s.id + 1 : s \in found} \cup {m.nextId})]

\* The scan of the result area, up to the next repair or to its end.
Recover ==
    /\ store.mode = "recovering" /\ store.job = "scan"
    /\ \E w \in {Walk(flash, Claims(store))} :
        LET c == Scanned(store, w)
            m == [store EXCEPT !.nextId = c.nextId]
        IN  Do(IF ~c.ok THEN Failed
               ELSE IF c.repair # <<>>
               THEN [m EXCEPT !.op = Head(c.repair), !.job = "repair"]
               ELSE RecoveryComplete([m EXCEPT !.dir = c.dir]))
    /\ UNCHANGED <<flash, saved, released, mishaps>>

-----------------------------------------------------------------------------
(* What the capture task and the phone ask for *)

Resting == store.job = "none" /\ ~store.active

\* (By itself a mistake: the directory may be full.)
HasPages == store.head + RoomToBegin <= Pages
HasRoom ==
    /\ HasPages
    /\ store.nextId < IdLimit
    /\ Cardinality(store.dir) < MaxSessions

\* storage_begin_session
BeginSession(u) ==
    LET begin == AlignUp(store.head)
        a     == Session(store.nextId, u, begin, begin, 0)
    IN  /\ store.mode = "ready" /\ Resting /\ HasRoom
        /\ Do([store EXCEPT !.act = a, !.nextId = @ + 1, !.mode = "busy",
                            !.job = "begin",
                            !.op = Program(begin, BeginPage(a.id, u))])
        /\ UNCHANGED <<flash, saved, released, mishaps>>

\* storage_append_event; the END sector must still fit behind the event.
AppendEvent ==
    LET a    == store.act
        slot == Slot(a.begin, a.count)
    IN  /\ store.active /\ store.job = "none" /\ a.count < MaxEvents
        /\ slot + 2 <= Pages /\ AlignUp(slot + 2) + SectorPages <= Pages
        /\ Do([store EXCEPT !.job = "page0",
                            !.op = Program(slot, EventHead(a.id, a.count))])
        /\ UNCHANGED <<flash, saved, released, mishaps>>

\* storage_checkpoint; whether it is due by time is left open.
Checkpoint ==
    LET a == store.act
    IN  /\ store.active /\ store.job = "none" /\ a.count # store.checked
        /\ Do(Journal(store, Entry("checkpoint",
                                   ActiveInfo(a, Slot(a.begin, a.count))),
                      "checkpoint"))
        /\ UNCHANGED <<flash, saved, released, mishaps>>

\* storage_finalize_session
FinalizeSession ==
    LET a == store.act
    IN  /\ store.active /\ store.job = "none"
        /\ Do([store EXCEPT !.mode = "busy", !.job = "end",
                            !.op = Program(FinalSector(a), EndPage(a.id, a.count))])
        /\ UNCHANGED <<flash, saved, released, mishaps>>

\* storage_confirm_session, of the session offline_sync_select_session chose:
\* the user's latest, not yet confirmed.
ConfirmSession(u) ==
    LET mine == OwnedBy(store.dir, u)
        s    == [Latest(mine) EXCEPT !.next = Latest(mine).begin]
    IN  /\ store.mode = "ready" /\ Resting
        /\ mine # {} /\ ~Latest(mine).confirmed
        /\ Do(Journal([store EXCEPT !.dir = Replace(@, s), !.foreign = FALSE,
                                    !.reclaim = s],
                      Entry("confirmed", s), "confirm"))
        /\ released' = released \cup {s.id}
        /\ UNCHANGED <<flash, saved, mishaps>>

\* storage_foreign_purge_request
PurgeRequest(u) ==
    /\ store.mode = "ready" /\ Resting
    /\ store.purge = NoUser /\ ~store.pending
    /\ Foreign(store.dir, u) # {}
    /\ Do(Journal([store EXCEPT !.purge = u, !.mode = "busy"],
                  Entry("purge_begin", [NoSession EXCEPT !.owner = u]),
                  "purge_begin"))
    /\ released' = released \cup {s.id : s \in Foreign(store.dir, u)}
    /\ UNCHANGED <<flash, saved, mishaps>>

\* storage_pause_reclaim: a local recording goes before the erasing.
PauseReclaim ==
    /\ ~store.paused /\ store.mode \in {"ready", "busy"}
    /\ ~store.active
    /\ {store.job, store.resume} \cap {"begin", "open", "end", "final"} = {}
    /\ store.purge = NoUser /\ HasRoom
    /\ Do([store EXCEPT !.paused = TRUE])
    /\ UNCHANGED <<flash, saved, released, mishaps>>

\* storage_release_reclaim, once preempt_poll sees neither capture nor job.
ReleaseReclaim ==
    /\ store.paused /\ Resting
    /\ Do([store EXCEPT !.paused = FALSE])
    /\ UNCHANGED <<flash, saved, released, mishaps>>

\* storage_resume_reclaim
ResumeReclaim(u) ==
    LET mine == OwnedBy(store.dir, u)
    IN  /\ store.mode = "ready" /\ Resting
        /\ ~store.paused /\ store.purge = NoUser
        /\ mine # {} /\ Latest(mine).confirmed
        /\ Do(StartReclaim([store EXCEPT !.foreign = FALSE], Latest(mine)))
        /\ UNCHANGED <<flash, saved, released, mishaps>>

-----------------------------------------------------------------------------
(* What may go wrong *)

PowerLoss ==
    /\ mishaps < Mishaps /\ store.mode # "off"
    /\ mishaps' = mishaps + 1
    /\ flash' \in Interrupted(flash, store.op)
    /\ Do(Off)
    /\ UNCHANGED <<saved, released>>

\* The chip stops answering, or the read-back differs.
FlashFault ==
    /\ mishaps < Mishaps /\ store.op # Idle
    /\ mishaps' = mishaps + 1
    /\ flash' \in Interrupted(flash, store.op)
    /\ Do(Failed)
    /\ UNCHANGED <<saved, released>>

-----------------------------------------------------------------------------

\* A cleared device: journal bank A of the old format, everything else blank.
Init ==
    /\ flash = [p \in Chip |-> IF p = Bank(0) THEN Header(1, 1, NoUser, 0, FALSE)
                               ELSE Blank]
    /\ store = Off
    /\ saved = [i \in Ids |-> NoSession]
    /\ released = {} /\ shown = {}
    /\ mishaps = 0

Next ==
    \/ OperationDone
    \/ Mount
    \/ Recover
    \/ \E u \in Users : BeginSession(u)
    \/ AppendEvent
    \/ Checkpoint
    \/ FinalizeSession
    \/ \E u \in Users : ConfirmSession(u)
    \/ \E u \in Purgers : PurgeRequest(u)
    \/ PauseReclaim
    \/ ReleaseReclaim
    \/ \E u \in Users : ResumeReclaim(u)
    \/ PowerLoss
    \/ FlashFault

Spec == Init /\ [][Next]_vars

-----------------------------------------------------------------------------
(* Properties *)

\* Every field of the store stays in its range.
StorageTypeOK ==
    /\ store.mode \in {"off", "recovering", "ready", "busy", "error"}
    /\ store.nextId \in 1 .. IdLimit /\ store.head \in 0 .. Pages
    /\ store.next \in 1 .. BankPages /\ store.cur \in 0 .. 1
    /\ Cardinality(store.dir) <= MaxSessions
    /\ \A s \in store.dir :
          /\ s.id \in Ids /\ s.owner \in Users
          /\ s.begin < s.end /\ s.end <= Pages /\ s.next <= s.end
          /\ \A d \in store.dir : s # d => s.id # d.id /\ ~Overlaps(s, d)
    /\ (store.op = Idle) <=> (store.job \in {"none", "scan"})
    /\ store.mode \in {"off", "error"} => store.job = "none" /\ ~store.active

(* Whatever is cut short or fails, a session that was opened and is neither *)
(* confirmed nor purged keeps every event the store has verified, and a     *)
(* store that is ready lists it for its owner with no more than the one     *)
(* event that was on its way added: recovery, repair, rotation and the      *)
(* erasing of other sessions never take it.                                 *)
SavedSurvives ==
    \A id \in Ids \ released : LET k == saved[id] IN k # NoSession =>
        /\ flash[k.begin] = BeginPage(id, k.owner)
        /\ \A n \in 0 .. k.count - 1 : EventAt(flash, k.begin, id, n)
        /\ store.mode \in {"ready", "busy"} =>
              \/ store.act = k /\ ~Known(store.dir, id)
              \/ \E s \in store.dir :
                    /\ s.id = id /\ s.owner = k.owner /\ s.begin = k.begin
                    /\ s.count \in k.count .. k.count + 1 /\ ~s.confirmed

(* A program never meets a page that holds anything but its own uncommitted *)
(* form, wherever earlier boots were cut short; and what lies behind the    *)
(* head of a ready store, where the next session goes, is blank.            *)
OnlyBlankIsWritten ==
    /\ store.op.do = "program" =>
          flash[store.op.at] \in {Blank, Torn(store.op.page)}
    /\ store.mode = "ready" /\ Resting =>
          \A p \in store.head .. Pages - 1 : flash[p] = Blank

(* A store that rests holds in RAM what the next boot would rebuild from    *)
(* the Flash alone, with nothing to repair: the same sessions, the same     *)
(* ones confirmed and as far erased, the same next identity, no purge.      *)
\* (Where the journal can be replayed: see JournalAlwaysReplays.)
DirectoryIsDurable ==
    LET view(dir) == {[s EXCEPT !.discard = FALSE,
                                !.next = IF s.confirmed THEN @ ELSE 0] : s \in dir}
    IN  store.mode = "ready" /\ Resting =>
            \A r \in {Replay(flash)} : r.mode # "error" =>
                \A w \in {Walk(flash, Claims(r))} :
                    LET c == Scanned(r, w)
                    IN  /\ c.ok /\ c.repair = <<>>
                        /\ view(c.dir) = view(store.dir)
                        /\ c.nextId = store.nextId /\ r.purge = NoUser

(* No session begins under an identity the directory has ever shown, even   *)
(* when that session is erased and the journal bank that named it is gone:  *)
(* a phone that knows the old session would take the new one for it.        *)
IdentityNeverReused == store.job = "begin" => store.act.id \notin shown

(* The journal on Flash can be replayed at every instant, so the recovery   *)
(* that the next boot owes an interrupted session can take place.           *)
JournalAlwaysReplays == Replay(flash).mode # "error"

=============================================================================
