-------------------------- MODULE OfflineSafety_proofs --------------------------
(***************************************************************************)
(* What the offline store does with the result area, over the invariant of *)
(* OfflineStorage_proofs: the area is empty but for the sessions that RAM  *)
(* lists (Area), what a purge may take (Purge), and what the journal would *)
(* tell a boot at this instant (Ledger, Agrees).  On it rest two more: no  *)
(* session that is to be kept is lost (Kept), and no identity that was     *)
(* shown is used again (Shown).                                            *)
(***************************************************************************)
EXTENDS OfflineStorage_proofs

-----------------------------------------------------------------------------
(* What a boot would be told *)

\* The journal as a boot would replay it now.
Told(fl) == After(fl, CurrentBank(fl))[Stop(fl, CurrentBank(fl)) - 1]
Tells(fl) == Told(fl).mode # "error"

\* Recovery is over: what RAM holds is what the store goes by.
Running(m) == Mounted(m) /\ m.job \notin {"scan", "repair"}

\* The job that a change of banks interrupts is still to be done.
Doing(m) == IF m.job \in RotationJobs THEN m.resume ELSE m.job
Note(m) == IF m.job \in RotationJobs THEN m.held ELSE m.op.page

-----------------------------------------------------------------------------
(* The result area, while job `job` is done *)

\* What an erase leaves: and what it may leave when it is cut short later.
Voids == {Blank} \cup (IF "spoiled" \in Tears THEN {Scrap} ELSE {})
Cleared(fl, s) == \A p \in s.begin .. s.next - 1 : fl[p] \in Voids

Within(p, s) == s.begin <= p /\ p < s.end
\* What follows a session is not taken for the second page of an event of it.
Closed(fl, s) == fl[s.end - 1].kind # "event"
Apart(fl, b) == b = 0 \/ fl[b - 1].kind # "event"

SamePlace(r, s) ==
    r.id = s.id /\ r.owner = s.owner /\ r.begin = s.begin /\ r.end = s.end
Marked(dir, s) == \E d \in dir : SamePlace(d, s) /\ d.confirmed

NextSlot(m) == Slot(m.act.begin, m.act.count)
\* The first page that the session being recorded has not written.
Reached(m, job) ==
    CASE job = "begin"  -> m.act.begin
      [] job = "page1"  -> NextSlot(m) + 1
      [] job = "commit" -> NextSlot(m) + 2
      [] OTHER          -> NextSlot(m)

Records(m, job) == m.active \/ job \in {"begin", "open"}
Used(m, job, p) ==
    \/ \E d \in m.dir : Within(p, d)
    \/ Records(m, job) /\ m.act.begin <= p /\ p < Reached(m, job)
    \/ job = "final" /\ p = FinalSector(m.act)

SessionsOK(fl, dir) == \A d \in dir : Cleared(fl, d) /\ Closed(fl, d)
AreaOK(fl, m, job) ==
    /\ \A p \in 0 .. Pages - 1 : fl[p] \in Voids \/ Used(m, job, p)
    /\ SessionsOK(fl, m.dir)

\* The BEGIN page of a session and the events counted so far.
Stands(fl, a) ==
    /\ fl[a.begin] = BeginPage(a.id, a.owner)
    /\ \A n \in 0 .. a.count - 1 : EventAt(fl, a.begin, a.id, n)

RecordingStands(fl, m, job) ==
    /\ Records(m, job) => Apart(fl, m.act.begin)
    /\ job \in {"begin", "open"} => m.act.count = 0
    /\ m.active \/ job = "open" => Stands(fl, m.act)

\* What the job writes to the area, or erases.
OperationOK(fl, m) ==
    LET a == m.act
    IN  /\ m.job \in PageJobs => m.mode # "recovering"
        /\ m.job = "begin" => m.op = Program(a.begin, BeginPage(a.id, a.owner))
        /\ m.job = "page0" => m.op = Program(NextSlot(m), EventHead(a.id, a.count))
        /\ m.job = "page1" => m.op = Program(NextSlot(m) + 1, Torn(EventTail(a.id, a.count)))
        /\ m.job = "commit" =>
              /\ m.op = Program(NextSlot(m) + 1, EventTail(a.id, a.count))
              /\ fl[NextSlot(m) + 1] = Torn(EventTail(a.id, a.count))
        /\ m.job \in {"page1", "commit"} => fl[NextSlot(m)] = EventHead(a.id, a.count)
        /\ m.job = "end" => m.op = Program(FinalSector(a), EndPage(a.id, a.count))
        /\ m.job = "reclaim" => m.op = Erase(m.reclaim.next, SectorPages)

-----------------------------------------------------------------------------
(* What the entry says, and what a purge may take *)

\* The entry `e` ends job `job`; what is erased is known to go.
NoteOK(fl, m, job, e) ==
    /\ job \in {"open", "checkpoint", "final"} => e.type = job /\ e.s.id = m.act.id
    /\ job = "confirm" =>
          e.type = "confirmed" /\ e.s \in m.dir /\ e.s.id = m.reclaim.id
    /\ job = "discard" => e.type = "discard" /\ e.s \in m.dir /\ e.s = m.reclaim
    /\ job = "progress" => e = Entry("progress", m.reclaim)
    /\ job = "reclaimed" =>
          /\ e.type = "reclaimed" /\ SamePlace(e.s, m.reclaim)
          /\ m.reclaim.next = m.reclaim.end
    /\ job = "purge_begin" => e.type = "purge_begin" /\ e.s.owner = m.purge
    /\ job = "purge_done" => e.type = "purge_done"
    /\ job \in {"reclaim", "progress", "reclaimed"} =>
          /\ Marked(m.dir, m.reclaim) /\ Cleared(fl, m.reclaim)
          /\ m.reclaim.discard => m.foreign

PurgeJobs == {"purge_begin", "discard", "reclaim", "reclaimed", "purge_done"}

PurgeOK(m, job) ==
    /\ m.purge \in Users =>
          /\ m.mode # "ready" /\ job \in PurgeJobs
          /\ job \in {"reclaim", "reclaimed"} => m.foreign
    /\ job \in {"purge_begin", "discard", "purge_done"} => m.purge \in Users
    /\ job \in {"reclaim", "reclaimed"} /\ m.foreign => m.purge \in Users
    /\ job = "discard" => m.foreign /\ m.reclaim.owner # m.purge
    /\ job \in {"confirm", "progress"} => ~m.foreign
    /\ job = "purge_done" => Foreign(m.dir, m.purge) = {}
    /\ \A d \in m.dir : d.discard =>
          m.purge \in Users /\ d.owner # m.purge /\ job # "purge_begin"

-----------------------------------------------------------------------------
(* The ledger: what a boot would be told, and what RAM knows of it *)

LedgerOK(fl, t) ==
    /\ SessionsOK(fl, t.dir)
    /\ \A d \in t.dir : d.discard => t.purge \in Users /\ d.owner # t.purge
    /\ t.pending /\ t.foreign => t.reclaim.discard

\* What goes by the journal goes by the directory.
AgreesOK(t, m, job) ==
    /\ \A d \in t.dir : Marked(m.dir, d)
    /\ t.purge = m.purge \/ (job = "purge_begin" /\ t.purge = NoUser)

\* The new bank gets the snapshot page by page.
SnapshotOK(fl, m) ==
    m.job \in {"snapshot", "header"} =>
        \A i \in 1 .. m.snap : fl[Bank(1 - m.cur) + i] = SnapshotPages(m)[i]

-----------------------------------------------------------------------------
(* The invariant *)

\* What holds of the fields a job works with, up to its entry `e`.
CoreOK(fl, m, job, e) ==
    /\ AreaOK(fl, m, job) /\ RecordingStands(fl, m, job)
    /\ NoteOK(fl, m, job, e) /\ PurgeOK(m, job)
    /\ Tells(fl) => AgreesOK(Told(fl), m, job)

RunSafe(fl, m) ==
    /\ CoreOK(fl, m, Doing(m), Note(m))
    /\ OperationOK(fl, m) /\ SnapshotOK(fl, m)

\* A recovery knows what it was told, and repairs what is nobody's.
RecoverySafe(fl, m) ==
    LET t == Told(fl)
    IN  /\ Tells(fl)
        /\ m.dir = t.dir /\ m.purge = t.purge /\ m.pending = t.pending
        /\ m.foreign = t.foreign /\ m.reclaim = t.reclaim
        /\ m.op.do = "program" =>
              /\ fl[m.op.at] = Blank /\ m.op.page.kind = "end"
              /\ \A d \in m.dir : ~Within(m.op.at, d)
        /\ m.op.do = "erase" =>
              \A p \in m.op.at .. m.op.upto : ~fl[p].ok /\ fl[p].kind \in {"begin", "blank"}

FlashSafe(fl) == Tells(fl) => LedgerOK(fl, Told(fl))
AreaSafe(fl, m) ==
    /\ FlashSafe(fl)
    /\ Running(m) => RunSafe(fl, m)
    /\ m.job \in {"scan", "repair"} => RecoverySafe(fl, m)

AreaInv == StoreInv /\ AreaSafe(flash, store)

-----------------------------------------------------------------------------
(* What a boot would be told.                                                *)

LEMMA ToldIs ==
  ASSUME NEW fl \in [Chip -> PageSet], NEW k \in 0 .. 1, JournalOK(fl, k)
  PROVE  /\ CurrentBank(fl) = k
         /\ Stop(fl, k) \in 1 .. BankPages
         /\ Told(fl) = After(fl, k)[Stop(fl, k) - 1]
         /\ Told(fl) = Failed \/ ScanOK(fl, k, Stop(fl, k), Told(fl))
         /\ Tells(fl) => ScanOK(fl, k, Stop(fl, k), Told(fl))
  <1>1. \A j \in 0 .. 1 : IsHeader(fl[Bank(j)]) => Generation(fl, j) \in Nat
    <2> TAKE j \in 0 .. 1
    <2>1. Bank(j) + 0 \in Chip /\ Bank(j) \in Nat BY BankAddresses, Sizes
    <2>2. fl[Bank(j)] \in PageSet BY <2>1
    <2> QED BY <2>2, PageKinds DEF IsHeader, Generation, HeaderPages
  <1>2. CurrentBank(fl) = k BY <1>1, CurrentIs
  <1>3. PICK stop \in 1 .. BankPages : stop = Stop(fl, k) BY StopIs
  <1>4. stop - 1 \in 0 .. stop - 1 /\ (stop - 1) + 1 = stop OBVIOUS
  <1>5. Told(fl) = After(fl, k)[stop - 1] BY <1>2, <1>3 DEF Told
  <1>6. Told(fl) = Failed \/ ScanOK(fl, k, stop, Told(fl)) BY <1>3, <1>4, <1>5, AfterGoes
  <1>7. Failed.mode = "error" BY DEF Failed, Off
  <1> QED BY <1>2, <1>3, <1>5, <1>6, <1>7 DEF Tells

\* The journal amounts to what its pages say, whatever else the chip holds.
LEMMA AfterSame ==
  ASSUME NEW fl, NEW new, NEW k \in 0 .. 1, NEW n \in 0 .. BankPages - 1,
         \A i \in 0 .. n : new[Bank(k) + i] = fl[Bank(k) + i]
  PROVE  After(new, k)[n] = After(fl, k)[n]
  <1> DEFINE f == After(fl, k)
             g == After(new, k)
             Bad == {i \in Nat : i <= n /\ g[i] # f[i]}
  <1>1. g[0] = f[0]
    <2>1. 0 \in 0 .. n /\ Bank(k) + 0 = Bank(k) BY BankAddresses
    <2>2. new[Bank(k)] = fl[Bank(k)] BY <2>1
    <2>3. FromHeader(new, k) = FromHeader(fl, k) BY <2>2 DEF FromHeader
    <2> QED BY <2>3, AfterUnfolds
  <1>2. ASSUME NEW i \in Nat, i + 1 <= n, g[i] = f[i] PROVE g[i + 1] = f[i + 1]
    <2>1. i \in 0 .. BankPages - 1 /\ i + 1 \in 0 .. n BY <1>2, Sizes
    <2>2. new[Bank(k) + (i + 1)] = fl[Bank(k) + (i + 1)] BY <2>1
    <2> QED BY <1>2, <2>1, <2>2, AfterUnfolds
  <1> HIDE DEF f, g
  <1>3. Bad = {}
    <2> SUFFICES ASSUME Bad # {} PROVE FALSE OBVIOUS
    <2>1. Min(Bad) \in Bad /\ \A y \in Bad : Min(Bad) <= y BY MinIs
    <2>2. PICK b \in Nat : b <= n /\ g[b] # f[b] /\ \A y \in Bad : b <= y BY <2>1
    <2>3. b # 0 BY <1>1, <2>2
    <2>4. b - 1 \in Nat /\ ~(b <= b - 1) /\ (b - 1) + 1 = b BY <2>3
    <2>5. b - 1 <= n BY <2>2, <2>3
    <2>6. g[b - 1] = f[b - 1] BY <2>2, <2>4, <2>5
    <2> QED BY <1>2, <2>2, <2>4, <2>6
  <1>4. g[n] = f[n] BY <1>3
  <1> QED BY <1>4 DEF f, g

LEMMA ToldKept ==
  ASSUME NEW fl \in [Chip -> PageSet], NEW new, NEW k \in 0 .. 1, JournalOK(fl, k),
         Preserved(fl, new, k)
  PROVE  Told(new) = Told(fl)
  <1>1. PICK n \in 1 .. BankPages : n = Stop(fl, k) BY StopIs
  <1>2. n - 1 \in 0 .. BankPages - 1 /\ \A i \in 0 .. n - 1 : i \in 0 .. BankPages - 1 BY Sizes
  <1>3. After(new, k)[n - 1] = After(fl, k)[n - 1] BY <1>2, AfterSame DEF Preserved
  <1>4. Told(new) = After(new, k)[Stop(new, k) - 1] /\ Stop(new, k) = n
    BY <1>1, ToldIs DEF Preserved
  <1> QED BY <1>1, <1>3, <1>4, ToldIs

\* An entry on its way is either read by a boot, as the last, or it is not there.
LEMMA ToldGrows ==
  ASSUME NEW fl, FlashOK(fl), NEW m, StoreOK(fl, m), m.job \in JournalJobs,
         NEW new \in Interrupted(fl, m.op)
  PROVE  /\ Told(new) = Told(fl) \/ (Tells(fl) /\ Told(new) = Replayed(Told(fl), m.op.page))
         /\ Verified(new, m.op) /\ Tells(new) =>
              Tells(fl) /\ Told(new) = Replayed(Told(fl), m.op.page)
         /\ \A p \in 0 .. Pages - 1 : new[p] = fl[p]
  <1> DEFINE k == m.cur
             e == m.op.page
  <1>1. /\ Mounted(m) /\ k \in 0 .. 1 /\ m.next \in 1 .. BankPages /\ m.next < BankPages
        /\ m.op.do = "program" /\ m.op.at = Bank(k) + m.next /\ e \in Entries
        /\ m.op \in Operations
    BY StoreParts, SMTT(30) DEF JobOK, Mounted, Fits, Stores, JournalJobs
  <1>2. JournalOK(fl, k) /\ m.next = Stop(fl, k) /\ fl[Bank(k) + m.next] = Blank
    BY <1>1, StoreParts DEF CursorOK
  <1>3. fl \in [Chip -> PageSet] BY DEF FlashOK
  <1>4. PICK n \in 1 .. BankPages - 1 : n = m.next BY <1>1, Sizes
  <1>5. PICK p \in Chip : p = Bank(k) + n /\ p \notin 0 .. Pages - 1
    <2>1. n \in 0 .. BankPages - 1 OBVIOUS
    <2> QED BY <1>1, <2>1, BankAddresses
  <1>6. m.op = Program(p, e) /\ e \in PageSet
    BY <1>1, <1>4, <1>5, OperationForms DEF Idle, Program
  <1>7. /\ \A q \in Chip \ {p} : new[q] = fl[q]
        /\ new[p] \in {Blank, e, Torn(e), Scrap}
    <2>1. new \in Interrupted(fl, Program(p, e)) BY <1>6
    <2> HIDE DEF e
    <2> QED BY <1>2, <1>3, <1>4, <1>5, <1>6, <2>1, CutProgram
  <1>8. \A q \in 0 .. Pages - 1 : new[q] = fl[q] BY <1>5, <1>7, Sizes DEF Chip
  <1>9. \A i \in 0 .. BankPages - 1 : i # n => new[Bank(k) + i] = fl[Bank(k) + i]
    <2> TAKE i \in 0 .. BankPages - 1
    <2>1. Bank(k) + i \in Chip /\ Bank(k) \in Nat BY <1>1, BankAddresses
    <2>2. i # n => Bank(k) + i # p BY <1>5, <2>1
    <2> QED BY <1>7, <2>1, <2>2
  <1>10. n - 1 \in 0 .. BankPages - 1 /\ \A i \in 0 .. n - 1 : i \in 0 .. BankPages - 1 /\ i # n
    BY Sizes
  <1>11. After(new, k)[n - 1] = After(fl, k)[n - 1]
    <2>1. \A i \in 0 .. n - 1 : new[Bank(k) + i] = fl[Bank(k) + i] BY <1>9, <1>10
    <2>2. k \in 0 .. 1 /\ n - 1 \in 0 .. BankPages - 1 BY <1>1, <1>10
    <2> HIDE DEF k
    <2> QED BY ONLY <2>1, <2>2, AfterSame
  <1>12. Told(fl) = After(fl, k)[n - 1] BY <1>1, <1>2, <1>3, <1>4, ToldIs
  <1>13. JournalOK(new, k) /\ new \in [Chip -> PageSet] BY CutEntry
  <1>14. Told(new) = After(new, k)[Stop(new, k) - 1] BY <1>1, <1>13, ToldIs
  <1>15. CASE new[p] = e
    <2>1. Stop(new, k) = n + 1 BY <1>4, <1>5, <1>15, CutEntry
    <2>2. (n + 1) - 1 = n /\ (n - 1) + 1 = n OBVIOUS
    <2>3. Told(new) = After(new, k)[n] BY <1>14, <2>1, <2>2
    <2>4. After(new, k)[n] = IF After(new, k)[n - 1].mode = "error" THEN After(new, k)[n - 1]
                             ELSE Replayed(After(new, k)[n - 1], new[Bank(k) + n])
      BY <1>10, <2>2, AfterUnfolds
    <2>5. Told(new) = IF Told(fl).mode = "error" THEN Told(fl) ELSE Replayed(Told(fl), e)
      BY <1>5, <1>11, <1>12, <1>15, <2>3, <2>4
    <2> HIDE DEF e, k
    <2> QED BY <1>8, <2>5 DEF Tells, e
  <1>16. CASE new[p] # e
    <2>1. ~IsEntry(new[p])
      <3>1. ~IsEntry(Blank) /\ ~IsEntry(Scrap) BY DEF IsEntry, Blank, Scrap
      <3> QED BY <1>6, <1>7, <1>16, <3>1, TornPage
    <2>2. \A i \in 1 .. n - 1 : IsEntry(new[Bank(k) + i])
      <3>1. \A i \in 1 .. n - 1 : i \in 0 .. BankPages - 1 /\ i # n BY Sizes
      <3> QED BY <1>1, <1>2, <1>4, <1>9, <3>1, StopIs
    <2>3. Stop(new, k) = n
      <3>1. n \in 1 .. BankPages /\ ~IsEntry(new[Bank(k) + n]) BY <1>5, <2>1, Sizes
      <3> HIDE DEF k
      <3> QED BY <1>1, <2>2, <3>1, StopUnique
    <2>4. Told(new) = Told(fl) BY <1>11, <1>12, <1>14, <2>3
    <2>5. ~Verified(new, m.op) BY <1>1, <1>4, <1>5, <1>16 DEF Verified
    <2> QED BY <1>8, <2>4, <2>5
  <1> QED BY <1>15, <1>16

-----------------------------------------------------------------------------
(* What one more entry changes.                                              *)

\* The session of the entry as a replay takes it.
Marking(e) == [e.s EXCEPT !.confirmed = TRUE, !.discard = @ \/ e.type = "discard"]

Grown(t, e, r) ==
    /\ t.nextId <= r.nextId /\ (e.type \in Counted => e.s.id < r.nextId)
    /\ \/ /\ e.type \in {"confirmed", "progress", "discard"}
          /\ r.dir = Replace(t.dir, Marking(e)) /\ r.purge = t.purge
          /\ r.reclaim = Marking(e) /\ r.foreign = (e.type = "discard")
       \/ /\ e.type = "reclaimed" /\ r.dir = {d \in t.dir : d.id # e.s.id}
          /\ r.purge = t.purge /\ r.reclaim = t.reclaim
          /\ r.pending => t.pending
          /\ r.foreign => t.foreign
       \/ /\ e.type = "purge_begin" /\ r.dir = t.dir
          /\ r.purge = e.s.owner /\ ~r.pending
       \/ /\ e.type = "purge_done" /\ r.dir = t.dir /\ r.purge = NoUser
          /\ r.reclaim = t.reclaim /\ r.pending = t.pending /\ r.foreign = t.foreign
       \/ /\ e.type \in {"open", "checkpoint", "final"} /\ r.dir = t.dir
          /\ r.purge = t.purge
          /\ r.reclaim = t.reclaim /\ r.pending = t.pending /\ r.foreign = t.foreign

LEMMA ReplayedIs ==
  ASSUME NEW t \in Stores, NEW e \in Entries, Replayed(t, e).mode # "error"
  PROVE  Grown(t, e, Replayed(t, e))
  <1> DEFINE s == [e.s EXCEPT !.confirmed = TRUE, !.discard = @ \/ e.type = "discard"]
             r1 == IF e.type \in Counted /\ e.s.id >= t.nextId
                   THEN [t EXCEPT !.nextId = e.s.id + 1] ELSE t
             same == r1.pending /\ r1.reclaim.id = s.id
  <1>1. e.type \in EntryTypes /\ e.s \in Descriptions /\ t.nextId \in 1 .. IdLimit
    BY DEF Entries, EntryPages, Stores
  <1>2. s \in Descriptions /\ s.id = e.s.id /\ s.id \in 0 .. IdLimit - 1
    BY <1>1 DEF Descriptions
  <1>3. /\ r1 \in Stores /\ t.nextId <= r1.nextId
        /\ e.type \in Counted => s.id < r1.nextId
        /\ r1.dir = t.dir /\ r1.purge = t.purge /\ r1.reclaim = t.reclaim
        /\ r1.pending = t.pending /\ r1.foreign = t.foreign
    <2>1. CASE e.type \in Counted /\ e.s.id >= t.nextId
      <3>1. e.s.id + 1 \in 1 .. IdLimit /\ t.nextId <= e.s.id + 1 /\ e.s.id < e.s.id + 1
        BY <1>1, <1>2, <2>1, Sizes
      <3>2. r1 = [t EXCEPT !.nextId = e.s.id + 1] BY <2>1
      <3>3. [t EXCEPT !.nextId = e.s.id + 1] \in Stores BY <3>1 DEF Stores
      <3> HIDE DEF r1, s
      <3> QED BY <1>2, <3>1, <3>2, <3>3 DEF Stores
    <2>2. CASE ~(e.type \in Counted /\ e.s.id >= t.nextId)
      <3>1. r1 = t BY <2>2
      <3>2. t.nextId <= t.nextId BY <1>1
      <3>3. e.type \in Counted => s.id < t.nextId BY <1>1, <1>2, <2>2, Sizes
      <3> HIDE DEF r1, s
      <3> QED BY <1>2, <3>1, <3>2, <3>3
    <2> QED BY <2>1, <2>2
  <1>4. s = Marking(e) BY DEF Marking
  <1>5. CASE e.type \in {"confirmed", "progress", "discard"} /\ Restorable(r1, s)
    <2>1. Replayed(t, e) = [r1 EXCEPT !.dir = Replace(@, s), !.reclaim = s, !.pending = TRUE,
                                      !.foreign = (e.type = "discard")]
      BY <1>5 DEF Replayed, Counted
    <2> DEFINE r == Replayed(t, e)
    <2> HIDE DEF s, r1
    <2>2. PICK b \in BOOLEAN : b = (e.type = "discard") OBVIOUS
    <2>3. r = [r1 EXCEPT !.dir = Replace(@, s), !.reclaim = s, !.pending = TRUE, !.foreign = b]
      BY <2>1, <2>2
    <2> HIDE DEF r
    <2>4. /\ r.dir = Replace(r1.dir, s) /\ r.nextId = r1.nextId /\ r.reclaim = s
          /\ r.purge = r1.purge /\ r.foreign = b
      BY <1>3, <2>3 DEF Stores
    <2> QED BY <1>2, <1>3, <1>4, <1>5, <2>2, <2>4 DEF Grown, r
  <1>6. CASE e.type = "reclaimed" /\ Readable(s)
    <2>1. Replayed(t, e) = [r1 EXCEPT !.tomb = s, !.dir = {d \in @ : d.id # s.id},
                                      !.pending = @ /\ ~same, !.foreign = @ /\ ~same]
      BY <1>6 DEF Replayed, Counted
    <2> DEFINE r == Replayed(t, e)
               left == {d \in r1.dir : d.id # s.id}
    <2> HIDE DEF s, r1, same
    <2>2. /\ r.dir = left /\ r.nextId = r1.nextId /\ r.reclaim = r1.reclaim
          /\ r.purge = r1.purge /\ r.pending = (r1.pending /\ ~same)
          /\ r.foreign = (r1.foreign /\ ~same)
      BY <1>3, <2>1 DEF Stores
    <2> HIDE DEF r
    <2>3. left = {d \in t.dir : d.id # e.s.id} BY <1>2, <1>3
    <2> HIDE DEF left
    <2> QED BY <1>2, <1>3, <1>6, <2>2, <2>3 DEF Grown, r
  <1>7. CASE e.type = "purge_begin"
    <2>1. Replayed(t, e) =
            [r1 EXCEPT !.purge = e.s.owner, !.pending = FALSE, !.foreign = FALSE]
      BY <1>7 DEF Replayed, Counted
    <2> HIDE DEF s, r1
    <2> QED BY <1>2, <1>3, <1>7, <2>1 DEF Grown, Stores
  <1>8. CASE e.type = "purge_done"
    <2>1. Replayed(t, e) = [r1 EXCEPT !.purge = NoUser] BY <1>8 DEF Replayed, Counted
    <2> HIDE DEF s, r1
    <2> QED BY <1>2, <1>3, <1>8, <2>1 DEF Grown, Stores
  <1>9. CASE e.type \in {"open", "checkpoint", "final"}
    <2>1. Replayed(t, e) = r1 BY <1>9 DEF Replayed, Counted
    <2> HIDE DEF s, r1
    <2> QED BY <1>2, <1>3, <1>9, <2>1 DEF Grown
  <1>10. ~ (\/ e.type \in {"confirmed", "progress", "discard"} /\ ~Restorable(r1, s)
            \/ e.type = "reclaimed" /\ ~Readable(s))
    <2> SUFFICES ASSUME \/ e.type \in {"confirmed", "progress", "discard"} /\ ~Restorable(r1, s)
                        \/ e.type = "reclaimed" /\ ~Readable(s)
                 PROVE FALSE
      OBVIOUS
    <2>1. Replayed(t, e) = Failed BY DEF Replayed, Counted
    <2> QED BY <2>1 DEF Failed, Off
  <1> QED
    BY <1>1, <1>5, <1>6, <1>7, <1>8, <1>9, <1>10 DEF EntryTypes, Counted

LEMMA MarkingIs ==
  ASSUME NEW e \in Entries
  PROVE  /\ SamePlace(Marking(e), e.s) /\ SamePlace(e.s, Marking(e))
         /\ Marking(e).next = e.s.next /\ Marking(e).confirmed
         /\ Marking(e).discard = (e.s.discard \/ e.type = "discard")
         /\ Marking(e) \in Descriptions
  <1>1. e.s \in Descriptions BY DEF Entries, EntryPages
  <1>2. PICK b \in BOOLEAN : b = (e.s.discard \/ e.type = "discard") OBVIOUS
  <1>3. Marking(e) = [e.s EXCEPT !.confirmed = TRUE, !.discard = b] BY <1>2 DEF Marking
  <1> DEFINE s == [e.s EXCEPT !.confirmed = TRUE, !.discard = b]
  <1>4. s \in Descriptions BY <1>1 DEF Descriptions
  <1>5. /\ s.id = e.s.id /\ s.owner = e.s.owner /\ s.begin = e.s.begin /\ s.end = e.s.end
        /\ s.next = e.s.next /\ s.confirmed = TRUE /\ s.discard = b
    BY <1>1 DEF Descriptions
  <1> HIDE DEF s
  <1>6. Marking(e) = s BY <1>3 DEF s
  <1> QED BY <1>2, <1>4, <1>5, <1>6 DEF SamePlace

\* What an entry does to the ledger is what its job says.
LEMMA LedgerStep ==
  ASSUME NEW fl, NEW m, NEW job \in JournalJobs, NEW e \in Entries, NEW t, NEW r,
         Grown(t, e, r), SessionsOK(fl, m.dir),
         NoteOK(fl, m, job, e), PurgeOK(m, job), LedgerOK(fl, t), AgreesOK(t, m, job),
         m.purge \in Owners
  PROVE  /\ LedgerOK(fl, r)
         /\ \A d \in r.dir : \/ Marked(m.dir, d)
                             \/ job \in {"confirm", "discard"} /\ SamePlace(e.s, d)
         /\ job = "reclaimed" => \A d \in r.dir : d.id # m.reclaim.id
         /\ r.purge = IF job = "purge_done" THEN NoUser ELSE m.purge
  <1>1. CASE job \in {"open", "checkpoint", "final"}
    <2>1. e.type = job BY <1>1 DEF NoteOK
    <2>2. r.dir = t.dir /\ r.purge = t.purge /\ r.reclaim = t.reclaim
          /\ r.pending = t.pending /\ r.foreign = t.foreign
      BY <1>1, <2>1 DEF Grown
    <2> QED BY <1>1, <2>2 DEF LedgerOK, AgreesOK
  <1>2. CASE job \in {"confirm", "discard", "progress"}
    <2> DEFINE s == Marking(e)
    <2>1. /\ e.type \in {"confirmed", "progress", "discard"}
          /\ e.type = "discard" <=> job = "discard"
      BY <1>2 DEF NoteOK, Entry
    <2>2. /\ r.dir = Replace(t.dir, s) /\ r.purge = t.purge
          /\ r.reclaim = s /\ r.foreign = (e.type = "discard")
      BY <2>1 DEF Grown
    <2>3. /\ SamePlace(s, e.s) /\ SamePlace(e.s, s) /\ s.next = e.s.next /\ s.confirmed
          /\ s.discard = (e.s.discard \/ e.type = "discard")
      BY MarkingIs
    <2>4. Cleared(fl, e.s) /\ Closed(fl, e.s)
      <3>1. CASE job \in {"confirm", "discard"} BY <3>1 DEF NoteOK, SessionsOK
      <3>2. CASE job = "progress"
        <4>1. e.s = m.reclaim /\ Cleared(fl, m.reclaim) /\ Marked(m.dir, m.reclaim)
          BY <3>2 DEF NoteOK, Entry
        <4>2. Closed(fl, m.reclaim) BY <4>1 DEF Marked, SamePlace, SessionsOK, Closed
        <4> QED BY <4>1, <4>2
      <3> QED BY <1>2, <3>1, <3>2
    <2>5. Cleared(fl, s) /\ Closed(fl, s) BY <2>3, <2>4 DEF Cleared, Closed, SamePlace
    <2>6. t.purge = m.purge BY <1>2 DEF AgreesOK
    <2>7. s.discard => m.purge \in Users /\ s.owner # m.purge
      <3>1. CASE job = "confirm" BY <2>1, <2>3, <3>1 DEF NoteOK, PurgeOK, SamePlace
      <3>2. CASE job = "discard" BY <2>3, <3>2 DEF NoteOK, PurgeOK, SamePlace
      <3>3. CASE job = "progress"
        <4>1. e = Entry("progress", m.reclaim) /\ ~m.reclaim.discard
          BY <3>3 DEF NoteOK, PurgeOK
        <4>2. ~e.s.discard BY <4>1 DEF Entry
        <4> QED BY <2>1, <2>3, <3>3, <4>2
      <3> QED BY <1>2, <3>1, <3>2, <3>3
    <2>8. Marked(m.dir, s) \/ (job \in {"confirm", "discard"} /\ SamePlace(e.s, s))
      <3>1. CASE job = "progress" 
        BY <2>3, <3>1 DEF NoteOK, Entry, Marked, SamePlace
      <3> QED BY <1>2, <2>3, <3>1
    <2>9. r.foreign => s.discard BY <2>2, <2>3
    <2> HIDE DEF s
    <2>10. \A d \in r.dir : d = s \/ d \in t.dir BY <2>2 DEF Replace
    <2>11. LedgerOK(fl, r)
      BY <2>2, <2>5, <2>6, <2>7, <2>9, <2>10 DEF LedgerOK, SessionsOK
    <2> QED BY <1>2, <2>2, <2>6, <2>8, <2>10, <2>11 DEF AgreesOK
  <1>3. CASE job = "reclaimed"
    <2>1. e.type = "reclaimed" /\ SamePlace(e.s, m.reclaim) BY <1>3 DEF NoteOK
    <2>2. /\ r.dir = {d \in t.dir : d.id # e.s.id} /\ r.purge = t.purge
          /\ r.reclaim = t.reclaim
          /\ r.pending => t.pending
          /\ r.foreign => t.foreign
      BY <2>1 DEF Grown
    <2> QED BY <1>3, <2>1, <2>2 DEF LedgerOK, AgreesOK, SessionsOK, SamePlace
  <1>4. CASE job = "purge_begin"
    <2>1. e.type = "purge_begin" /\ e.s.owner = m.purge /\ m.purge \in Users
      BY <1>4 DEF NoteOK, PurgeOK
    <2>2. r.dir = t.dir /\ r.purge = m.purge /\ ~r.pending BY <2>1 DEF Grown
    <2>3. \A d \in t.dir : d.discard => d.owner # m.purge
      BY <2>1, FlashAssumption DEF LedgerOK, AgreesOK
    <2> QED BY <1>4, <2>1, <2>2, <2>3 DEF LedgerOK, AgreesOK
  <1>5. CASE job = "purge_done"
    <2>1. e.type = "purge_done" /\ Foreign(m.dir, m.purge) = {} BY <1>5 DEF NoteOK, PurgeOK
    <2>2. /\ r.dir = t.dir /\ r.purge = NoUser
          /\ r.reclaim = t.reclaim /\ r.pending = t.pending /\ r.foreign = t.foreign
      BY <2>1 DEF Grown
    <2>3. \A d \in t.dir : ~d.discard
      BY <1>5, <2>1 DEF LedgerOK, AgreesOK, Foreign, Marked, SamePlace
    <2> QED BY <1>5, <2>2, <2>3 DEF LedgerOK, AgreesOK
  <1> QED BY <1>1, <1>2, <1>3, <1>4, <1>5 DEF JournalJobs

-----------------------------------------------------------------------------
(* What an operation may leave of the result area.                           *)

LEMMA VoidPages ==
  /\ Blank \in Voids
  /\ \A v \in Voids : v.kind # "event" /\ v.ok = FALSE /\ v \in {Blank, Scrap}
  /\ Blank.kind # "event" /\ Scrap.kind # "event"
  /\ "spoiled" \notin Tears => Voids = {Blank}
  BY DEF Voids, Blank, Scrap

\* A page that no session loses anything by: neither an erased sector its
\* blanks, nor the session before it its end.
Tidy(fl, new, p) ==
    \/ new[p] = fl[p]
    \/ new[p].kind # "event" /\ (fl[p] \in Voids => new[p] \in Voids)

LEMMA SessionsKept ==
  ASSUME NEW fl, NEW new, NEW dir \in SUBSET Finals, SessionsOK(fl, dir),
         \A d \in dir : \A p \in d.begin .. d.end - 1 : Tidy(fl, new, p)
  PROVE  SessionsOK(new, dir)
  <1> SUFFICES ASSUME NEW d \in dir PROVE Cleared(new, d) /\ Closed(new, d)
    BY DEF SessionsOK
  <1>1. d.begin \in 0 .. Pages /\ d.end \in 0 .. Pages /\ d.next \in 0 .. Pages
        /\ d.begin < d.end /\ d.next <= d.end
    BY DEF Finals, Descriptions
  <1>2. Cleared(fl, d) /\ Closed(fl, d) BY DEF SessionsOK
  <1>3. Cleared(new, d)
    <2>1. \A p \in d.begin .. d.next - 1 : p \in d.begin .. d.end - 1 BY <1>1, Sizes
    <2> QED BY <1>2, <2>1 DEF Cleared, Tidy
  <1>4. Closed(new, d)
    <2>1. d.end - 1 \in d.begin .. d.end - 1 BY <1>1, Sizes
    <2> QED BY <1>2, <2>1 DEF Closed, Tidy
  <1> QED BY <1>3, <1>4

LEMMA SessionsSame ==
  ASSUME NEW fl, NEW new, NEW dir \in SUBSET Finals, SessionsOK(fl, dir),
         \A p \in 0 .. Pages - 1 : new[p] = fl[p]
  PROVE  SessionsOK(new, dir)
  <1>1. ASSUME NEW d \in dir, NEW p \in d.begin .. d.end - 1 PROVE Tidy(fl, new, p)
    <2>1. d.begin \in 0 .. Pages /\ d.end \in 0 .. Pages BY DEF Finals, Descriptions
    <2>2. p \in 0 .. Pages - 1 BY <2>1, Sizes
    <2> QED BY <2>2 DEF Tidy
  <1> QED BY <1>1, SessionsKept

LEMMA ErasedPages ==
  ASSUME NEW fl \in [Chip -> PageSet], NEW a \in Nat, NEW b \in Nat, a <= b,
         NEW op, op = [do |-> "erase", at |-> a, upto |-> b],
         NEW new \in Interrupted(fl, op)
  PROVE  /\ \A p \in Chip : Tidy(fl, new, p) /\ new[p] \in {fl[p], Blank, Scrap}
         /\ \A p \in Chip : p \notin a .. b => new[p] = fl[p]
         /\ Verified(new, op) => \A p \in a .. b : new[p] = Blank
  <1> DEFINE ways == {"old", "blank"} \cup (Tears \cap {"scrap", "spoiled"})
  <1>1. op.do = "erase" /\ op.at = a /\ op.upto = b OBVIOUS
  <1>2. PICK first \in ways, rest \in ways :
          new = [q \in Chip |-> IF q = a THEN Erasing(first, fl[q])
                                ELSE IF q \in a .. b THEN Erasing(rest, fl[q]) ELSE fl[q]]
    BY <1>1 DEF Interrupted
  <1>3. ASSUME NEW how \in ways, NEW old
        PROVE  /\ Erasing(how, old) \in {old, Blank, Scrap}
               /\ old \in Voids => Erasing(how, old) \in Voids
    BY DEF Erasing, Voids
  <1> HIDE DEF ways
  <1>4. ASSUME NEW p \in Chip
        PROVE  /\ new[p] \in {fl[p], Blank, Scrap}
               /\ fl[p] \in Voids => new[p] \in Voids
               /\ p \notin a .. b => new[p] = fl[p]
    BY <1>2, <1>3
  <1>5. \A p \in Chip : Tidy(fl, new, p) BY <1>4, VoidPages DEF Tidy
  <1>6. Verified(new, op) => \A p \in a .. b : new[p] = Blank BY <1>1 DEF Verified
  <1> QED BY <1>4, <1>5, <1>6

\* An operation on the journal leaves the area alone.
LEMMA AreaSame ==
  ASSUME NEW fl \in [Chip -> PageSet], NEW op \in Operations,
         op # Idle => op.at >= Pages, NEW new \in Interrupted(fl, op)
  PROVE  \A p \in 0 .. Pages - 1 : new[p] = fl[p]
  <1>1. \A p \in 0 .. Pages - 1 : p \in Chip BY Sizes DEF Chip
  <1>2. CASE op = Idle BY <1>2, IdleChangesNothing
  <1>3. CASE op.do = "program" /\ op = Program(op.at, op.page)
             /\ op.at \in Chip /\ op.page \in PageSet
    <2>1. PICK at \in Chip, page \in PageSet : at = op.at /\ page = op.page BY <1>3
    <2>2. new \in Interrupted(fl, Program(at, page)) BY <1>3, <2>1
    <2>3. \A p \in Chip \ {at} : new[p] = fl[p] BY <2>2, CutProgram
    <2>4. op # Idle BY <1>3 DEF Idle
    <2> QED BY <1>1, <2>1, <2>3, <2>4, Sizes
  <1>4. CASE /\ op.do = "erase" /\ op = [do |-> "erase", at |-> op.at, upto |-> op.upto]
             /\ op.at \in Nat /\ op.upto \in Nat /\ op.at <= op.upto
    <2>1. PICK a \in Nat, b \in Nat : a = op.at /\ b = op.upto /\ a <= b BY <1>4
    <2>2. \A p \in Chip : p \notin a .. b => new[p] = fl[p] BY <1>4, <2>1, ErasedPages
    <2>3. op # Idle BY <1>4 DEF Idle
    <2> QED BY <1>1, <2>1, <2>2, <2>3, Sizes
  <1> QED BY <1>2, <1>3, <1>4, OperationForms

-----------------------------------------------------------------------------
(* The bank a rotation goes to.                                              *)

\* What a snapshot of the directory carries over.
Carried(m) ==
    {e \in Entries : \/ /\ e.type \in {"confirmed", "discard"}
                        /\ e.s \in Going(m.dir)
                        /\ e.type = "discard" => e.s.discard
                     \/ e.type = "reclaimed"}

LEMMA SnapshotSays ==
  ASSUME NEW m, Base(m), NEW i \in 1 .. Len(SnapshotPages(m))
  PROVE  SnapshotPages(m)[i] \in Carried(m)
  <1> DEFINE kind(s) == IF m.purge # NoUser /\ s.discard THEN "discard" ELSE "confirmed"
  <1>1. PICK S : S = Going(m.dir) OBVIOUS
  <1>2. S \subseteq m.dir /\ S \in SUBSET Finals /\ m.tomb \in Finals \cup {NoSession}
    BY <1>1 DEF Going, Base, Stores
  <1>3. IsFiniteSet(m.dir) /\ Separate(m.dir) BY DEF Base, DirectoryOK
  <1>4. PICK n \in Nat : n = Cardinality(S) BY <1>2, <1>3, FS_Subset, FS_CardinalityType
  <1>5. PICK q \in [1 .. n -> S] : q = InOrder(S)
    <2>1. IsFiniteSet(S) BY <1>2, <1>3, FS_Subset
    <2>2. \A s, d \in S : s # d => s.id # d.id BY <1>2, <1>3 DEF Separate
    <2> QED BY <1>2, <1>4, <2>1, <2>2, InOrderIs
  <1>6. PICK A : A = [j \in DOMAIN q |-> Entry(kind(q[j]), q[j])] OBVIOUS
  <1>7. PICK B : B = IF m.tomb = NoSession THEN <<>> ELSE <<Entry("reclaimed", m.tomb)>>
    OBVIOUS
  <1>8. SnapshotPages(m) = A \o B BY <1>1, <1>5, <1>6, <1>7 DEF SnapshotPages
  <1>9. PICK C : C = Carried(m) OBVIOUS
  <1>10. \A j \in 1 .. n : Entry(kind(q[j]), q[j]) \in C
    <2>1. SUFFICES ASSUME NEW j \in 1 .. n PROVE Entry(kind(q[j]), q[j]) \in C OBVIOUS
    <2>2. q[j] \in Finals /\ q[j] \in S BY <1>2
    <2>3. kind(q[j]) \in {"discard", "confirmed"} /\ (kind(q[j]) = "discard" => q[j].discard)
      OBVIOUS
    <2> HIDE DEF kind
    <2>4. Entry(kind(q[j]), q[j]) \in Entries
      BY <2>2, <2>3, EntryForms DEF EntryTypes, Counted
    <2> QED BY <1>1, <1>9, <2>2, <2>3, <2>4, EntryForms DEF Carried
  <1>11. A \in Seq(C) /\ Len(A) = n
    <2>1. A \in [1 .. n -> C] BY <1>6, <1>10
    <2> QED BY <2>1
  <1>12. B \in Seq(C)
    <2>1. CASE m.tomb = NoSession BY <1>7, <2>1
    <2>2. CASE m.tomb # NoSession
      <3>1. Entry("reclaimed", m.tomb) \in C
        BY <1>2, <1>9, <2>2, EntryForms DEF EntryTypes, Counted, Carried
      <3> QED BY <1>7, <2>2, <3>1
    <2> QED BY <2>1, <2>2
  <1>13. A \o B \in Seq(C) BY <1>11, <1>12
  <1>14. (A \o B)[i] \in C BY <1>8, <1>13
  <1> QED BY <1>8, <1>9, <1>14

\* What the replay of a snapshot amounts to, page by page.
Restored(m, t) ==
    /\ t.dir \subseteq Going(m.dir) /\ t.purge = m.purge /\ m.nextId <= t.nextId
    /\ t.pending /\ t.foreign => t.reclaim.discard

LEMMA RestoredGrows ==
  ASSUME NEW m, Base(m), NEW t \in Stores, Restored(m, t), NEW e \in Carried(m), NEW r,
         Grown(t, e, r), r.nextId \in Nat
  PROVE  Restored(m, r)
  <1>1. e \in Entries BY DEF Carried
  <1>2. m.nextId \in Nat /\ t.nextId \in Nat BY Sizes DEF Base, Stores
  <1>3. m.nextId <= r.nextId BY <1>2 DEF Grown, Restored
  <1>4. CASE /\ e.type \in {"confirmed", "discard"} /\ e.s \in Going(m.dir)
             /\ e.type = "discard" => e.s.discard
    <2>1. /\ r.dir = Replace(t.dir, Marking(e)) /\ r.purge = t.purge
          /\ r.reclaim = Marking(e) /\ r.foreign = (e.type = "discard")
      BY <1>4 DEF Grown
    <2>2. e.s \in Descriptions /\ e.s.confirmed = TRUE
      BY <1>1, <1>4 DEF Entries, EntryPages, Going, Descriptions
    <2>3. Marking(e) = e.s
      <3>1. PICK b \in BOOLEAN : b = (e.s.discard \/ e.type = "discard") OBVIOUS
      <3>2. Marking(e) = [e.s EXCEPT !.confirmed = TRUE, !.discard = b] BY <3>1 DEF Marking
      <3>3. b = e.s.discard BY <1>4, <2>2, <3>1 DEF Descriptions
      <3> QED BY <2>2, <3>2, <3>3 DEF Descriptions
    <2>4. r.dir \subseteq Going(m.dir) BY <1>4, <2>1, <2>3 DEF Replace, Restored
    <2>5. r.foreign => r.reclaim.discard BY <1>4, <2>1, <2>3
    <2> QED BY <1>3, <2>1, <2>4, <2>5 DEF Restored
  <1>5. CASE e.type = "reclaimed"
    <2>1. /\ r.dir \subseteq t.dir /\ r.purge = t.purge /\ r.reclaim = t.reclaim
          /\ r.pending => t.pending
          /\ r.foreign => t.foreign
      BY <1>5 DEF Grown
    <2> QED BY <1>3, <2>1 DEF Restored
  <1> QED BY <1>4, <1>5 DEF Carried

\* The new bank counts from its header on, and says what the old one said of
\* the sessions that go.
LEMMA BankRestored ==
  ASSUME NEW fl, NEW m, Base(m), NEW k \in 0 .. 1, NEW n \in 0 .. BankPages - 1,
         fl \in [Chip -> PageSet], JournalOK(fl, k), n = Len(SnapshotPages(m)),
         fl[Bank(k)] = HeaderOf(m),
         \A i \in 1 .. n : fl[Bank(k) + i] = SnapshotPages(m)[i],
         n <= Stop(fl, k) - 1
  PROVE  After(fl, k)[n].mode # "error" => Restored(m, After(fl, k)[n])
  <1> DEFINE f == After(fl, k)
             Good(i) == f[i].mode # "error" => Restored(m, f[i])
             Bad == {i \in Nat : i <= n /\ ~Good(i)}
  <1>1. Good(0)
    <2>1. f[0] = FromHeader(fl, k) BY AfterUnfolds
    <2>2. /\ FromHeader(fl, k).dir = {} /\ FromHeader(fl, k).purge = m.purge
          /\ FromHeader(fl, k).nextId = m.nextId /\ ~FromHeader(fl, k).pending
      BY DEF FromHeader, Off, HeaderOf, Header
    <2>3. m.nextId <= m.nextId BY Sizes DEF Base, Stores
    <2> QED BY <2>1, <2>2, <2>3 DEF Restored
  <1>2. ASSUME NEW i \in Nat, i + 1 <= n, Good(i) PROVE Good(i + 1)
    <2>1. i \in 0 .. BankPages - 1 /\ i + 1 \in 1 .. n /\ i \in 0 .. n BY <1>2, Sizes
    <2>2. f[i + 1] = IF f[i].mode = "error" THEN f[i]
                     ELSE Replayed(f[i], fl[Bank(k) + (i + 1)])
      BY <2>1, AfterUnfolds
    <2> DEFINE e == SnapshotPages(m)[i + 1]
    <2>3. fl[Bank(k) + (i + 1)] = e /\ e \in Carried(m) BY <2>1, SnapshotSays
    <2>4. SUFFICES ASSUME f[i + 1].mode # "error" PROVE Restored(m, f[i + 1]) OBVIOUS
    <2>5. f[i].mode # "error" BY <2>2, <2>4
    <2>6. f[i + 1] = Replayed(f[i], e) BY <2>2, <2>3, <2>5
    <2>7. f[i] \in Stores /\ f[i + 1] \in Stores
      <3>1. PICK stop \in 1 .. BankPages : stop = Stop(fl, k) BY StopIs
      <3>2. i \in 0 .. stop - 1 /\ i + 1 \in 0 .. stop - 1 BY <2>1, <3>1
      <3>3. Failed.mode = "error" BY DEF Failed, Off
      <3> QED BY <2>4, <2>5, <3>1, <3>2, <3>3, AfterGoes DEF ScanOK
    <2>8. Restored(m, f[i]) BY <1>2, <2>5
    <2>9. e \in Entries BY <2>3 DEF Carried
    <2> HIDE DEF f, e
    <2>10. Grown(f[i], e, f[i + 1]) BY <2>4, <2>6, <2>7, <2>9, ReplayedIs
    <2>11. f[i + 1].nextId \in Nat BY <2>7, Sizes DEF Stores
    <2> QED BY <2>3, <2>7, <2>8, <2>10, <2>11, RestoredGrows
  <1> HIDE DEF Good
  <1>3. Bad = {}
    <2> SUFFICES ASSUME Bad # {} PROVE FALSE OBVIOUS
    <2>1. Min(Bad) \in Bad /\ \A y \in Bad : Min(Bad) <= y BY MinIs
    <2>2. PICK b \in Nat : b <= n /\ ~Good(b) /\ \A y \in Bad : b <= y BY <2>1
    <2>3. b # 0 BY <1>1, <2>2
    <2>4. b - 1 \in Nat /\ ~(b <= b - 1) /\ (b - 1) + 1 = b BY <2>3
    <2>5. b - 1 <= n BY <2>2, <2>3
    <2>6. Good(b - 1) BY <2>2, <2>4, <2>5
    <2> QED BY <1>2, <2>2, <2>4, <2>6
  <1>4. Good(n) BY <1>3
  <1> QED BY <1>4 DEF Good

LEMMA HeaderTold ==
  ASSUME NEW fl, FlashOK(fl), NEW m, StoreOK(fl, m), m.job = "header", SnapshotOK(fl, m),
         NEW new \in Interrupted(fl, m.op), Verified(new, m.op)
  PROVE  Tells(new) => Restored(m, Told(new))
  <1> DEFINE k == 1 - m.cur
  <1>1. /\ Mounted(m) /\ m.cur \in 0 .. 1 /\ Base(m) /\ m.snap \in 0 .. MaxSessions + 1
    BY StoreParts DEF JobOK, Mounted, StoreOK, Base, Stores
  <1>2. m.snap = Len(SnapshotPages(m)) /\ m.op = Program(Bank(k), HeaderOf(m))
    BY <1>1, StoreParts DEF RotationOK
  <1>3. /\ new \in [Chip -> PageSet] /\ JournalOK(new, k) /\ Stop(new, k) = m.snap + 1
        /\ m.snap + 1 < BankPages
    BY CutHeader
  <1>4. k \in 0 .. 1 BY <1>1, BankAddresses
  <1>5. new[Bank(k)] = HeaderOf(m) BY <1>2 DEF Verified, Program
  <1>6. PICK p \in Chip : p = Bank(k)
    <2>1. 0 \in 0 .. BankPages - 1 BY Sizes
    <2>2. Bank(k) + 0 = Bank(k) /\ Bank(k) + 0 \in Chip BY <1>4, <2>1, BankAddresses
    <2> QED BY <2>2
  <1>7. PICK page \in PageSet : page = HeaderOf(m) BY <1>3, <1>5, <1>6
  <1>8. fl \in [Chip -> PageSet] BY DEF FlashOK
  <1>9. \A q \in Chip \ {p} : new[q] = fl[q]
    <2>1. new \in Interrupted(fl, Program(p, page)) BY <1>2, <1>6, <1>7
    <2> QED BY <1>8, <2>1, CutProgram
  <1>10. PICK n \in 0 .. BankPages - 1 : n = m.snap BY <1>1, <1>3, Sizes
  <1>11. \A i \in 1 .. n : new[Bank(k) + i] = SnapshotPages(m)[i]
    <2> TAKE i \in 1 .. n
    <2>1. i \in 0 .. BankPages - 1 /\ i # 0 BY Sizes
    <2>2. Bank(k) + i \in Chip /\ Bank(k) \in Nat BY <1>4, <2>1, BankAddresses
    <2>3. Bank(k) + i # p BY <1>6, <2>1, <2>2
    <2>4. new[Bank(k) + i] = fl[Bank(k) + i] BY <1>9, <2>2, <2>3
    <2> QED BY <1>10, <2>4 DEF SnapshotOK
  <1>12. n <= Stop(new, k) - 1 /\ n = Stop(new, k) - 1 BY <1>3, <1>10
  <1>13. Told(new) = After(new, k)[n] BY <1>3, <1>4, <1>12, ToldIs
  <1> HIDE DEF k
  <1>14. After(new, k)[n].mode # "error" => Restored(m, After(new, k)[n])
    BY <1>1, <1>2, <1>3, <1>4, <1>5, <1>10, <1>11, <1>12, BankRestored
  <1> QED BY <1>13, <1>14 DEF Tells

\* Until the new header is there, the old bank is what a boot is told.
LEMMA RotationTold ==
  ASSUME NEW fl, FlashOK(fl), NEW m, StoreOK(fl, m), m.job \in RotationJobs,
         NEW new \in Interrupted(fl, m.op)
  PROVE  /\ m.job # "header" \/ ~Verified(new, m.op) => Told(new) = Told(fl)
         /\ \A p \in 0 .. Pages - 1 : new[p] = fl[p]
  <1>1. /\ Mounted(m) /\ m.cur \in 0 .. 1 /\ m.op \in Operations
        /\ m.snap \in 0 .. MaxSessions + 1
    BY StoreParts DEF JobOK, Mounted, RotationJobs, Stores
  <1>2. JournalOK(fl, m.cur) /\ RotationOK(fl, m) BY <1>1, StoreParts DEF CursorOK
  <1>3. fl \in [Chip -> PageSet] BY DEF FlashOK
  <1>4. m.job # "header" \/ ~Verified(new, m.op) => Told(new) = Told(fl)
    <2>1. m.job # "header" \/ ~Verified(new, m.op) => Preserved(fl, new, m.cur)
      BY CutSnapshot, CutHeader DEF RotationJobs
    <2> QED BY <1>1, <1>2, <1>3, <2>1, ToldKept
  <1>5. Bank(1 - m.cur) \in Nat /\ Bank(1 - m.cur) >= Pages
    <2>1. 1 - m.cur \in 0 .. 1 BY <1>1, BankAddresses
    <2>2. 1 - m.cur = 0 \/ 1 - m.cur = 1 BY <2>1
    <2> QED BY <2>2, BankAddresses, Sizes
  <1>6. m.op.at >= Pages
    <2>1. CASE m.job = "rotate" BY <1>2, <1>5, <2>1 DEF RotationOK, Erase
    <2>2. CASE m.job = "snapshot"
      <3>1. m.op.at = Bank(1 - m.cur) + 1 + m.snap BY <1>2, <2>2 DEF RotationOK, Program
      <3> QED BY <1>1, <1>5, <3>1, Sizes
    <2>3. CASE m.job = "header" BY <1>2, <1>5, <2>3 DEF RotationOK, Program
    <2> QED BY <2>1, <2>2, <2>3 DEF RotationJobs
  <1>7. \A p \in 0 .. Pages - 1 : new[p] = fl[p] BY <1>1, <1>3, <1>6, AreaSame
  <1> QED BY <1>4, <1>7

LEMMA RestoredAgrees ==
  ASSUME NEW fl, NEW m, NEW job, NEW t, Restored(m, t), SessionsOK(fl, m.dir), PurgeOK(m, job)
  PROVE  LedgerOK(fl, t) /\ AgreesOK(t, m, job)
  BY DEF Restored, LedgerOK, AgreesOK, SessionsOK, PurgeOK, Going, Marked, SamePlace

-----------------------------------------------------------------------------
(* Where the jobs of a session write.                                        *)

LEMMA RunningParts ==
  ASSUME NEW fl, NEW m, StoreOK(fl, m), Running(m), OperationOK(fl, m)
  PROVE  /\ Covered(m) /\ m.dir \in SUBSET Finals /\ Separate(m.dir)
         /\ m \in Stores /\ Base(m) /\ m.purge \in Owners
         /\ Records(m, Doing(m)) => Behind(m)
         /\ m.mode = "recovering" => m.job \in JournalJobs \cup RotationJobs
         /\ m.job \in RotationJobs => Doing(m) = m.resume /\ m.resume \in JournalJobs
         /\ m.job \notin RotationJobs => Doing(m) = m.job /\ m.resume = "none"
         /\ \A d \in m.dir : d.begin \in 0 .. Pages /\ d.end \in 0 .. Pages /\ d.begin < d.end
  <1>1. /\ m \in Stores /\ JobOK(m) /\ RecordingOK(m) /\ HeadOK(m) /\ DirectoryOK(m)
        /\ m.job \in Jobs
    BY StoreParts
  <1>2. m.mode = "recovering" => m.job \in JournalJobs \cup RotationJobs
    BY <1>1 DEF JobOK, Running, OperationOK, Jobs
  <1>3. Covered(m) BY <1>1, <1>2 DEF HeadOK, Running, Mounted
  <1>4. /\ m.job \in RotationJobs => Doing(m) = m.resume /\ m.resume \in JournalJobs
        /\ m.job \notin RotationJobs => Doing(m) = m.job /\ m.resume = "none"
    BY <1>1 DEF JobOK, Doing
  <1>5. Records(m, Doing(m)) => Behind(m)
    <2>1. Records(m, Doing(m)) => Recording(m)
      BY <1>4 DEF Records, Recording, RotationJobs, JournalJobs
    <2> QED BY <1>1, <2>1 DEF RecordingOK
  <1>6. \A d \in m.dir : d.begin \in 0 .. Pages /\ d.end \in 0 .. Pages /\ d.begin < d.end
    BY <1>1 DEF Stores, Finals, Descriptions
  <1> QED BY <1>1, <1>2, <1>3, <1>4, <1>5, <1>6 DEF Stores, Base, DirectoryOK

\* Beyond every session of the directory, and where the recording has come to.
LEMMA PagePlace ==
  ASSUME NEW fl, NEW m, StoreOK(fl, m), Running(m), OperationOK(fl, m),
         m.job \in PageJobs, m.job # "reclaim"
  PROVE  /\ m.op.do = "program" /\ m.op.at \in 0 .. Pages - 1 /\ m.op.at \in Chip
         /\ m.op.page \in PageSet /\ m.op = Program(m.op.at, m.op.page)
         /\ Records(m, m.job) /\ m.job \notin RotationJobs
         /\ m.act.begin \in 0 .. Pages /\ m.act.count \in Nat /\ NextSlot(m) \in Nat
         /\ m.act.begin < NextSlot(m) /\ NextSlot(m) <= FinalSector(m.act)
         /\ FinalSector(m.act) \in Nat /\ FinalSector(m.act) + SectorPages <= Pages
         /\ m.op.at >= Reached(m, m.job) \/ m.job = "commit"
         /\ m.op.at >= m.act.begin
         /\ \A d \in m.dir : d.end <= m.act.begin
  <1>1. m \in Stores /\ JobOK(m) /\ m.op \in Operations BY StoreParts
  <1>2. m.job \notin RotationJobs BY DEF PageJobs, RotationJobs
  <1>3. Records(m, m.job) BY <1>1 DEF JobOK, PageJobs, Records
  <1>4. Behind(m) BY <1>2, <1>3, RunningParts
  <1>5. /\ m.act.begin \in 0 .. Pages /\ m.act.count \in Nat /\ NextSlot(m) \in Nat
        /\ m.act.begin < NextSlot(m) /\ NextSlot(m) <= FinalSector(m.act)
        /\ FinalSector(m.act) \in Nat /\ FinalSector(m.act) + SectorPages <= Pages
    BY <1>1, <1>4, RecordingPlace DEF NextSlot
  <1>6. \A d \in m.dir : d.end <= m.act.begin
    <2>1. Covered(m) /\ m.head <= m.act.begin /\ m.head \in 0 .. Pages
      BY <1>1, <1>4, RunningParts DEF Behind, Stores
    <2>2. \A d \in m.dir : d.end \in 0 .. Pages BY RunningParts
    <2> QED BY <1>5, <2>1, <2>2, Sizes DEF Covered
  <1>7. m.op.do = "program"
    BY DEF OperationOK, Program, PageJobs
  <1>8. m.op.at < Pages BY <1>1, <1>7 DEF JobOK
  <1>9. m.op.at \in Chip /\ m.op.page \in PageSet /\ m.op = Program(m.op.at, m.op.page)
    BY <1>1, <1>7, OperationForms DEF Idle
  <1>10. m.op.at \in 0 .. Pages - 1 BY <1>8, <1>9, Sizes DEF Chip
  <1>11. /\ m.op.at >= Reached(m, m.job) \/ m.job = "commit"
         /\ m.op.at >= m.act.begin
    <2>1. CASE m.job = "begin" BY <1>5, <2>1 DEF OperationOK, Program, Reached
    <2>2. CASE m.job = "page0" BY <1>5, <2>2 DEF OperationOK, Program, Reached
    <2>3. CASE m.job = "page1" BY <1>5, <2>3 DEF OperationOK, Program, Reached
    <2>4. CASE m.job = "commit" BY <1>5, <2>4 DEF OperationOK, Program, Reached
    <2>5. CASE m.job = "end" BY <1>5, <2>5 DEF OperationOK, Program, Reached
    <2> QED BY <2>1, <2>2, <2>3, <2>4, <2>5 DEF PageJobs
  <1> HIDE DEF Records
  <1> QED BY <1>2, <1>3, <1>5, <1>6, <1>7, <1>9, <1>10, <1>11

LEMMA SessionsApart ==
  ASSUME NEW fl \in [Chip -> PageSet], NEW dir \in SUBSET Finals, SessionsOK(fl, dir),
         NEW op \in Operations, NEW new \in Interrupted(fl, op),
         op.do = "program" => \A d \in dir : ~Within(op.at, d)
  PROVE  SessionsOK(new, dir)
  <1>1. \A d \in dir : \A p \in d.begin .. d.end - 1 : p \in Chip /\ Within(p, d)
    <2> TAKE d \in dir
    <2> TAKE p \in d.begin .. d.end - 1
    <2>1. d.begin \in 0 .. Pages /\ d.end \in 0 .. Pages BY DEF Finals, Descriptions
    <2> QED BY <2>1, Sizes DEF Chip, Within
  <1>2. CASE op = Idle BY <1>2, IdleChangesNothing
  <1>3. CASE op.do = "program" /\ op = Program(op.at, op.page)
             /\ op.at \in Chip /\ op.page \in PageSet
    <2>1. PICK at \in Chip, page \in PageSet : at = op.at /\ page = op.page BY <1>3
    <2>2. new \in Interrupted(fl, Program(at, page)) BY <1>3, <2>1
    <2>3. \A p \in Chip \ {at} : new[p] = fl[p] BY <2>2, CutProgram
    <2>4. \A d \in dir : \A p \in d.begin .. d.end - 1 : Tidy(fl, new, p)
      BY <1>1, <1>3, <2>1, <2>3 DEF Tidy
    <2> QED BY <2>4, SessionsKept
  <1>4. CASE /\ op.do = "erase" /\ op = [do |-> "erase", at |-> op.at, upto |-> op.upto]
             /\ op.at \in Nat /\ op.upto \in Nat /\ op.at <= op.upto
    <2>1. PICK a \in Nat, b \in Nat : a = op.at /\ b = op.upto /\ a <= b BY <1>4
    <2>2. \A p \in Chip : Tidy(fl, new, p) BY <1>4, <2>1, ErasedPages
    <2>3. \A d \in dir : \A p \in d.begin .. d.end - 1 : Tidy(fl, new, p) BY <1>1, <2>2
    <2> QED BY <2>3, SessionsKept
  <1> QED BY <1>2, <1>3, <1>4, OperationForms

LEMMA ToldDirectory ==
  ASSUME NEW fl, FlashOK(fl), Tells(fl)
  PROVE  /\ Told(fl) \in Stores /\ Told(fl).dir \in SUBSET Finals
         /\ \A d \in Told(fl).dir : d.confirmed
  <1>1. PICK k \in 0 .. 1 : JournalOK(fl, k) /\ fl \in [Chip -> PageSet] BY DEF FlashOK
  <1>2. ScanOK(fl, k, Stop(fl, k), Told(fl)) BY <1>1, ToldIs
  <1> QED BY <1>2 DEF ScanOK, Stores

\* Whatever an operation was cut short at, what a boot is told stands.
LEMMA FlashSafeCut ==
  ASSUME NEW fl, FlashOK(fl), NEW m, StoreOK(fl, m), AreaSafe(fl, m),
         NEW new \in Interrupted(fl, m.op)
  PROVE  FlashSafe(new)
  <1>1. /\ m.op \in Operations /\ m.job \in Jobs /\ m.cur \in 0 .. 1 /\ JobOK(m)
        /\ fl \in [Chip -> PageSet] /\ m \in Stores /\ FlashOK(new)
    BY StoreParts, CutKeepsFlash DEF FlashOK
  <1>2. CASE m.op = Idle BY <1>2, IdleChangesNothing DEF AreaSafe
  <1>3. ASSUME m.op # Idle PROVE m.job \notin {"none", "scan"} /\ Mounted(m)
    BY <1>1, <1>3 DEF JobOK, Mounted, Stores
  <1>4. CASE m.op # Idle /\ m.job \in JournalJobs
    <2>1. Running(m) /\ RunSafe(fl, m) /\ Doing(m) = m.job /\ Note(m) = m.op.page
      BY <1>3, <1>4 DEF AreaSafe, Running, Doing, Note, JournalJobs, RotationJobs
    <2>2. /\ Told(new) = Told(fl) \/ (Tells(fl) /\ Told(new) = Replayed(Told(fl), m.op.page))
          /\ \A p \in 0 .. Pages - 1 : new[p] = fl[p]
      BY <1>4, ToldGrows
    <2>3. SUFFICES ASSUME Tells(new) PROVE LedgerOK(new, Told(new)) BY DEF FlashSafe
    <2>4. Tells(fl) BY <2>2, <2>3 DEF Tells
    <2>5. LedgerOK(fl, Told(fl)) BY <2>4 DEF AreaSafe, FlashSafe
    <2>6. LedgerOK(fl, Told(new))
      <3>1. CASE Told(new) = Told(fl) BY <2>5, <3>1
      <3>2. CASE Told(new) = Replayed(Told(fl), m.op.page)
        <4>1. m.op.page \in Entries BY <1>1, <1>4 DEF JobOK, Fits
        <4>2. Told(fl) \in Stores BY <2>4, ToldDirectory
        <4>3. Grown(Told(fl), m.op.page, Told(new))
          BY <2>3, <3>2, <4>1, <4>2, ReplayedIs DEF Tells
        <4>4. /\ SessionsOK(fl, m.dir) /\ NoteOK(fl, m, m.job, m.op.page)
              /\ PurgeOK(m, m.job) /\ AgreesOK(Told(fl), m, m.job)
          BY <2>1, <2>4 DEF RunSafe, CoreOK, AreaOK
        <4>5. m.purge \in Owners /\ m.job \in JournalJobs BY <1>1, <1>4 DEF Stores
        <4>6. PICK t, u : t = Told(fl) /\ u = Told(new) OBVIOUS
        <4>7. PICK job \in JournalJobs, e \in Entries : job = m.job /\ e = m.op.page
          BY <4>1, <4>5
        <4>8. Grown(t, e, u) /\ LedgerOK(fl, t) BY <2>5, <4>3, <4>6, <4>7
        <4>9. SessionsOK(fl, m.dir) /\ PurgeOK(m, job) BY <4>4, <4>7
        <4>10. NoteOK(fl, m, job, e) /\ AgreesOK(t, m, job) /\ m.purge \in Owners
          BY <4>4, <4>5, <4>6, <4>7
        <4>11. LedgerOK(fl, u) BY ONLY <4>8, <4>9, <4>10, LedgerStep
        <4> QED BY <4>6, <4>11
      <3> QED BY <2>2, <3>1, <3>2
    <2>7. SessionsOK(new, Told(new).dir)
      BY <1>1, <2>2, <2>3, <2>6, SessionsSame, ToldDirectory DEF LedgerOK
    <2> QED BY <2>6, <2>7 DEF LedgerOK
  <1>5. CASE m.op # Idle /\ m.job \in RotationJobs
    <2>1. Running(m) /\ RunSafe(fl, m) BY <1>3, <1>5 DEF AreaSafe, Running, RotationJobs
    <2>2. \A p \in 0 .. Pages - 1 : new[p] = fl[p] BY <1>5, RotationTold
    <2>3. SUFFICES ASSUME Tells(new) PROVE LedgerOK(new, Told(new)) BY DEF FlashSafe
    <2>4. LedgerOK(fl, Told(new))
      <3>1. CASE m.job # "header" \/ ~Verified(new, m.op)
        <4>1. Told(new) = Told(fl) BY <1>5, <3>1, RotationTold
        <4> QED BY <2>3, <4>1 DEF AreaSafe, FlashSafe, Tells
      <3>2. CASE m.job = "header" /\ Verified(new, m.op)
        <4>1. SnapshotOK(fl, m) /\ SessionsOK(fl, m.dir) /\ PurgeOK(m, Doing(m))
          BY <2>1 DEF RunSafe, CoreOK, AreaOK
        <4>2. Restored(m, Told(new)) BY <2>3, <3>2, <4>1, HeaderTold
        <4> QED BY <4>1, <4>2, RestoredAgrees
      <3> QED BY <3>1, <3>2
    <2>5. SessionsOK(new, Told(new).dir)
      BY <1>1, <2>2, <2>3, <2>4, SessionsSame, ToldDirectory DEF LedgerOK
    <2> QED BY <2>4, <2>5 DEF LedgerOK
  <1>6. CASE m.op # Idle /\ m.job \in PageJobs \cup {"repair"}
    <2>1. /\ Mounted(m) /\ JournalOK(fl, m.cur) /\ Preserved(fl, new, m.cur)
      BY <1>3, <1>6, StoreParts, CutArea DEF CursorOK
    <2>2. Told(new) = Told(fl) BY <1>1, <2>1, ToldKept
    <2>3. SUFFICES ASSUME Tells(fl) PROVE LedgerOK(new, Told(fl))
      BY <2>2 DEF FlashSafe, Tells
    <2>4. LedgerOK(fl, Told(fl)) BY <2>3 DEF AreaSafe, FlashSafe
    <2>5. m.op.do = "program" => \A d \in Told(fl).dir : ~Within(m.op.at, d)
      <3>1. CASE m.job = "repair" BY <3>1 DEF AreaSafe, RecoverySafe
      <3>2. CASE m.job \in PageJobs
        <4>1. Running(m) /\ RunSafe(fl, m) BY <1>3, <1>6, <3>2 DEF AreaSafe, Running, PageJobs
        <4>2. OperationOK(fl, m) /\ \A d \in Told(fl).dir : Marked(m.dir, d)
          BY <2>3, <4>1 DEF RunSafe, CoreOK, AgreesOK
        <4>3. CASE m.job = "reclaim" BY <4>2, <4>3 DEF OperationOK, Erase
        <4>4. CASE m.job # "reclaim"
          <5>1. /\ m.op.at \in 0 .. Pages - 1 /\ m.op.at >= m.act.begin
                /\ m.act.begin \in 0 .. Pages
                /\ \A d \in m.dir : d.end <= m.act.begin /\ d.end \in 0 .. Pages
            BY <3>2, <4>1, <4>2, <4>4, PagePlace, RunningParts
          <5>2. \A d \in m.dir : ~(m.op.at < d.end) BY <5>1, Sizes
          <5> QED BY <4>2, <5>2 DEF Marked, SamePlace, Within
        <4> QED BY <4>3, <4>4
      <3> QED BY <1>6, <3>1, <3>2
    <2>6. SessionsOK(new, Told(fl).dir)
      BY <1>1, <2>3, <2>4, <2>5, SessionsApart, ToldDirectory DEF LedgerOK
    <2> QED BY <2>4, <2>6 DEF LedgerOK
  <1> QED BY <1>1, <1>2, <1>3, <1>4, <1>5, <1>6 DEF Jobs

-----------------------------------------------------------------------------
(* What the parts of the invariant rest on.                                  *)

SameCore(r, m) ==
    /\ r.dir = m.dir /\ r.active = m.active /\ r.act = m.act /\ r.mode = m.mode
    /\ r.purge = m.purge /\ r.foreign = m.foreign /\ r.reclaim = m.reclaim

LEMMA CoreSame ==
  ASSUME NEW fl, NEW m, NEW r, SameCore(r, m), NEW job, NEW e, CoreOK(fl, m, job, e)
  PROVE  CoreOK(fl, r, job, e)
  <1>1. AreaOK(fl, r, job)
    BY DEF CoreOK, AreaOK, SameCore, Used, Records, Reached, NextSlot
  <1>2. RecordingStands(fl, r, job) BY DEF CoreOK, RecordingStands, SameCore, Records
  <1>3. NoteOK(fl, r, job, e) BY DEF CoreOK, NoteOK, SameCore
  <1>4. PurgeOK(r, job) BY DEF CoreOK, PurgeOK, SameCore
  <1>5. Tells(fl) => AgreesOK(Told(fl), r, job) BY DEF CoreOK, AgreesOK, SameCore
  <1> QED BY <1>1, <1>2, <1>3, <1>4, <1>5 DEF CoreOK

\* The job is the same whether its entry goes now or after a change of banks.
LEMMA JournalRuns ==
  ASSUME NEW fl, NEW m \in Stores, NEW e, NEW job \in JournalJobs, CoreOK(fl, m, job, e)
  PROVE  RunSafe(fl, Journal(m, e, job)) /\ Journal(m, e, job).job \notin {"scan", "repair"}
  <1> DEFINE r == Journal(m, e, job)
  <1>1. SameCore(r, m) BY DEF Journal, SameCore, Stores
  <1>2. \/ r.job = job /\ r.op.page = e
        \/ r.job = "rotate" /\ r.held = e /\ r.resume = job
    <2>1. CASE m.runtime /\ m.next < BankPages
      <3>1. r.job = job /\ r.op = Program(Bank(m.cur) + m.next, e) BY <2>1 DEF Journal, Stores
      <3> HIDE DEF r
      <3> QED BY <3>1 DEF Program
    <2>2. CASE ~(m.runtime /\ m.next < BankPages)
      BY <2>2 DEF Journal, Stores
    <2> QED BY <2>1, <2>2
  <1> HIDE DEF r
  <1>3. Doing(r) = job /\ Note(r) = e BY <1>2 DEF Doing, Note, RotationJobs, JournalJobs
  <1>4. r.job \notin PageJobs /\ r.job \notin {"snapshot", "header", "scan", "repair"}
    BY <1>2 DEF PageJobs, JournalJobs
  <1>5. OperationOK(fl, r) /\ SnapshotOK(fl, r) BY <1>4 DEF OperationOK, SnapshotOK, PageJobs
  <1>6. CoreOK(fl, r, job, e) BY <1>1, CoreSame
  <1> QED BY <1>3, <1>4, <1>5, <1>6 DEF RunSafe, r

LEMMA PageRuns ==
  ASSUME NEW fl, NEW r, r.job \in {"none"} \cup PageJobs, CoreOK(fl, r, r.job, r.op.page),
         OperationOK(fl, r)
  PROVE  RunSafe(fl, r) /\ r.job \notin {"scan", "repair"}
  <1>1. r.job \notin RotationJobs /\ r.job \notin {"scan", "repair"}
    BY DEF PageJobs, RotationJobs
  <1> QED BY <1>1 DEF RunSafe, Doing, Note, SnapshotOK, RotationJobs

\* A job that neither a purge nor a release does.
PlainJobs == {"none", "begin", "open", "page0", "page1", "commit", "checkpoint", "end", "final"}

LEMMA PlainCore ==
  ASSUME NEW fl, NEW m, NEW job \in PlainJobs, NEW r, NEW next \in PlainJobs, NEW e,
         PurgeOK(m, job), r.purge = m.purge, \A d \in r.dir : d \in m.dir \/ ~d.discard,
         AreaOK(fl, r, next), RecordingStands(fl, r, next),
         next \in {"open", "checkpoint", "final"} => e.type = next /\ e.s.id = r.act.id,
         Tells(fl) => AgreesOK(Told(fl), r, "none")
  PROVE  CoreOK(fl, r, next, e)
  <1>1. m.purge \notin Users /\ \A d \in m.dir : ~d.discard
    BY DEF PurgeOK, PurgeJobs, PlainJobs
  <1>2. PurgeOK(r, next) BY <1>1 DEF PurgeOK, PurgeJobs, PlainJobs
  <1>3. NoteOK(fl, r, next, e) BY DEF NoteOK, PlainJobs
  <1>4. Tells(fl) => AgreesOK(Told(fl), r, next) BY DEF AgreesOK
  <1> QED BY <1>2, <1>3, <1>4 DEF CoreOK

LEMMA StandsKept ==
  ASSUME NEW fl, NEW new, NEW a, a.begin \in Nat, a.count \in Nat, Stands(fl, a),
         \A p \in a.begin .. Slot(a.begin, a.count) - 1 : new[p] = fl[p]
  PROVE  Stands(new, a)
  <1>1. PICK b \in Nat, c \in Nat : b = a.begin /\ c = a.count OBVIOUS
  <1>2. new[b] = fl[b]
    <2>1. b \in b .. Slot(b, c) - 1 BY DEF Slot
    <2> QED BY <1>1, <2>1
  <1>3. ASSUME NEW n \in 0 .. c - 1
        PROVE  new[Slot(b, n)] = fl[Slot(b, n)] /\ new[Slot(b, n) + 1] = fl[Slot(b, n) + 1]
    <2>1. Slot(b, n) \in b .. Slot(b, c) - 1 /\ Slot(b, n) + 1 \in b .. Slot(b, c) - 1
      BY DEF Slot
    <2> QED BY <1>1, <2>1
  <1> QED BY <1>1, <1>2, <1>3 DEF Stands, EventAt

LEMMA RecordedAt ==
  ASSUME NEW fl, NEW m, StoreOK(fl, m), Running(m), OperationOK(fl, m), Records(m, Doing(m))
  PROVE  /\ m.act.begin \in 0 .. Pages /\ m.act.count \in Nat /\ NextSlot(m) \in Nat
         /\ NextSlot(m) = m.act.begin + 1 + 2 * m.act.count
         /\ m.act.begin < NextSlot(m) /\ NextSlot(m) <= FinalSector(m.act)
         /\ FinalSector(m.act) \in Nat /\ FinalSector(m.act) + SectorPages <= Pages
         /\ \A d \in m.dir : d.end <= m.act.begin
  <1>1. m \in Stores BY StoreParts
  <1>2. Behind(m) BY RunningParts
  <1>3. /\ m.act.begin \in 0 .. Pages /\ m.act.count \in Nat /\ NextSlot(m) \in Nat
        /\ m.act.begin < NextSlot(m) /\ NextSlot(m) <= FinalSector(m.act)
        /\ FinalSector(m.act) \in Nat /\ FinalSector(m.act) + SectorPages <= Pages
    BY <1>1, <1>2, RecordingPlace DEF NextSlot
  <1>4. \A d \in m.dir : d.end <= m.act.begin
    <2>1. Covered(m) /\ m.head <= m.act.begin /\ m.head \in 0 .. Pages
      BY <1>1, <1>2, RunningParts DEF Behind, Stores
    <2>2. \A d \in m.dir : d.end \in 0 .. Pages BY RunningParts
    <2> QED BY <1>3, <2>1, <2>2, Sizes DEF Covered
  <1>5. NextSlot(m) = m.act.begin + 1 + 2 * m.act.count BY DEF NextSlot, Slot
  <1> QED BY <1>3, <1>4, <1>5

\* What a job that writes a page of a session leaves when it is read back.
LEMMA PageVerified ==
  ASSUME NEW fl, FlashOK(fl), NEW m, StoreOK(fl, m), Running(m), RunSafe(fl, m),
         m.job \in PageJobs, m.job # "reclaim",
         NEW new \in Interrupted(fl, m.op), Verified(new, m.op)
  PROVE  /\ new[m.op.at] = m.op.page
         /\ \A p \in 0 .. Pages - 1 : p # m.op.at => new[p] = fl[p]
         /\ SessionsOK(new, m.dir)
         /\ Tells(new) => AgreesOK(Told(new), m, "none")
         /\ Doing(m) = m.job /\ m.job \in PlainJobs /\ PurgeOK(m, m.job)
         /\ AreaOK(fl, m, m.job) /\ RecordingStands(fl, m, m.job)
  <1>1. /\ OperationOK(fl, m) /\ CoreOK(fl, m, m.job, Note(m)) /\ Doing(m) = m.job
        /\ m.job \in PlainJobs
    BY DEF RunSafe, Doing, PageJobs, RotationJobs, PlainJobs
  <1>2. PICK at \in 0 .. Pages - 1, page \in PageSet :
          /\ at = m.op.at /\ page = m.op.page /\ at \in Chip /\ m.op = Program(at, page)
    BY <1>1, PagePlace
  <1>3. fl \in [Chip -> PageSet] /\ m.op \in Operations /\ m.cur \in 0 .. 1 /\ Mounted(m)
    BY StoreParts DEF FlashOK, Running
  <1>4. new[at] = page BY <1>2 DEF Verified, Program
  <1>5. \A p \in Chip \ {at} : new[p] = fl[p] BY <1>2, <1>3, CutProgram
  <1>6. \A p \in 0 .. Pages - 1 : p # at => new[p] = fl[p] BY <1>5, Sizes DEF Chip
  <1>7. SessionsOK(new, m.dir)
    <2>1. at >= m.act.begin /\ m.act.begin \in 0 .. Pages /\ \A d \in m.dir : d.end <= m.act.begin
      BY <1>1, <1>2, PagePlace
    <2>2. m.dir \in SUBSET Finals /\ \A d \in m.dir : d.end \in 0 .. Pages
      BY <1>1, RunningParts
    <2>3. \A d \in m.dir : ~Within(at, d) BY <2>1, <2>2, Sizes DEF Within
    <2> QED BY <1>1, <1>2, <1>3, <2>2, <2>3, SessionsApart DEF CoreOK, AreaOK
  <1>8. Told(new) = Told(fl)
    <2>1. JournalOK(fl, m.cur) /\ Preserved(fl, new, m.cur)
      BY <1>3, StoreParts, CutArea DEF CursorOK
    <2> QED BY <1>3, <2>1, ToldKept
  <1>9. Tells(new) => AgreesOK(Told(new), m, "none")
    BY <1>1, <1>8 DEF Tells, CoreOK, AgreesOK, PlainJobs
  <1> QED BY <1>1, <1>2, <1>4, <1>6, <1>7, <1>9 DEF CoreOK

-----------------------------------------------------------------------------
(* The recording of a session.                                               *)

\* What a step leaves, when it does not fail, is safe to go on with.
Goes(fl, r) == (Mounted(r) => RunSafe(fl, r)) /\ r.job \notin {"scan", "repair"}

LEMMA BeginRuns ==
  ASSUME NEW fl, FlashOK(fl), NEW m, StoreOK(fl, m), Running(m), RunSafe(fl, m),
         NEW new \in Interrupted(fl, m.op), Verified(new, m.op), m.job = "begin"
  PROVE  Goes(new, BeginDone(m))
  <1>1. m \in Stores /\ OperationOK(fl, m) BY StoreParts DEF RunSafe
  <1>2. /\ new[m.op.at] = m.op.page
        /\ \A p \in 0 .. Pages - 1 : p # m.op.at => new[p] = fl[p]
        /\ SessionsOK(new, m.dir) /\ (Tells(new) => AgreesOK(Told(new), m, "none"))
        /\ Doing(m) = "begin" /\ "begin" \in PlainJobs /\ PurgeOK(m, "begin")
        /\ AreaOK(fl, m, "begin") /\ RecordingStands(fl, m, "begin")
    BY PageVerified DEF PageJobs
  <1>3. /\ m.act.begin \in 0 .. Pages /\ NextSlot(m) \in Nat /\ m.act.begin < NextSlot(m)
        /\ m.act.count = 0 /\ NextSlot(m) = m.act.begin + 1 + 2 * m.act.count
        /\ m.act.begin < Pages
    <2>1. Records(m, Doing(m)) BY <1>2 DEF Records
    <2>2. m.act.count = 0 BY <1>2 DEF RecordingStands
    <2>3. /\ m.act.begin \in 0 .. Pages /\ NextSlot(m) \in Nat /\ m.act.begin < NextSlot(m)
          /\ NextSlot(m) = m.act.begin + 1 + 2 * m.act.count
          /\ NextSlot(m) <= FinalSector(m.act)
          /\ FinalSector(m.act) \in Nat /\ FinalSector(m.act) + SectorPages <= Pages
      BY <1>1, <2>1, RecordedAt
    <2>4. m.act.begin < Pages BY <2>3, Sizes
    <2> QED BY <2>2, <2>3, <2>4
  <1>4. m.op = Program(m.act.begin, BeginPage(m.act.id, m.act.owner))
    BY <1>1 DEF OperationOK
  <1>5. m.op.at = m.act.begin /\ m.op.page = BeginPage(m.act.id, m.act.owner)
    BY <1>4 DEF Program
  <1>6. AreaOK(new, m, "open")
    <2>1. ASSUME NEW p \in 0 .. Pages - 1 PROVE new[p] \in Voids \/ Used(m, "open", p)
      <3>1. CASE p = m.act.begin BY <1>3, <3>1 DEF Used, Records, Reached
      <3>2. CASE p # m.act.begin
        <4>1. new[p] = fl[p] BY <1>2, <1>5, <3>2
        <4>2. Used(m, "begin", p) => Used(m, "open", p)
          BY <1>3 DEF Used, Records, Reached
        <4> QED BY <1>2, <4>1, <4>2 DEF AreaOK
      <3> QED BY <3>1, <3>2
    <2> QED BY <1>2, <2>1 DEF AreaOK
  <1>7. RecordingStands(new, m, "open")
    <2>1. Apart(new, m.act.begin)
      <3>1. Apart(fl, m.act.begin) BY <1>2 DEF RecordingStands, Records
      <3>2. m.act.begin # 0 => m.act.begin - 1 \in 0 .. Pages - 1 /\ m.act.begin - 1 # m.act.begin
        BY <1>3, Sizes
      <3>3. m.act.begin # 0 => new[m.act.begin - 1] = fl[m.act.begin - 1]
        BY <1>2, <1>5, <3>2
      <3> QED BY <3>1, <3>3 DEF Apart
    <2>2. Stands(new, m.act) BY <1>2, <1>3, <1>5 DEF Stands
    <2> QED BY <1>3, <2>1, <2>2 DEF RecordingStands
  <1> DEFINE e == Entry("open", ActiveInfo(m.act, m.act.begin + 1))
  <1>8. e.type = "open" /\ e.s.id = m.act.id BY DEF Entry, ActiveInfo, Session
  <1>9. CoreOK(new, m, "open", e)
    <2> HIDE DEF e
    <2> QED BY ONLY <1>2, <1>6, <1>7, <1>8, PlainCore DEF PlainJobs
  <1> HIDE DEF e
  <1> QED BY <1>1, <1>9, JournalRuns DEF BeginDone, JournalJobs, Goes, e

\* An entry of the recording is on Flash: the area and the rest stand.
LEMMA EntryVerified ==
  ASSUME NEW fl, FlashOK(fl), NEW m, StoreOK(fl, m), Running(m), RunSafe(fl, m),
         FlashSafe(fl), m.job \in JournalJobs, NEW new \in Interrupted(fl, m.op),
         Verified(new, m.op)
  PROVE  /\ \A p \in 0 .. Pages - 1 : new[p] = fl[p]
         /\ Doing(m) = m.job /\ OperationOK(fl, m)
         /\ CoreOK(fl, m, m.job, m.op.page)
         /\ SessionsOK(new, m.dir)
         /\ Tells(new) =>
              /\ \A d \in Told(new).dir :
                    \/ Marked(m.dir, d)
                    \/ m.job \in {"confirm", "discard"} /\ SamePlace(m.op.page.s, d)
              /\ m.job = "reclaimed" => \A d \in Told(new).dir : d.id # m.reclaim.id
              /\ Told(new).purge = IF m.job = "purge_done" THEN NoUser ELSE m.purge
  <1>1. /\ Doing(m) = m.job /\ OperationOK(fl, m) /\ CoreOK(fl, m, m.job, m.op.page)
    BY DEF RunSafe, Doing, Note, JournalJobs, RotationJobs
  <1>2. /\ \A p \in 0 .. Pages - 1 : new[p] = fl[p]
        /\ Tells(new) => Tells(fl) /\ Told(new) = Replayed(Told(fl), m.op.page)
    BY ToldGrows
  <1>3. m.op.page \in Entries /\ m.purge \in Owners /\ m.dir \in SUBSET Finals
    BY StoreParts DEF JobOK, Fits, Stores
  <1>4. SessionsOK(fl, m.dir) BY <1>1 DEF CoreOK, AreaOK
  <1>5. SessionsOK(new, m.dir) BY <1>2, <1>3, <1>4, SessionsSame
  <1>6. ASSUME Tells(new)
        PROVE  /\ \A d \in Told(new).dir :
                    \/ Marked(m.dir, d)
                    \/ m.job \in {"confirm", "discard"} /\ SamePlace(m.op.page.s, d)
               /\ m.job = "reclaimed" => \A d \in Told(new).dir : d.id # m.reclaim.id
               /\ Told(new).purge = IF m.job = "purge_done" THEN NoUser ELSE m.purge
    <2>1. Tells(fl) /\ Told(new) = Replayed(Told(fl), m.op.page) BY <1>2, <1>6
    <2>2. Told(fl) \in Stores BY <2>1, ToldDirectory
    <2>3. Grown(Told(fl), m.op.page, Told(new))
      BY <1>3, <1>6, <2>1, <2>2, ReplayedIs DEF Tells
    <2>4. LedgerOK(fl, Told(fl))
      BY <2>1 DEF FlashSafe
    <2>5. NoteOK(fl, m, m.job, m.op.page) /\ PurgeOK(m, m.job) /\ AgreesOK(Told(fl), m, m.job)
      BY <1>1, <2>1 DEF CoreOK
    <2>6. PICK t, r, e, job :
            t = Told(fl) /\ r = Told(new) /\ e = m.op.page /\ job = m.job
      OBVIOUS
    <2>7. /\ Grown(t, e, r) /\ NoteOK(fl, m, job, e) /\ PurgeOK(m, job) /\ LedgerOK(fl, t)
          /\ AgreesOK(t, m, job) /\ job \in JournalJobs /\ e \in Entries
      BY <1>3, <2>3, <2>4, <2>5, <2>6
    <2>8. /\ \A d \in r.dir :
                \/ Marked(m.dir, d)
                \/ job \in {"confirm", "discard"} /\ SamePlace(e.s, d)
          /\ job = "reclaimed" => \A d \in r.dir : d.id # m.reclaim.id
          /\ r.purge = IF job = "purge_done" THEN NoUser ELSE m.purge
      BY ONLY <1>3, <1>4, <2>7, LedgerStep
    <2> QED BY <2>6, <2>8
  <1> QED BY <1>1, <1>2, <1>5, <1>6

LEMMA EntryAgrees ==
  ASSUME NEW fl, FlashOK(fl), NEW m, StoreOK(fl, m), Running(m), RunSafe(fl, m),
         FlashSafe(fl), m.job \in {"open", "checkpoint", "final"},
         NEW new \in Interrupted(fl, m.op), Verified(new, m.op)
  PROVE  /\ \A p \in 0 .. Pages - 1 : new[p] = fl[p]
         /\ SessionsOK(new, m.dir) /\ OperationOK(fl, m) /\ Doing(m) = m.job
         /\ AreaOK(fl, m, m.job) /\ RecordingStands(fl, m, m.job) /\ PurgeOK(m, m.job)
         /\ Tells(new) => AgreesOK(Told(new), m, "none")
  <1>1. m.job \in JournalJobs /\ m.job \notin {"confirm", "discard", "reclaimed", "purge_done"}
    BY DEF JournalJobs
  <1>2. /\ \A p \in 0 .. Pages - 1 : new[p] = fl[p]
        /\ SessionsOK(new, m.dir) /\ OperationOK(fl, m) /\ Doing(m) = m.job
        /\ CoreOK(fl, m, m.job, m.op.page)
        /\ Tells(new) => /\ \A d \in Told(new).dir :
                               \/ Marked(m.dir, d)
                               \/ m.job \in {"confirm", "discard"} /\ SamePlace(m.op.page.s, d)
                         /\ Told(new).purge = IF m.job = "purge_done" THEN NoUser ELSE m.purge
    BY <1>1, EntryVerified
  <1> QED BY <1>1, <1>2 DEF CoreOK, AgreesOK

\* What was recorded stands as long as it is left alone.
LEMMA RecordingKept ==
  ASSUME NEW fl, NEW m, StoreOK(fl, m), Running(m), OperationOK(fl, m),
         Records(m, Doing(m)), RecordingStands(fl, m, Doing(m)), NEW new,
         \A p \in 0 .. Pages - 1 : p < NextSlot(m) => new[p] = fl[p]
  PROVE  /\ Apart(new, m.act.begin)
         /\ m.active \/ Doing(m) = "open" => Stands(new, m.act)
  <1>1. /\ m.act.begin \in 0 .. Pages /\ m.act.count \in Nat /\ NextSlot(m) \in Nat
        /\ m.act.begin < NextSlot(m) /\ NextSlot(m) <= FinalSector(m.act)
        /\ FinalSector(m.act) \in Nat /\ FinalSector(m.act) + SectorPages <= Pages
    BY RecordedAt
  <1>2. PICK b \in Nat, n \in Nat : b = m.act.begin /\ n = NextSlot(m) /\ b < n /\ n < Pages
    BY <1>1, Sizes
  <1>3. Apart(new, b)
    <2>1. Apart(fl, b) BY <1>2 DEF RecordingStands
    <2>2. b # 0 => b - 1 \in 0 .. Pages - 1 /\ b - 1 < n BY <1>2, Sizes
    <2>3. b # 0 => new[b - 1] = fl[b - 1] BY <1>2, <2>2
    <2> QED BY <2>1, <2>3 DEF Apart
  <1>4. ASSUME m.active \/ Doing(m) = "open" PROVE Stands(new, m.act)
    <2>1. Stands(fl, m.act) BY <1>4 DEF RecordingStands
    <2>2. \A p \in b .. n - 1 : p \in 0 .. Pages - 1 /\ p < n BY <1>2, Sizes
    <2>3. \A p \in m.act.begin .. Slot(m.act.begin, m.act.count) - 1 : new[p] = fl[p]
      BY <1>2, <2>2 DEF NextSlot
    <2>4. m.act.begin \in Nat /\ m.act.count \in Nat BY <1>1, <1>2
    <2> QED BY <2>1, <2>3, <2>4, StandsKept
  <1> QED BY <1>2, <1>3, <1>4

LEMMA OpenRuns ==
  ASSUME NEW fl, FlashOK(fl), NEW m, StoreOK(fl, m), Running(m), RunSafe(fl, m),
         FlashSafe(fl), NEW new \in Interrupted(fl, m.op), Verified(new, m.op), m.job = "open"
  PROVE  Goes(new, OpenDone(m))
  <1>1. /\ \A p \in 0 .. Pages - 1 : new[p] = fl[p]
        /\ SessionsOK(new, m.dir) /\ OperationOK(fl, m) /\ Doing(m) = "open"
        /\ AreaOK(fl, m, "open") /\ RecordingStands(fl, m, "open") /\ PurgeOK(m, "open")
        /\ Tells(new) => AgreesOK(Told(new), m, "none")
    BY EntryAgrees
  <1>2. m \in Stores BY StoreParts
  <1>3. Records(m, Doing(m)) BY <1>1 DEF Records
  <1>4. Apart(new, m.act.begin) /\ Stands(new, m.act)
    <2> HIDE DEF Records
    <2> QED BY <1>1, <1>3, RecordingKept
  <1> DEFINE r == OpenDone(m)
  <1>5. /\ r.dir = m.dir /\ r.active = TRUE /\ r.act = m.act /\ r.purge = m.purge
        /\ r.job = "none"
    BY <1>2 DEF OpenDone, Ready, Logged, Stores
  <1> HIDE DEF r
  <1>6. AreaOK(new, r, "none")
    <2>1. ASSUME NEW p PROVE Used(m, "open", p) => Used(r, "none", p)
      BY <1>5 DEF Used, Records, Reached, NextSlot
    <2> QED BY <1>1, <1>5, <2>1 DEF AreaOK
  <1>7. RecordingStands(new, r, "none") BY <1>4, <1>5 DEF RecordingStands
  <1>8. Tells(new) => AgreesOK(Told(new), r, "none") BY <1>1, <1>5 DEF AgreesOK
  <1>9. CoreOK(new, r, "none", r.op.page)
    <2>1. "open" \in PlainJobs /\ "none" \in PlainJobs BY DEF PlainJobs
    <2>2. r.purge = m.purge /\ \A d \in r.dir : d \in m.dir \/ ~d.discard BY <1>5
    <2>3. PurgeOK(m, "open") BY <1>1
    <2> QED BY ONLY <1>6, <1>7, <1>8, <2>1, <2>2, <2>3, PlainCore
  <1>10. OperationOK(new, r) BY <1>5 DEF OperationOK, PageJobs
  <1> QED BY <1>5, <1>9, <1>10, PageRuns DEF Goes, r

LEMMA HeadRuns ==
  ASSUME NEW fl, FlashOK(fl), NEW m, StoreOK(fl, m), Running(m), RunSafe(fl, m),
         NEW new \in Interrupted(fl, m.op), Verified(new, m.op), m.job \in {"page0", "page1"}
  PROVE  Goes(new, IF m.job = "page0" THEN HeadDone(m) ELSE TailDone(m))
  <1>1. m \in Stores /\ JobOK(m) /\ OperationOK(fl, m) /\ m.job \in PageJobs /\ m.job # "reclaim"
    BY StoreParts DEF RunSafe, PageJobs
  <1>2. /\ new[m.op.at] = m.op.page
        /\ \A p \in 0 .. Pages - 1 : p # m.op.at => new[p] = fl[p]
        /\ SessionsOK(new, m.dir) /\ (Tells(new) => AgreesOK(Told(new), m, "none"))
        /\ Doing(m) = m.job /\ m.job \in PlainJobs /\ PurgeOK(m, m.job)
        /\ AreaOK(fl, m, m.job) /\ RecordingStands(fl, m, m.job)
    BY <1>1, PageVerified
  <1>3. m.active BY <1>1 DEF JobOK
  <1>4. Records(m, Doing(m)) BY <1>3 DEF Records
  <1>5. PICK n \in Nat : n = NextSlot(m) /\ n + 2 <= Pages
    <2>1. /\ NextSlot(m) \in Nat /\ NextSlot(m) <= FinalSector(m.act)
          /\ FinalSector(m.act) \in Nat /\ FinalSector(m.act) + SectorPages <= Pages
      BY <1>1, <1>4, RecordedAt
    <2> QED BY <2>1, Sizes
  <1>6. m.op.at = IF m.job = "page0" THEN n ELSE n + 1
    BY <1>1, <1>5 DEF OperationOK, Program
  <1>7. n \in 0 .. Pages - 1 /\ n + 1 \in 0 .. Pages - 1 /\ n # n + 1 BY <1>5, Sizes
  <1>8. Apart(new, m.act.begin) /\ Stands(new, m.act)
    <2>1. \A p \in 0 .. Pages - 1 : p < NextSlot(m) => new[p] = fl[p]
      BY <1>2, <1>5, <1>6, Sizes
    <2> HIDE DEF Records
    <2> QED BY <1>1, <1>2, <1>3, <1>4, <2>1, RecordingKept
  <1> DEFINE next == IF m.job = "page0" THEN "page1" ELSE "commit"
             r == IF m.job = "page0" THEN HeadDone(m) ELSE TailDone(m)
  <1>9. /\ r.dir = m.dir /\ r.active = m.active /\ r.act = m.act /\ r.purge = m.purge
        /\ r.job = next /\ r.mode = m.mode
        /\ r.op = IF m.job = "page0" THEN Program(n + 1, Torn(EventTail(m.act.id, m.act.count)))
                  ELSE Program(n + 1, EventTail(m.act.id, m.act.count))
    BY <1>1, <1>6 DEF HeadDone, TailDone, Stores
  <1>10. next \in {"page1", "commit"} OBVIOUS
  <1> HIDE DEF r
  <1>11. NextSlot(r) = n BY <1>5, <1>9 DEF NextSlot
  <1>12. Reached(r, next) = IF m.job = "page0" THEN n + 1 ELSE n + 2
    BY <1>11 DEF Reached
  <1>13. Reached(m, m.job) = IF m.job = "page0" THEN n ELSE n + 1
    BY <1>5 DEF Reached
  <1>14. /\ r.job \in {"page1", "commit"} /\ next = r.job BY <1>9
  <1>15. AreaOK(new, r, next)
    <2>1. ASSUME NEW p \in 0 .. Pages - 1, Used(m, m.job, p) \/ p = m.op.at PROVE Used(r, next, p)
      <3>1. CASE \E d \in m.dir : Within(p, d) BY <1>9, <3>1 DEF Used
      <3>2. CASE (m.act.begin <= p /\ p < Reached(m, m.job)) \/ p = m.op.at
        <4>1. m.act.begin \in 0 .. Pages /\ m.act.begin < n
          BY <1>1, <1>4, <1>5, RecordedAt
        <4>2. r.act.begin <= p /\ p < Reached(r, next)
          BY <1>6, <1>9, <1>12, <1>13, <3>2, <4>1, Sizes
        <4> QED BY <1>3, <1>9, <4>2 DEF Used, Records
      <3> QED BY <1>14, <2>1, <3>1, <3>2 DEF Used
    <2>2. \A p \in 0 .. Pages - 1 : p # m.op.at => new[p] = fl[p] BY <1>2
    <2> HIDE DEF next
    <2> QED BY <1>2, <1>9, <2>1, <2>2 DEF AreaOK
  <1>16. RecordingStands(new, r, next) BY <1>8, <1>9, <1>10 DEF RecordingStands
  <1>17. Tells(new) => AgreesOK(Told(new), r, "none") BY <1>2, <1>9 DEF AgreesOK
  <1>18. CoreOK(new, r, next, r.op.page)
    <2>1. next \in PlainJobs /\ next \notin {"open", "checkpoint", "final"}
      BY <1>10 DEF PlainJobs
    <2> HIDE DEF next
    <2> QED BY <1>2, <1>9, <1>15, <1>16, <1>17, <2>1, PlainCore
  <1>19. OperationOK(new, r)
    <2>1. new[n] = EventHead(m.act.id, m.act.count)
      <3>1. CASE m.job = "page0"
        BY <1>1, <1>2, <1>5, <1>6, <3>1 DEF OperationOK, Program
      <3>2. CASE m.job = "page1"
        <4>1. fl[n] = EventHead(m.act.id, m.act.count) BY <1>1, <1>5, <3>2 DEF OperationOK
        <4> QED BY <1>2, <1>6, <1>7, <3>2, <4>1
      <3> QED BY <3>1, <3>2
    <2>2. m.job = "page1" => new[n + 1] = Torn(EventTail(m.act.id, m.act.count))
      BY <1>1, <1>2, <1>5, <1>6 DEF OperationOK, Program
    <2>3. r.mode # "recovering" BY <1>1, <1>9 DEF OperationOK
    <2>4. r.job \notin {"begin", "page0", "end", "reclaim"} BY <1>14
    <2>5. r.job = "page1" <=> m.job = "page0" BY <1>9
    <2> HIDE DEF next
    <2> QED BY <1>9, <1>11, <1>14, <2>1, <2>2, <2>3, <2>4, <2>5 DEF OperationOK
  <1> QED
    <2>1. CoreOK(new, r, r.job, r.op.page) /\ r.job \in PageJobs
      BY <1>14, <1>18 DEF PageJobs
    <2>2. RunSafe(new, r) /\ r.job \notin {"scan", "repair"} BY <1>19, <2>1, PageRuns
    <2> QED BY <2>2 DEF Goes, r

LEMMA CommitRuns ==
  ASSUME NEW fl, FlashOK(fl), NEW m, StoreOK(fl, m), Running(m), RunSafe(fl, m),
         NEW new \in Interrupted(fl, m.op), Verified(new, m.op), m.job = "commit"
  PROVE  Goes(new, CommitDone(m))
  <1>1. m \in Stores /\ JobOK(m) /\ RecordingOK(m) /\ OperationOK(fl, m)
        /\ m.act \in Descriptions
    BY StoreParts DEF RunSafe, Stores
  <1>2. /\ new[m.op.at] = m.op.page
        /\ \A p \in 0 .. Pages - 1 : p # m.op.at => new[p] = fl[p]
        /\ SessionsOK(new, m.dir) /\ (Tells(new) => AgreesOK(Told(new), m, "none"))
        /\ Doing(m) = "commit" /\ PurgeOK(m, "commit")
        /\ AreaOK(fl, m, "commit") /\ RecordingStands(fl, m, "commit")
    BY PageVerified DEF PageJobs
  <1>3. m.active /\ Records(m, Doing(m)) BY <1>1 DEF JobOK, Records
  <1>4. /\ m.act.begin \in 0 .. Pages /\ m.act.count \in Nat /\ NextSlot(m) \in Nat
        /\ m.act.begin < NextSlot(m) /\ NextSlot(m) = m.act.begin + 1 + 2 * m.act.count
    BY <1>1, <1>3, RecordedAt
  <1>5. PICK b \in Nat, c \in Nat, n \in Nat :
          b = m.act.begin /\ c = m.act.count /\ n = NextSlot(m)
    BY <1>4, Sizes
  <1>6. n = b + 1 + 2 * c /\ n = Slot(b, c) /\ Slot(b, c + 1) = n + 2 /\ n \in Nat /\ n + 2 \in Nat
    BY <1>4, <1>5 DEF Slot
  <1> DEFINE a == [m.act EXCEPT !.count = @ + 1]
  <1>7. /\ a.begin = b /\ a.count = c + 1 /\ a.id = m.act.id /\ a.owner = m.act.owner
    BY <1>1, <1>5 DEF Descriptions
  <1>8. n + 2 <= Pages
    <2>1. FinalSector(a) + SectorPages <= Pages BY <1>1 DEF RecordingOK
    <2> HIDE DEF a
    <2>2. FinalSector(a) = AlignUp(n + 2) BY <1>6, <1>7 DEF FinalSector
    <2>3. AlignUp(n + 2) \in Nat /\ n + 2 <= AlignUp(n + 2) BY <1>6, AlignUpIs
    <2> QED BY <2>1, <2>2, <2>3, Sizes
  <1>9. m.op.at = n + 1 /\ m.op.page = EventTail(m.act.id, c)
        /\ fl[n] = EventHead(m.act.id, c)
    BY <1>1, <1>5 DEF OperationOK, Program
  <1>10. n \in 0 .. Pages - 1 /\ n + 1 \in 0 .. Pages - 1 /\ n # n + 1 BY <1>8, Sizes
  <1>11. Apart(new, b) /\ Stands(new, m.act)
    <2>1. \A p \in 0 .. Pages - 1 : p < NextSlot(m) => new[p] = fl[p]
      BY <1>2, <1>5, <1>9, Sizes
    <2> HIDE DEF Records
    <2> QED BY <1>1, <1>2, <1>3, <1>5, <2>1, RecordingKept
  <1>12. EventAt(new, b, m.act.id, c)
    <2>1. new[n] = EventHead(m.act.id, c) BY <1>2, <1>9, <1>10
    <2>2. new[n + 1] = EventTail(m.act.id, c) BY <1>2, <1>9
    <2> QED BY <1>6, <1>8, <2>1, <2>2 DEF EventAt, SlotFits
  <1> HIDE DEF a
  <1>13. Stands(new, a)
    <2>1. new[b] = BeginPage(m.act.id, m.act.owner) BY <1>5, <1>11 DEF Stands
    <2>2. \A i \in 0 .. c - 1 : EventAt(new, b, m.act.id, i) BY <1>5, <1>11 DEF Stands
    <2>3. \A i \in 0 .. (c + 1) - 1 : i \in 0 .. c - 1 \/ i = c BY <1>5
    <2>4. \A i \in 0 .. (c + 1) - 1 : EventAt(new, b, m.act.id, i) BY <1>12, <2>2, <2>3
    <2> QED BY <1>7, <2>1, <2>4 DEF Stands
  <1> DEFINE r == CommitDone(m)
  <1>14. /\ r.dir = m.dir /\ r.active = TRUE /\ r.act = a /\ r.purge = m.purge
         /\ r.job = "none"
    BY <1>1, <1>3 DEF CommitDone, Done, Stores, a
  <1> HIDE DEF r
  <1>15. AreaOK(new, r, "none")
    <2>1. Reached(r, "none") = n + 2 BY <1>6, <1>7, <1>14 DEF Reached, NextSlot
    <2>2. Reached(m, "commit") = n + 2 BY <1>5 DEF Reached
    <2>3. ASSUME NEW p, Used(m, "commit", p) PROVE Used(r, "none", p)
      BY <1>5, <1>7, <1>14, <2>1, <2>2, <2>3 DEF Used, Records
    <2>4. Used(r, "none", n + 1)
      <3>1. b <= n + 1 /\ n + 1 < n + 2 BY <1>6
      <3> QED BY <1>7, <1>14, <2>1, <3>1 DEF Used, Records
    <2> QED BY <1>2, <1>9, <1>14, <2>3, <2>4 DEF AreaOK
  <1>16. RecordingStands(new, r, "none") BY <1>7, <1>11, <1>13, <1>14 DEF RecordingStands
  <1>17. Tells(new) => AgreesOK(Told(new), r, "none") BY <1>2, <1>14 DEF AgreesOK
  <1>18. CoreOK(new, r, "none", r.op.page)
    <2>1. "commit" \in PlainJobs /\ "none" \in PlainJobs BY DEF PlainJobs
    <2>2. r.purge = m.purge /\ \A d \in r.dir : d \in m.dir \/ ~d.discard BY <1>14
    <2>3. PurgeOK(m, "commit") BY <1>2
    <2> QED BY ONLY <1>15, <1>16, <1>17, <2>1, <2>2, <2>3, PlainCore
  <1>19. OperationOK(new, r) BY <1>14 DEF OperationOK, PageJobs
  <1> QED BY <1>14, <1>18, <1>19, PageRuns DEF Goes, r

LEMMA CheckpointRuns ==
  ASSUME NEW fl, FlashOK(fl), NEW m, StoreOK(fl, m), Running(m), RunSafe(fl, m),
         FlashSafe(fl), NEW new \in Interrupted(fl, m.op), Verified(new, m.op),
         m.job = "checkpoint"
  PROVE  Goes(new, CheckpointDone(m))
  <1>1. /\ \A p \in 0 .. Pages - 1 : new[p] = fl[p]
        /\ SessionsOK(new, m.dir) /\ OperationOK(fl, m) /\ Doing(m) = "checkpoint"
        /\ AreaOK(fl, m, "checkpoint") /\ RecordingStands(fl, m, "checkpoint")
        /\ PurgeOK(m, "checkpoint")
        /\ Tells(new) => AgreesOK(Told(new), m, "none")
    BY EntryAgrees
  <1>2. m \in Stores /\ m.active
    <2>1. JobOK(m) /\ m.job \in JournalJobs BY StoreParts DEF JournalJobs
    <2> QED BY <2>1, StoreParts DEF JobOK, Purposes
  <1>3. Records(m, Doing(m)) BY <1>2 DEF Records
  <1>4. Apart(new, m.act.begin) /\ Stands(new, m.act)
    <2> HIDE DEF Records
    <2> QED BY <1>1, <1>2, <1>3, RecordingKept
  <1> DEFINE r == CheckpointDone(m)
  <1>5. /\ r.dir = m.dir /\ r.active = TRUE /\ r.act = m.act /\ r.purge = m.purge
        /\ r.job = "none"
    BY <1>2 DEF CheckpointDone, Done, Logged, Stores
  <1> HIDE DEF r
  <1>6. AreaOK(new, r, "none")
    <2>1. ASSUME NEW p PROVE Used(m, "checkpoint", p) => Used(r, "none", p)
      BY <1>2, <1>5 DEF Used, Records, Reached, NextSlot
    <2> QED BY <1>1, <1>5, <2>1 DEF AreaOK
  <1>7. RecordingStands(new, r, "none") BY <1>4, <1>5 DEF RecordingStands
  <1>8. Tells(new) => AgreesOK(Told(new), r, "none") BY <1>1, <1>5 DEF AgreesOK
  <1>9. CoreOK(new, r, "none", r.op.page)
    <2>1. "checkpoint" \in PlainJobs /\ "none" \in PlainJobs BY DEF PlainJobs
    <2>2. r.purge = m.purge /\ \A d \in r.dir : d \in m.dir \/ ~d.discard BY <1>5
    <2>3. PurgeOK(m, "checkpoint") BY <1>1
    <2> QED BY ONLY <1>6, <1>7, <1>8, <2>1, <2>2, <2>3, PlainCore
  <1>10. OperationOK(new, r) BY <1>5 DEF OperationOK, PageJobs
  <1> QED BY <1>5, <1>9, <1>10, PageRuns DEF Goes, r

LEMMA EndRuns ==
  ASSUME NEW fl, FlashOK(fl), NEW m, StoreOK(fl, m), Running(m), RunSafe(fl, m),
         NEW new \in Interrupted(fl, m.op), Verified(new, m.op), m.job = "end"
  PROVE  Goes(new, EndDone(m))
  <1>1. m \in Stores /\ JobOK(m) /\ OperationOK(fl, m) BY StoreParts DEF RunSafe
  <1>2. /\ new[m.op.at] = m.op.page
        /\ \A p \in 0 .. Pages - 1 : p # m.op.at => new[p] = fl[p]
        /\ SessionsOK(new, m.dir) /\ (Tells(new) => AgreesOK(Told(new), m, "none"))
        /\ Doing(m) = "end" /\ PurgeOK(m, "end")
        /\ AreaOK(fl, m, "end") /\ RecordingStands(fl, m, "end")
    BY PageVerified DEF PageJobs
  <1>3. m.active /\ Records(m, Doing(m)) BY <1>1 DEF JobOK, Records
  <1>4. m.op.at = FinalSector(m.act) BY <1>1 DEF OperationOK, Program
  <1>5. NextSlot(m) <= FinalSector(m.act) /\ NextSlot(m) \in Nat /\ FinalSector(m.act) \in Nat
    BY <1>1, <1>3, RecordedAt
  <1>6. Apart(new, m.act.begin) /\ Stands(new, m.act)
    <2>1. \A p \in 0 .. Pages - 1 : p < NextSlot(m) => new[p] = fl[p]
      BY <1>2, <1>4, <1>5, Sizes
    <2> HIDE DEF Records
    <2> QED BY <1>1, <1>2, <1>3, <2>1, RecordingKept
  <1>7. AreaOK(new, m, "final")
    <2>1. ASSUME NEW p PROVE Used(m, "end", p) \/ p = m.op.at => Used(m, "final", p)
      BY <1>3, <1>4 DEF Used, Records, Reached
    <2> QED BY <1>2, <2>1 DEF AreaOK
  <1>8. RecordingStands(new, m, "final") BY <1>6 DEF RecordingStands
  <1> DEFINE e == Entry("final", FinalInfo(m.act))
  <1>9. e.type = "final" /\ e.s.id = m.act.id BY DEF Entry, FinalInfo, ActiveInfo, Session
  <1>10. CoreOK(new, m, "final", e)
    <2> HIDE DEF e
    <2> QED BY ONLY <1>2, <1>7, <1>8, <1>9, PlainCore DEF PlainJobs
  <1> HIDE DEF e
  <1> QED BY <1>1, <1>10, JournalRuns DEF EndDone, JournalJobs, Goes, e

LEMMA FailedGoes == \A fl : Goes(fl, Failed) /\ Goes(fl, Off)
  BY DEF Goes, Failed, Off, Mounted

LEMMA FinalRuns ==
  ASSUME NEW fl, FlashOK(fl), NEW m, StoreOK(fl, m), Running(m), RunSafe(fl, m),
         FlashSafe(fl), NEW new \in Interrupted(fl, m.op), Verified(new, m.op),
         m.job = "final"
  PROVE  Goes(new, FinalDone(m))
  <1>1. /\ \A p \in 0 .. Pages - 1 : new[p] = fl[p]
        /\ SessionsOK(new, m.dir) /\ OperationOK(fl, m) /\ Doing(m) = "final"
        /\ AreaOK(fl, m, "final") /\ RecordingStands(fl, m, "final")
        /\ PurgeOK(m, "final")
        /\ Tells(new) => AgreesOK(Told(new), m, "none")
    BY EntryAgrees
  <1>2. m \in Stores /\ m.active
    <2>1. JobOK(m) /\ m.job \in JournalJobs BY StoreParts DEF JournalJobs
    <2> QED BY <2>1, StoreParts DEF JobOK, Purposes
  <1>3. Records(m, Doing(m)) BY <1>2 DEF Records
  <1>4. /\ m.act.begin \in 0 .. Pages /\ NextSlot(m) \in Nat
        /\ m.act.begin < NextSlot(m) /\ NextSlot(m) <= FinalSector(m.act)
        /\ FinalSector(m.act) \in Nat /\ FinalSector(m.act) + SectorPages <= Pages
        /\ \A d \in m.dir : d.end <= m.act.begin
    BY <1>1, <1>3, RecordedAt
  <1>5. \A d \in m.dir : d.end \in 0 .. Pages BY <1>1, RunningParts
  <1> DEFINE s == FinalInfo(m.act)
  <1>6. /\ s.begin = m.act.begin /\ s.next = m.act.begin /\ s.discard = FALSE
        /\ s.end = FinalSector(m.act) + SectorPages
    BY DEF FinalInfo, ActiveInfo, Session
  <1> HIDE DEF s
  <1>7. Cleared(new, s)
    <2>1. s.begin .. s.next - 1 = {} BY <1>4, <1>6, Sizes
    <2> QED BY <2>1 DEF Cleared
  <1>8. Closed(new, s)
    <2> DEFINE p == FinalSector(m.act) + SectorPages - 1
    <2>1. p \in 0 .. Pages - 1 /\ p > FinalSector(m.act) /\ s.end - 1 = p
      BY <1>4, <1>6, Sizes
    <2> HIDE DEF p
    <2>2. ~Used(m, "final", p)
      <3>1. \A d \in m.dir : ~Within(p, d) BY <1>4, <1>5, <2>1, Sizes DEF Within
      <3>2. ~(p < NextSlot(m)) BY <1>4, <2>1, Sizes
      <3>3. p # FinalSector(m.act) BY <1>4, <2>1, Sizes
      <3> QED BY <3>1, <3>2, <3>3 DEF Used, Reached
    <2>3. new[p] \in Voids BY <1>1, <2>1, <2>2 DEF AreaOK
    <2> QED BY <2>1, <2>3, VoidPages DEF Closed
  <1>9. CASE Cardinality(m.dir) >= MaxSessions
    BY <1>9, FailedGoes DEF FinalDone
  <1>10. CASE ~(Cardinality(m.dir) >= MaxSessions)
    <2> DEFINE r == FinalDone(m)
    <2>1. /\ r.dir = m.dir \cup {s} /\ r.active = FALSE /\ r.purge = m.purge
          /\ r.job = "none"
      BY <1>2, <1>10 DEF FinalDone, Ready, Logged, Stores, s
    <2> HIDE DEF r
    <2>2. AreaOK(new, r, "none")
      <3>1. ASSUME NEW p \in 0 .. Pages - 1, Used(m, "final", p) PROVE Used(r, "none", p)
        <4>1. CASE \E d \in m.dir : Within(p, d) BY <2>1, <4>1 DEF Used
        <4>2. CASE (m.act.begin <= p /\ p < NextSlot(m)) \/ p = FinalSector(m.act)
          <5>1. Within(p, s) BY <1>4, <1>6, <4>2, Sizes DEF Within
          <5> QED BY <2>1, <5>1 DEF Used
        <4> QED BY <3>1, <4>1, <4>2 DEF Used, Reached
      <3>2. SessionsOK(new, r.dir) BY <1>1, <1>7, <1>8, <2>1 DEF SessionsOK
      <3> QED BY <1>1, <3>1, <3>2 DEF AreaOK
    <2>3. RecordingStands(new, r, "none") BY <2>1 DEF RecordingStands, Records
    <2>4. Tells(new) => AgreesOK(Told(new), r, "none")
      BY <1>1, <2>1 DEF AgreesOK, Marked
    <2>5. CoreOK(new, r, "none", r.op.page)
      <3>1. "final" \in PlainJobs /\ "none" \in PlainJobs BY DEF PlainJobs
      <3>2. r.purge = m.purge /\ \A d \in r.dir : d \in m.dir \/ ~d.discard
        BY <1>6, <2>1
      <3>3. PurgeOK(m, "final") BY <1>1
      <3> QED BY ONLY <2>2, <2>3, <2>4, <3>1, <3>2, <3>3, PlainCore
    <2>6. OperationOK(new, r) BY <2>1 DEF OperationOK, PageJobs
    <2> QED BY <2>1, <2>5, <2>6, PageRuns DEF Goes, r
  <1> QED BY <1>9, <1>10

-----------------------------------------------------------------------------
(* Releasing sessions.                                                       *)

\* The core stands as long as the area is left alone.
LEMMA CoreMoves ==
  ASSUME NEW fl, NEW new, NEW m, StoreOK(fl, m), Running(m), OperationOK(fl, m),
         CoreOK(fl, m, Doing(m), Note(m)), \A p \in 0 .. Pages - 1 : new[p] = fl[p],
         Tells(new) => AgreesOK(Told(new), m, Doing(m))
  PROVE  CoreOK(new, m, Doing(m), Note(m))
  <1>1. PICK job, e : job = Doing(m) /\ e = Note(m) OBVIOUS
  <1>2. m.dir \in SUBSET Finals BY RunningParts
  <1>3. /\ AreaOK(fl, m, job) /\ RecordingStands(fl, m, job) /\ NoteOK(fl, m, job, e)
        /\ PurgeOK(m, job)
    BY <1>1 DEF CoreOK
  <1>4. AreaOK(new, m, job) BY <1>2, <1>3, SessionsSame DEF AreaOK
  <1>5. RecordingStands(new, m, job)
    <2>1. CASE Records(m, job)
      <3>1. Apart(new, m.act.begin) /\ (m.active \/ job = "open" => Stands(new, m.act))
        <4>1. Records(m, Doing(m)) /\ RecordingStands(fl, m, Doing(m)) BY <1>1, <1>3, <2>1
        <4> HIDE DEF Records, RecordingStands
        <4> QED BY <1>1, <4>1, RecordingKept
      <3> QED BY <1>3, <3>1 DEF RecordingStands
    <2>2. CASE ~Records(m, job) BY <2>2 DEF RecordingStands, Records
    <2> QED BY <2>1, <2>2
  <1>6. NoteOK(new, m, job, e)
    <2>1. ASSUME job \in {"reclaim", "progress", "reclaimed"} PROVE Cleared(new, m.reclaim)
      <3>1. Marked(m.dir, m.reclaim) /\ Cleared(fl, m.reclaim) BY <1>3, <2>1 DEF NoteOK
      <3>2. m.reclaim.begin \in 0 .. Pages /\ m.reclaim.next \in 0 .. Pages
        <4>1. m.reclaim \in Finals \cup {NoSession} BY RunningParts DEF Stores
        <4> QED BY <4>1, Sizes DEF Finals, Descriptions, NoSession, Session
      <3>3. \A p \in m.reclaim.begin .. m.reclaim.next - 1 : p \in 0 .. Pages - 1
        BY <3>2, Sizes
      <3> QED BY <3>1, <3>3 DEF Cleared
    <2> QED BY <1>3, <2>1 DEF NoteOK
  <1> QED BY <1>1, <1>3, <1>4, <1>5, <1>6 DEF CoreOK

\* Nothing is discarded but for a purge.
Purging(m) ==
    /\ m.foreign <=> m.purge \in Users
    /\ m.purge \in Users => m.mode # "ready"
    /\ \A d \in m.dir : d.discard => m.purge \in Users /\ d.owner # m.purge

LEMMA ReleaseCore ==
  ASSUME NEW fl, NEW m, ~m.active, NEW job \in {"reclaim", "progress", "reclaimed"}, NEW e,
         AreaOK(fl, m, "none"), Marked(m.dir, m.reclaim), Cleared(fl, m.reclaim),
         m.reclaim.discard => m.foreign, Purging(m),
         job = "progress" => ~m.foreign /\ e = Entry("progress", m.reclaim),
         job = "reclaimed" => /\ e.type = "reclaimed" /\ SamePlace(e.s, m.reclaim)
                              /\ m.reclaim.next = m.reclaim.end,
         Tells(fl) => AgreesOK(Told(fl), m, "none")
  PROVE  CoreOK(fl, m, job, e)
  <1>1. AreaOK(fl, m, job) BY DEF AreaOK, Used, Records
  <1>2. RecordingStands(fl, m, job) BY DEF RecordingStands, Records
  <1>3. NoteOK(fl, m, job, e) BY DEF NoteOK
  <1>4. PurgeOK(m, job) BY DEF PurgeOK, Purging, PurgeJobs
  <1>5. Tells(fl) => AgreesOK(Told(fl), m, job) BY DEF AgreesOK
  <1> QED BY <1>1, <1>2, <1>3, <1>4, <1>5 DEF CoreOK

LEMMA RestCore ==
  ASSUME NEW fl, NEW m, ~m.active, AreaOK(fl, m, "none"),
         m.purge \notin Users, \A d \in m.dir : ~d.discard,
         Tells(fl) => AgreesOK(Told(fl), m, "none"), m.job = "none"
  PROVE  Goes(fl, m)
  <1>1. RecordingStands(fl, m, "none") BY DEF RecordingStands, Records
  <1>2. NoteOK(fl, m, "none", m.op.page) BY DEF NoteOK
  <1>3. PurgeOK(m, "none") BY DEF PurgeOK
  <1>4. CoreOK(fl, m, "none", m.op.page) BY <1>1, <1>2, <1>3 DEF CoreOK
  <1>5. OperationOK(fl, m) BY DEF OperationOK, PageJobs
  <1> QED BY <1>4, <1>5, PageRuns DEF Goes

LEMMA StartReclaimRuns ==
  ASSUME NEW fl, NEW m \in Stores, NEW s \in Finals, ~m.active,
         AreaOK(fl, m, "none"), Marked(m.dir, s), Cleared(fl, s),
         s.discard => m.foreign, Purging(m),
         Tells(fl) => AgreesOK(Told(fl), m, "none")
  PROVE  Goes(fl, StartReclaim(m, s))
  <1>1. PICK from \in 0 .. Pages : from = IF s.next >= s.begin THEN s.next ELSE s.begin
    BY DEF Finals, Descriptions
  <1>2. PICK t : t = [s EXCEPT !.next = from] OBVIOUS
  <1>3. /\ s.begin \in 0 .. Pages /\ s.end \in 0 .. Pages /\ s.next \in 0 .. Pages
        /\ s.begin < s.end /\ s.next <= s.end
    BY DEF Finals, Descriptions
  <1>4. /\ t.id = s.id /\ t.owner = s.owner /\ t.begin = s.begin /\ t.end = s.end
        /\ t.next = from /\ t.discard = s.discard
    BY <1>2 DEF Finals, Descriptions
  <1>5. t \in Finals
    <2>1. Sectored(from) /\ from <= s.end
      BY <1>1, <1>3, Sizes DEF Finals
    <2>2. t \in Descriptions BY <1>2 DEF Finals, Descriptions
    <2> QED BY <1>4, <2>1, <2>2 DEF Finals
  <1>6. SamePlace(t, s) /\ SamePlace(s, t) /\ Marked(m.dir, t)
    BY <1>4 DEF SamePlace, Marked
  <1>7. Cleared(fl, t)
    <2>1. ASSUME NEW p \in t.begin .. t.next - 1 PROVE p \in s.begin .. s.next - 1
      BY <1>1, <1>3, <1>4, <2>1, Sizes
    <2> QED BY <2>1 DEF Cleared
  <1> DEFINE Base1(r) ==
               /\ r.dir = m.dir /\ r.active = m.active /\ r.act = m.act
               /\ r.purge = m.purge /\ r.foreign = m.foreign /\ r.reclaim = t
  <1>8. ASSUME NEW r, Base1(r)
        PROVE  /\ AreaOK(fl, r, "none") /\ Marked(r.dir, r.reclaim) /\ Cleared(fl, r.reclaim)
               /\ r.reclaim.discard => r.foreign
               /\ Tells(fl) => AgreesOK(Told(fl), r, "none")
               /\ ~r.active
    <2>1. AreaOK(fl, r, "none") BY <1>8 DEF AreaOK, Used, Records
    <2>2. Tells(fl) => AgreesOK(Told(fl), r, "none") BY <1>8 DEF AgreesOK
    <2> QED BY <1>4, <1>6, <1>7, <1>8, <2>1, <2>2
  <1>9. CASE m.paused /\ ~m.foreign
    <2> DEFINE r == [[m EXCEPT !.reclaim = t] EXCEPT !.pending = FALSE, !.mode = "ready",
                                                     !.job = "none", !.op = Idle]
    <2>1. r = StartReclaim(m, s) BY <1>1, <1>2, <1>9 DEF StartReclaim
    <2>2. Base1(r) /\ r.job = "none" BY DEF Stores
    <2> HIDE DEF r
    <2>3. r.purge \notin Users /\ \A d \in r.dir : ~d.discard BY <1>9, <2>2 DEF Purging
    <2>4. /\ AreaOK(fl, r, "none") /\ (Tells(fl) => AgreesOK(Told(fl), r, "none"))
          /\ ~r.active
      BY <1>8, <2>2
    <2> HIDE DEF Base1
    <2>5. Goes(fl, r) BY <2>2, <2>3, <2>4, RestCore DEF Base1
    <2> QED BY <2>1, <2>5
  <1>10. CASE ~(m.paused /\ ~m.foreign) /\ from = s.end
    <2> DEFINE r == [[m EXCEPT !.reclaim = t] EXCEPT !.pending = TRUE]
               e == Entry("reclaimed", s)
    <2>1. Journal(r, e, "reclaimed") = StartReclaim(m, s)
      BY <1>1, <1>2, <1>10 DEF StartReclaim
    <2>2. Base1(r) /\ r.mode = m.mode /\ r \in Stores BY <1>5 DEF Stores
    <2>3. e.type = "reclaimed" /\ e.s = s BY DEF Entry
    <2> HIDE DEF r, e
    <2>4. Purging(r) BY <2>2 DEF Purging
    <2>5. CoreOK(fl, r, "reclaimed", e)
      <3>1. /\ AreaOK(fl, r, "none") /\ Marked(r.dir, r.reclaim) /\ Cleared(fl, r.reclaim)
            /\ r.reclaim.discard => r.foreign
            /\ Tells(fl) => AgreesOK(Told(fl), r, "none")
            /\ ~r.active
        BY <1>8, <2>2
      <3>2. SamePlace(e.s, r.reclaim) /\ r.reclaim.next = r.reclaim.end
        BY <1>4, <1>6, <1>10, <2>2, <2>3
      <3> HIDE DEF Base1
      <3> QED BY <2>3, <2>4, <3>1, <3>2, ReleaseCore
    <2>6. RunSafe(fl, Journal(r, e, "reclaimed"))
          /\ Journal(r, e, "reclaimed").job \notin {"scan", "repair"}
      <3>1. "reclaimed" \in JournalJobs BY DEF JournalJobs
      <3> QED BY <2>2, <2>5, <3>1, JournalRuns
    <2> QED BY <2>1, <2>6 DEF Goes
  <1>11. CASE ~(m.paused /\ ~m.foreign) /\ from # s.end
    <2> DEFINE r == [[m EXCEPT !.reclaim = t] EXCEPT !.pending = TRUE, !.mode = "busy",
                        !.job = "reclaim", !.op = Erase(from, SectorPages)]
    <2>1. r = StartReclaim(m, s) BY <1>1, <1>2, <1>11 DEF StartReclaim
    <2>2. Base1(r) /\ r.mode = "busy" /\ r.job = "reclaim" /\ r.op = Erase(from, SectorPages)
      BY DEF Stores
    <2> HIDE DEF r
    <2>3. Purging(r) BY <2>2 DEF Purging
    <2>4. CoreOK(fl, r, "reclaim", r.op.page)
      <3>1. /\ AreaOK(fl, r, "none") /\ Marked(r.dir, r.reclaim) /\ Cleared(fl, r.reclaim)
            /\ r.reclaim.discard => r.foreign
            /\ Tells(fl) => AgreesOK(Told(fl), r, "none")
            /\ ~r.active
        BY <1>8, <2>2
      <3> HIDE DEF Base1
      <3> QED BY <2>3, <3>1, ReleaseCore
    <2>5. OperationOK(fl, r) BY <1>4, <2>2 DEF OperationOK
    <2> HIDE DEF Base1
    <2>6. r.job \in PageJobs BY <2>2 DEF PageJobs
    <2>7. RunSafe(fl, r) /\ r.job \notin {"scan", "repair"}
      BY <2>2, <2>4, <2>5, <2>6, PageRuns
    <2> QED BY <2>1, <2>7 DEF Goes
  <1> QED BY <1>9, <1>10, <1>11

LEMMA StartNextPurgeRuns ==
  ASSUME NEW fl, NEW m \in Stores, ~m.active, AreaOK(fl, m, "none"), m.purge \in Users,
         \A d \in m.dir : d.discard => d.owner # m.purge,
         Tells(fl) => AgreesOK(Told(fl), m, "none")
  PROVE  Goes(fl, StartNextPurge(m))
  <1> DEFINE left == Foreign(m.dir, m.purge)
  <1>1. CASE left = {}
    <2> DEFINE r == [m EXCEPT !.mode = "busy"]
               e == Entry("purge_done", [NoSession EXCEPT !.owner = m.purge])
    <2>1. StartNextPurge(m) = Journal(r, e, "purge_done") BY <1>1 DEF StartNextPurge
    <2>2. /\ r.dir = m.dir /\ r.active = m.active /\ r.act = m.act /\ r.mode = "busy"
          /\ r.purge = m.purge /\ r.foreign = m.foreign /\ r.reclaim = m.reclaim
          /\ r \in Stores
      BY DEF Stores
    <2>3. e.type = "purge_done" BY DEF Entry
    <2> HIDE DEF r, e
    <2>4. AreaOK(fl, r, "purge_done") BY <2>2 DEF AreaOK, Used, Records
    <2>5. RecordingStands(fl, r, "purge_done") BY <2>2 DEF RecordingStands, Records
    <2>6. NoteOK(fl, r, "purge_done", e) BY <2>3 DEF NoteOK
    <2>7. PurgeOK(r, "purge_done") BY <1>1, <2>2 DEF PurgeOK, PurgeJobs
    <2>8. Tells(fl) => AgreesOK(Told(fl), r, "purge_done") BY <2>2 DEF AgreesOK
    <2>9. CoreOK(fl, r, "purge_done", e) BY <2>4, <2>5, <2>6, <2>7, <2>8 DEF CoreOK
    <2>10. "purge_done" \in JournalJobs BY DEF JournalJobs
    <2> QED BY <2>1, <2>2, <2>9, <2>10, JournalRuns DEF Goes
  <1>2. CASE left # {}
    <2>1. PICK s : s = First(left) OBVIOUS
    <2>2. s \in m.dir /\ s.owner # m.purge /\ s \in Finals
      <3>1. left \in SUBSET Finals BY DEF Foreign, Stores
      <3>2. s \in left BY <1>2, <2>1, <3>1, FirstIs
      <3> QED BY <3>1, <3>2 DEF Foreign
    <2> DEFINE r == [[m EXCEPT !.mode = "busy"] EXCEPT !.reclaim = s, !.foreign = TRUE]
               e == Entry("discard", s)
    <2>3. StartNextPurge(m) = Journal(r, e, "discard") BY <1>2, <2>1 DEF StartNextPurge
    <2>4. /\ r.dir = m.dir /\ r.active = m.active /\ r.act = m.act /\ r.mode = "busy"
          /\ r.purge = m.purge /\ r.foreign = TRUE /\ r.reclaim = s
          /\ r \in Stores
      BY <2>2 DEF Stores
    <2>5. e.type = "discard" /\ e.s = s BY DEF Entry
    <2> HIDE DEF r, e
    <2>6. AreaOK(fl, r, "discard") BY <2>4 DEF AreaOK, Used, Records
    <2>7. RecordingStands(fl, r, "discard") BY <2>4 DEF RecordingStands, Records
    <2>8. NoteOK(fl, r, "discard", e) BY <2>2, <2>4, <2>5 DEF NoteOK
    <2>9. PurgeOK(r, "discard") BY <2>2, <2>4 DEF PurgeOK, PurgeJobs
    <2>10. Tells(fl) => AgreesOK(Told(fl), r, "discard") BY <2>4 DEF AgreesOK
    <2>11. CoreOK(fl, r, "discard", e) BY <2>6, <2>7, <2>8, <2>9, <2>10 DEF CoreOK
    <2>12. "discard" \in JournalJobs BY DEF JournalJobs
    <2> QED BY <2>3, <2>4, <2>11, <2>12, JournalRuns DEF Goes
  <1> QED BY <1>1, <1>2

LEMMA DirectoryReplaced ==
  ASSUME NEW fl, NEW m, Base(m), NEW d \in m.dir, NEW s \in Finals, SamePlace(s, d),
         d.confirmed => s.confirmed
  PROVE  /\ SamePlace(d, s)
         /\ \A p : (\E x \in m.dir : Within(p, x)) => \E x \in Replace(m.dir, s) : Within(p, x)
         /\ SessionsOK(fl, m.dir) /\ Cleared(fl, s) => SessionsOK(fl, Replace(m.dir, s))
         /\ \A x : Marked(m.dir, x) => Marked(Replace(m.dir, s), x)
         /\ \A x : s.confirmed /\ SamePlace(d, x) => Marked(Replace(m.dir, s), x)
         /\ Replace(m.dir, s) \in SUBSET Finals
  <1>1. s.id = d.id /\ s.begin = d.begin /\ s.end = d.end /\ s.owner = d.owner
    BY DEF SamePlace
  <1>2. Separate(m.dir) /\ m.dir \in SUBSET Finals BY DEF Base, DirectoryOK, Stores
  <1>3. \A x \in m.dir : x.id = s.id => x = d BY <1>1, <1>2 DEF Separate
  <1>4. s \in Replace(m.dir, s) /\ \A x \in m.dir : x = d \/ x \in Replace(m.dir, s)
    BY <1>3 DEF Replace
  <1>5. \A x \in Replace(m.dir, s) : x = s \/ x \in m.dir BY DEF Replace
  <1>6. SamePlace(d, s) BY <1>1 DEF SamePlace
  <1>7. \A p : (\E x \in m.dir : Within(p, x)) => \E x \in Replace(m.dir, s) : Within(p, x)
    BY <1>1, <1>4 DEF Within
  <1>8. SessionsOK(fl, m.dir) /\ Cleared(fl, s) => SessionsOK(fl, Replace(m.dir, s))
    BY <1>1, <1>5 DEF SessionsOK, Closed
  <1>9. \A x : Marked(m.dir, x) => Marked(Replace(m.dir, s), x)
    BY <1>1, <1>4 DEF Marked, SamePlace
  <1>10. \A x : s.confirmed /\ SamePlace(d, x) => Marked(Replace(m.dir, s), x)
    BY <1>1, <1>4 DEF Marked, SamePlace
  <1>11. Replace(m.dir, s) \in SUBSET Finals BY <1>2, <1>5
  <1> QED BY <1>6, <1>7, <1>8, <1>9, <1>10, <1>11

LEMMA NamedInBase ==
  ASSUME NEW m, Base(m), NEW d \in m.dir
  PROVE  Known(m.dir, d.id) /\ Named(m.dir, d.id) = d
  <1>1. Known(m.dir, d.id) BY DEF Known
  <1>2. Named(m.dir, d.id) \in m.dir /\ Named(m.dir, d.id).id = d.id BY <1>1, NamedIs
  <1> QED BY <1>1, <1>2 DEF Base, DirectoryOK, Separate

LEMMA ConfirmRuns ==
  ASSUME NEW fl, FlashOK(fl), NEW m, StoreOK(fl, m), Running(m), RunSafe(fl, m),
         FlashSafe(fl), NEW new \in Interrupted(fl, m.op), Verified(new, m.op),
         m.job \in {"confirm", "discard"}
  PROVE  Goes(new, IF m.job = "confirm" THEN ConfirmDone(m) ELSE DiscardDone(m))
  <1>1. m.job \in JournalJobs /\ m.job # "purge_done" BY DEF JournalJobs
  <1>2. /\ \A p \in 0 .. Pages - 1 : new[p] = fl[p]
        /\ OperationOK(fl, m) /\ CoreOK(fl, m, m.job, m.op.page) /\ SessionsOK(new, m.dir)
        /\ Tells(new) =>
              /\ \A d \in Told(new).dir : Marked(m.dir, d) \/ SamePlace(m.op.page.s, d)
              /\ Told(new).purge = m.purge
    <2>1. /\ \A p \in 0 .. Pages - 1 : new[p] = fl[p]
          /\ OperationOK(fl, m) /\ CoreOK(fl, m, m.job, m.op.page) /\ SessionsOK(new, m.dir)
          /\ Tells(new) =>
                /\ \A d \in Told(new).dir :
                      \/ Marked(m.dir, d)
                      \/ m.job \in {"confirm", "discard"} /\ SamePlace(m.op.page.s, d)
                /\ Told(new).purge = IF m.job = "purge_done" THEN NoUser ELSE m.purge
      BY <1>1, EntryVerified
    <2> QED BY <1>1, <2>1
  <1>3. /\ m \in Stores /\ Base(m) /\ JobOK(m) /\ ~m.active /\ m.reclaim \in Finals
    <2>1. m \in Stores /\ Base(m) /\ JobOK(m) BY StoreParts DEF StoreOK
    <2>2. Purposes(m, m.job) BY <1>1, <2>1 DEF JobOK
    <2> QED BY <2>1, <2>2 DEF Purposes, Releases
  <1>4. PICK d \in m.dir : d = m.op.page.s /\ d.id = m.reclaim.id
                           /\ (m.job = "discard" => d = m.reclaim)
    BY <1>2 DEF CoreOK, NoteOK
  <1>5. Known(m.dir, m.reclaim.id) /\ Named(m.dir, m.reclaim.id) = d
    BY <1>3, <1>4, NamedInBase
  <1>6. d \in Finals BY <1>3 DEF Stores
  <1> DEFINE s == IF m.job = "confirm" THEN [d EXCEPT !.confirmed = TRUE]
                  ELSE [d EXCEPT !.confirmed = TRUE, !.discard = TRUE, !.next = d.begin]
             r == [Logged(m) EXCEPT !.dir = Replace(@, s)]
  <1>7. /\ s.id = d.id /\ s.owner = d.owner /\ s.begin = d.begin /\ s.end = d.end
        /\ s.confirmed = TRUE
        /\ s.discard = IF m.job = "confirm" THEN d.discard ELSE TRUE
        /\ s.next = IF m.job = "confirm" THEN d.next ELSE d.begin
    BY <1>6 DEF Finals, Descriptions
  <1>8. s \in Finals
    <2>1. s \in Descriptions BY <1>6 DEF Finals, Descriptions
    <2>2. d.begin <= d.end BY <1>6, Sizes DEF Finals, Descriptions
    <2> HIDE DEF s
    <2> QED BY <1>6, <1>7, <2>1, <2>2 DEF Finals
  <1>9. SamePlace(s, d) BY <1>7 DEF SamePlace
  <1>10. Cleared(new, s)
    <2>1. Cleared(new, d) BY <1>2 DEF SessionsOK
    <2>2. CASE m.job = "confirm" BY <1>7, <2>1, <2>2 DEF Cleared
    <2>3. CASE m.job = "discard"
      <3>1. d.begin .. d.begin - 1 = {} BY <1>6, Sizes DEF Finals, Descriptions
      <3> QED BY <1>7, <2>3, <3>1 DEF Cleared
    <2> QED BY <2>2, <2>3
  <1>11. StartReclaim(r, s) = IF m.job = "confirm" THEN ConfirmDone(m) ELSE DiscardDone(m)
    <2>1. CASE m.job = "confirm" BY <1>5, <2>1 DEF ConfirmDone
    <2>2. CASE m.job = "discard"
      <3>1. s = [d EXCEPT !.confirmed = TRUE, !.discard = TRUE, !.next = d.begin] BY <2>2
      <3>2. s.id = m.reclaim.id BY <1>4, <1>7
      <3>3. Logged(m).dir = m.dir BY <1>3 DEF Logged, Stores
      <3> HIDE DEF s
      <3>4. r = [Logged(m) EXCEPT !.dir = IF Known(@, s.id) THEN Replace(@, s) ELSE @]
        BY <1>5, <3>2, <3>3
      <3> QED BY <1>5, <2>2, <3>1, <3>4 DEF DiscardDone
    <2> QED BY <2>1, <2>2
  <1> HIDE DEF s
  <1>12. /\ Replace(m.dir, s) \in SUBSET Finals
         /\ \A p : (\E x \in m.dir : Within(p, x)) => \E x \in Replace(m.dir, s) : Within(p, x)
         /\ SessionsOK(new, Replace(m.dir, s))
         /\ \A x : Marked(m.dir, x) \/ SamePlace(d, x) => Marked(Replace(m.dir, s), x)
         /\ SamePlace(d, s)
    <2>1. SessionsOK(new, m.dir) BY <1>2
    <2>2. /\ SamePlace(d, s)
          /\ \A p : (\E x \in m.dir : Within(p, x)) => \E x \in Replace(m.dir, s) : Within(p, x)
          /\ SessionsOK(new, m.dir) /\ Cleared(new, s) => SessionsOK(new, Replace(m.dir, s))
          /\ \A x : Marked(m.dir, x) => Marked(Replace(m.dir, s), x)
          /\ \A x : s.confirmed /\ SamePlace(d, x) => Marked(Replace(m.dir, s), x)
          /\ Replace(m.dir, s) \in SUBSET Finals
      BY ONLY <1>3, <1>7, <1>8, <1>9, DirectoryReplaced
    <2> QED BY ONLY <1>7, <1>10, <2>1, <2>2
  <1>13. /\ r.dir = Replace(m.dir, s) /\ r.active = FALSE /\ r.act = m.act /\ r.mode = m.mode
         /\ r.purge = m.purge /\ r.foreign = m.foreign /\ r.reclaim = m.reclaim
    BY <1>3 DEF Logged, Stores
  <1>14. r \in Stores
    <2>1. m.next + 1 \in 1 .. BankPages
      BY <1>1, <1>3, Sizes DEF JobOK, Stores
    <2> QED BY <1>3, <1>12, <2>1 DEF Logged, Stores
  <1> HIDE DEF r
  <1>15. AreaOK(new, r, "none")
    <2>1. ASSUME NEW p, Used(m, m.job, p) PROVE Used(r, "none", p)
      <3>1. \E x \in m.dir : Within(p, x) BY <1>3, <2>1 DEF Used, Records
      <3> QED BY <1>12, <1>13, <3>1 DEF Used
    <2>2. AreaOK(fl, m, m.job) BY <1>2 DEF CoreOK
    <2> QED BY <1>2, <1>12, <1>13, <2>1, <2>2 DEF AreaOK
  <1>16. Tells(new) => AgreesOK(Told(new), r, "none")
    BY <1>2, <1>4, <1>12, <1>13 DEF AgreesOK
  <1>17. Marked(r.dir, s) BY <1>12, <1>13
  <1>18. PurgeOK(m, m.job) BY <1>2 DEF CoreOK
  <1>19. Purging(r) /\ (s.discard => r.foreign)
    <2>1. \A x \in r.dir : x = s \/ x \in m.dir BY <1>13 DEF Replace
    <2>2. CASE m.job = "confirm"
      <3>1. m.purge \notin Users /\ ~m.foreign /\ \A x \in m.dir : ~x.discard
        BY <1>18, <2>2 DEF PurgeOK, PurgeJobs
      <3> QED BY <1>7, <1>13, <2>1, <2>2, <3>1 DEF Purging
    <2>3. CASE m.job = "discard"
      <3>1. m.purge \in Users /\ m.foreign /\ m.mode # "ready" /\ d.owner # m.purge
            /\ \A x \in m.dir : x.discard => x.owner # m.purge
        BY <1>4, <1>18, <2>3 DEF PurgeOK
      <3> QED BY <1>7, <1>13, <2>1, <3>1 DEF Purging
    <2> QED BY <2>2, <2>3
  <1> QED BY <1>8, <1>10, <1>11, <1>13, <1>14, <1>15, <1>16, <1>17, <1>19, StartReclaimRuns

\* What the entry of a release leaves when it is on Flash.
LEMMA ReleaseVerified ==
  ASSUME NEW fl, FlashOK(fl), NEW m, StoreOK(fl, m), Running(m), RunSafe(fl, m),
         FlashSafe(fl), NEW new \in Interrupted(fl, m.op), Verified(new, m.op),
         m.job \in {"progress", "reclaimed", "purge_begin", "purge_done"}
  PROVE  /\ Logged(m) \in Stores /\ SameCore(Logged(m), m) /\ ~m.active /\ Base(m)
         /\ AreaOK(fl, m, m.job) /\ NoteOK(fl, m, m.job, m.op.page) /\ PurgeOK(m, m.job)
         /\ \A p \in 0 .. Pages - 1 : new[p] = fl[p]
         /\ SessionsOK(new, m.dir) /\ AreaOK(new, Logged(m), "none")
         /\ Tells(new) =>
              /\ \A d \in Told(new).dir : Marked(m.dir, d)
              /\ m.job = "reclaimed" => \A d \in Told(new).dir : d.id # m.reclaim.id
              /\ Told(new).purge = IF m.job = "purge_done" THEN NoUser ELSE m.purge
  <1>1. m.job \in JournalJobs /\ m.job \notin {"open", "checkpoint", "final"}
        /\ m.job \notin {"confirm", "discard"}
    BY DEF JournalJobs
  <1>2. /\ \A p \in 0 .. Pages - 1 : new[p] = fl[p]
        /\ OperationOK(fl, m) /\ CoreOK(fl, m, m.job, m.op.page) /\ SessionsOK(new, m.dir)
        /\ Tells(new) =>
              /\ \A d \in Told(new).dir : Marked(m.dir, d)
              /\ m.job = "reclaimed" => \A d \in Told(new).dir : d.id # m.reclaim.id
              /\ Told(new).purge = IF m.job = "purge_done" THEN NoUser ELSE m.purge
    BY <1>1, EntryVerified
  <1>3. m \in Stores /\ Base(m) /\ JobOK(m) BY StoreParts DEF StoreOK
  <1>4. ~m.active BY <1>1, <1>3 DEF JobOK, Purposes
  <1>5. m.next + 1 \in 1 .. BankPages BY <1>1, <1>3, Sizes DEF JobOK, Stores
  <1>6. Logged(m) \in Stores /\ SameCore(Logged(m), m)
    BY <1>3, <1>5 DEF Logged, Stores, SameCore
  <1>7. AreaOK(new, Logged(m), "none")
    <2>1. AreaOK(fl, m, m.job) BY <1>2 DEF CoreOK
    <2>2. ASSUME NEW p, Used(m, m.job, p) PROVE Used(Logged(m), "none", p)
      BY <1>1, <1>4, <1>6, <2>2 DEF Used, Records, SameCore
    <2> QED BY <1>2, <1>6, <2>1, <2>2 DEF AreaOK, SameCore
  <1> QED BY <1>2, <1>3, <1>4, <1>6, <1>7 DEF CoreOK

LEMMA ProgressRuns ==
  ASSUME NEW fl, FlashOK(fl), NEW m, StoreOK(fl, m), Running(m), RunSafe(fl, m),
         FlashSafe(fl), NEW new \in Interrupted(fl, m.op), Verified(new, m.op),
         m.job \in {"progress", "purge_done"}
  PROVE  Goes(new, IF m.job = "progress" THEN ProgressDone(m) ELSE PurgeDone(m))
  <1>1. m.job \in {"progress", "reclaimed", "purge_begin", "purge_done"} OBVIOUS
  <1>2. /\ Logged(m) \in Stores /\ SameCore(Logged(m), m) /\ ~m.active
        /\ PurgeOK(m, m.job) /\ AreaOK(new, Logged(m), "none")
        /\ Tells(new) =>
              /\ \A d \in Told(new).dir : Marked(m.dir, d)
              /\ Told(new).purge = IF m.job = "purge_done" THEN NoUser ELSE m.purge
    BY <1>1, ReleaseVerified
  <1> DEFINE r == IF m.job = "progress" THEN ProgressDone(m) ELSE PurgeDone(m)
  <1>3. /\ r.dir = m.dir /\ r.active = FALSE /\ r.act = m.act /\ r.job = "none"
        /\ r.purge = IF m.job = "progress" THEN m.purge ELSE NoUser
    BY <1>2 DEF ProgressDone, PurgeDone, Ready, SameCore, Stores
  <1> HIDE DEF r
  <1>4. AreaOK(new, r, "none") BY <1>2, <1>3 DEF AreaOK, Used, Records, SameCore
  <1>5. r.purge \notin Users /\ \A d \in r.dir : ~d.discard
    <2>1. CASE m.job = "progress" BY <1>2, <1>3, <2>1 DEF PurgeOK, PurgeJobs
    <2>2. CASE m.job = "purge_done"
      BY <1>2, <1>3, <2>2, FlashAssumption DEF PurgeOK, Foreign
    <2> QED BY <2>1, <2>2
  <1>6. Tells(new) => AgreesOK(Told(new), r, "none") BY <1>2, <1>3 DEF AgreesOK
  <1> QED BY <1>3, <1>4, <1>5, <1>6, RestCore DEF r

LEMMA PurgeBeginRuns ==
  ASSUME NEW fl, FlashOK(fl), NEW m, StoreOK(fl, m), Running(m), RunSafe(fl, m),
         FlashSafe(fl), NEW new \in Interrupted(fl, m.op), Verified(new, m.op),
         m.job = "purge_begin"
  PROVE  Goes(new, StartNextPurge(Logged(m)))
  <1>1. m.job \in {"progress", "reclaimed", "purge_begin", "purge_done"} OBVIOUS
  <1>2. /\ Logged(m) \in Stores /\ SameCore(Logged(m), m) /\ ~m.active
        /\ PurgeOK(m, m.job) /\ AreaOK(new, Logged(m), "none")
        /\ Tells(new) =>
              /\ \A d \in Told(new).dir : Marked(m.dir, d)
              /\ Told(new).purge = IF m.job = "purge_done" THEN NoUser ELSE m.purge
    BY <1>1, ReleaseVerified
  <1> DEFINE r == Logged(m)
  <1>3. r.dir = m.dir /\ r.purge = m.purge /\ ~r.active BY <1>2 DEF SameCore
  <1> HIDE DEF r
  <1>4. r.purge \in Users /\ \A d \in r.dir : d.discard => d.owner # r.purge
    BY <1>2, <1>3 DEF PurgeOK
  <1>5. Tells(new) => AgreesOK(Told(new), r, "none") BY <1>2, <1>3 DEF AgreesOK
  <1>6. r \in Stores /\ AreaOK(new, r, "none") BY <1>2 DEF r
  <1> QED BY <1>3, <1>4, <1>5, <1>6, StartNextPurgeRuns DEF r

LEMMA ReclaimedRuns ==
  ASSUME NEW fl, FlashOK(fl), NEW m, StoreOK(fl, m), Running(m), RunSafe(fl, m),
         FlashSafe(fl), NEW new \in Interrupted(fl, m.op), Verified(new, m.op),
         m.job = "reclaimed"
  PROVE  Goes(new, ReclaimedDone(m))
  <1>1. m.job \in {"progress", "reclaimed", "purge_begin", "purge_done"} OBVIOUS
  <1>2. /\ Logged(m) \in Stores /\ SameCore(Logged(m), m) /\ ~m.active /\ Base(m)
        /\ AreaOK(fl, m, m.job) /\ NoteOK(fl, m, m.job, m.op.page) /\ PurgeOK(m, m.job)
        /\ \A p \in 0 .. Pages - 1 : new[p] = fl[p]
        /\ SessionsOK(new, m.dir)
        /\ Tells(new) =>
              /\ \A d \in Told(new).dir : Marked(m.dir, d)
              /\ \A d \in Told(new).dir : d.id # m.reclaim.id
              /\ Told(new).purge = m.purge
    BY <1>1, ReleaseVerified
  <1> DEFINE left == {d \in m.dir : d.id # m.reclaim.id}
             r == [Logged(m) EXCEPT !.pending = FALSE, !.foreign = FALSE,
                                    !.tomb = m.reclaim, !.dir = left,
                                    !.head = MaxEnd(left)]
  <1>3. left \in SUBSET Finals /\ m \in Stores BY <1>2, StoreParts DEF Stores
  <1>4. r \in Stores
    <2>1. MaxEnd(left) \in 0 .. Pages BY <1>3, MaxEndIs
    <2> HIDE DEF left
    <2> QED BY <1>2, <1>3, <2>1 DEF Stores
  <1>5. /\ r.dir = left /\ r.active = FALSE /\ r.purge = m.purge /\ r.job = m.job
    BY <1>2, <1>3 DEF SameCore, Stores, Logged
  <1>6. ReclaimedDone(m) = IF m.foreign THEN StartNextPurge(r) ELSE Ready(r)
    BY DEF ReclaimedDone
  <1> HIDE DEF r
  <1>7. AreaOK(new, r, "none")
    <2>1. ASSUME NEW p \in 0 .. Pages - 1, Used(m, "reclaimed", p)
          PROVE  new[p] \in Voids \/ Used(r, "none", p)
      <3>1. PICK d \in m.dir : Within(p, d) BY <1>2, <2>1 DEF Used, Records
      <3>2. CASE d.id # m.reclaim.id BY <1>5, <3>1, <3>2 DEF Used
      <3>3. CASE d.id = m.reclaim.id
        <4>1. PICK x \in m.dir : SamePlace(x, m.reclaim) BY <1>2 DEF NoteOK, Marked
        <4>2. x = d BY <1>2, <3>3, <4>1 DEF SamePlace, Base, DirectoryOK, Separate
        <4>3. d.begin = m.reclaim.begin /\ d.end = m.reclaim.next
          BY <1>2, <4>1, <4>2 DEF SamePlace, NoteOK
        <4>4. d.begin \in 0 .. Pages /\ d.end \in 0 .. Pages
          BY <1>3 DEF Stores, Finals, Descriptions
        <4>5. p \in m.reclaim.begin .. m.reclaim.next - 1
          BY <3>1, <4>3, <4>4, Sizes DEF Within
        <4>6. fl[p] \in Voids BY <1>2, <4>5 DEF NoteOK, Cleared
        <4> QED BY <1>2, <4>6
      <3> QED BY <3>2, <3>3
    <2>2. SessionsOK(new, r.dir) BY <1>2, <1>5 DEF SessionsOK
    <2> QED BY <1>2, <2>1, <2>2 DEF AreaOK
  <1>8. Tells(new) => AgreesOK(Told(new), r, "none")
    <2>1. ASSUME NEW x, Marked(m.dir, x), x.id # m.reclaim.id PROVE Marked(r.dir, x)
      BY <1>5, <2>1 DEF Marked, SamePlace
    <2> QED BY <1>2, <1>5, <2>1 DEF AgreesOK
  <1>9. CASE m.foreign
    <2>1. r.purge \in Users /\ \A d \in r.dir : d.discard => d.owner # r.purge
      BY <1>2, <1>5, <1>9 DEF PurgeOK
    <2> QED BY <1>4, <1>5, <1>6, <1>7, <1>8, <1>9, <2>1, StartNextPurgeRuns
  <1>10. CASE ~m.foreign
    <2> DEFINE q == Ready(r)
    <2>1. q.dir = r.dir /\ q.active = FALSE /\ q.purge = r.purge /\ q.job = "none"
      BY <1>4, <1>5 DEF Ready, Stores
    <2> HIDE DEF q
    <2>2. AreaOK(new, q, "none") BY <1>5, <1>7, <2>1 DEF AreaOK, Used, Records
    <2>3. q.purge \notin Users /\ \A d \in q.dir : ~d.discard
      BY <1>2, <1>5, <1>10, <2>1 DEF PurgeOK
    <2>4. Tells(new) => AgreesOK(Told(new), q, "none") BY <1>8, <2>1 DEF AgreesOK
    <2>5. Goes(new, q) BY <2>1, <2>2, <2>3, <2>4, RestCore
    <2> QED BY <1>6, <1>10, <2>5 DEF q
  <1> QED BY <1>9, <1>10

LEMMA ReclaimRuns ==
  ASSUME NEW fl, FlashOK(fl), NEW m, StoreOK(fl, m), Running(m), RunSafe(fl, m),
         NEW new \in Interrupted(fl, m.op), Verified(new, m.op), m.job = "reclaim"
  PROVE  Goes(new, SectorReclaimed(m))
  <1>1. /\ m \in Stores /\ Base(m) /\ JobOK(m) /\ ~m.active /\ m.op \in Operations
        /\ m.cur \in 0 .. 1 /\ Mounted(m) /\ fl \in [Chip -> PageSet]
        /\ OperationOK(fl, m) /\ CoreOK(fl, m, "reclaim", Note(m))
    <2>1. Doing(m) = "reclaim" BY DEF Doing, RotationJobs
    <2>2. m \in Stores /\ Base(m) /\ JobOK(m) BY StoreParts DEF StoreOK
    <2>3. ~m.active BY <2>2 DEF JobOK
    <2> QED BY <2>1, <2>2, <2>3, StoreParts DEF RunSafe, Running, FlashOK
  <1>2. /\ m.reclaim \in Finals /\ m.reclaim.begin <= m.reclaim.next
        /\ m.reclaim.next < m.reclaim.end
    BY StoreParts DEF ReclaimOK
  <1>3. PICK b \in 0 .. Pages, z \in 0 .. Pages, n \in 0 .. Pages :
          /\ b = m.reclaim.begin /\ z = m.reclaim.end /\ n = m.reclaim.next
          /\ b <= n /\ n < z /\ Sectored(n) /\ Sectored(z)
    BY <1>2 DEF Finals, Descriptions
  <1>4. n + SectorPages <= z /\ Sectored(n + SectorPages) /\ n + SectorPages \in 0 .. Pages
    BY <1>3, SectorSteps
  <1>5. m.op = [do |-> "erase", at |-> n, upto |-> n + SectorPages - 1]
        /\ n + SectorPages - 1 \in Nat /\ n <= n + SectorPages - 1 /\ n \in Nat
    BY <1>1, <1>3, Sizes DEF OperationOK, Erase
  <1>6. /\ \A p \in Chip : Tidy(fl, new, p) /\ new[p] \in {fl[p], Blank, Scrap}
        /\ \A p \in Chip : p \notin n .. n + SectorPages - 1 => new[p] = fl[p]
        /\ \A p \in n .. n + SectorPages - 1 : new[p] = Blank
    BY <1>1, <1>5, ErasedPages
  <1>7. SessionsOK(new, m.dir)
    <2>1. m.op.do # "program" BY <1>5
    <2>2. SessionsOK(fl, m.dir) /\ m.dir \in SUBSET Finals
      BY <1>1 DEF CoreOK, AreaOK, Stores
    <2> QED BY <1>1, <2>1, <2>2, SessionsApart
  <1>8. Told(new) = Told(fl)
    <2>1. m.job \in PageJobs BY DEF PageJobs
    <2>2. JournalOK(fl, m.cur) /\ Preserved(fl, new, m.cur)
      BY <1>1, <2>1, StoreParts, CutArea DEF CursorOK
    <2> QED BY <1>1, <2>2, ToldKept
  <1>9. PICK x \in m.dir : SamePlace(x, m.reclaim) /\ x.confirmed
    BY <1>1 DEF CoreOK, NoteOK, Marked
  <1>10. Known(m.dir, m.reclaim.id) /\ Named(m.dir, m.reclaim.id) = x
    BY <1>1, <1>9, NamedInBase DEF SamePlace
  <1> DEFINE s == [m.reclaim EXCEPT !.next = @ + SectorPages]
             y == [x EXCEPT !.next = n + SectorPages]
             m1 == [m EXCEPT !.reclaim = s, !.dir = Replace(@, y)]
  <1>11. /\ s.id = m.reclaim.id /\ s.owner = m.reclaim.owner /\ s.begin = b /\ s.end = z
         /\ s.next = n + SectorPages /\ s.discard = m.reclaim.discard /\ s \in Finals
    <2>1. /\ s.id = m.reclaim.id /\ s.owner = m.reclaim.owner /\ s.begin = b /\ s.end = z
          /\ s.next = n + SectorPages /\ s.discard = m.reclaim.discard
      BY <1>2, <1>3 DEF Finals, Descriptions
    <2>2. s \in Descriptions
      <3>1. s = [m.reclaim EXCEPT !.next = n + SectorPages] BY <1>2, <1>3
      <3> HIDE DEF s
      <3> QED BY <1>2, <1>4, <3>1 DEF Finals, Descriptions
    <2> HIDE DEF s
    <2> QED BY <1>2, <1>3, <1>4, <2>1, <2>2 DEF Finals
  <1>12. x \in Finals BY <1>1 DEF Stores
  <1>13. /\ y.id = x.id /\ y.owner = x.owner /\ y.begin = x.begin /\ y.end = x.end
         /\ y.confirmed = x.confirmed /\ y.discard = x.discard /\ y.next = n + SectorPages
         /\ y \in Finals
    <2>1. /\ y.id = x.id /\ y.owner = x.owner /\ y.begin = x.begin /\ y.end = x.end
          /\ y.confirmed = x.confirmed /\ y.discard = x.discard /\ y.next = n + SectorPages
      BY <1>12 DEF Finals, Descriptions
    <2>2. y \in Descriptions BY <1>4, <1>12 DEF Finals, Descriptions
    <2> HIDE DEF y
    <2>3. y.next <= y.end BY <1>3, <1>4, <1>9, <2>1 DEF SamePlace
    <2> QED BY <1>4, <1>12, <2>1, <2>2, <2>3 DEF Finals
  <1>14. SectorReclaimed(m) =
            IF m.paused /\ ~m.foreign THEN Journal(m1, Entry("progress", s), "progress")
            ELSE IF Unfinished(s) THEN [m1 EXCEPT !.op = Erase(s.next, SectorPages)]
            ELSE Journal(m1, Entry("reclaimed", s), "reclaimed")
    <2>1. Known(m.dir, s.id) /\ Named(m.dir, s.id) = x BY <1>10, <1>11
    <2>2. y = [Named(m.dir, s.id) EXCEPT !.next = s.next] BY <1>11, <2>1
    <2> HIDE DEF y
    <2> QED BY <2>1, <2>2 DEF SectorReclaimed
  <1> HIDE DEF s, y
  <1>15. m1 = [m EXCEPT !.reclaim = s, !.dir = Replace(m.dir, y)] OBVIOUS
  <1>16. Cleared(new, s) /\ Cleared(new, y)
    <2>1. ASSUME NEW p \in b .. (n + SectorPages) - 1 PROVE new[p] \in Voids
      <3>1. CASE p \in n .. n + SectorPages - 1 BY <1>6, <3>1, VoidPages
      <3>2. CASE p \notin n .. n + SectorPages - 1
        <4>1. p \in b .. n - 1 /\ p \in Chip BY <1>3, <1>4, <2>1, <3>2, Sizes DEF Chip
        <4>2. fl[p] \in Voids BY <1>1, <1>3, <4>1 DEF CoreOK, NoteOK, Cleared
        <4> QED BY <1>6, <3>2, <4>1, <4>2
      <3> QED BY <3>1, <3>2
    <2>2. y.begin = b BY <1>3, <1>9, <1>13 DEF SamePlace
    <2> QED BY <1>11, <1>13, <2>1, <2>2 DEF Cleared
  <1>17. /\ Replace(m.dir, y) \in SUBSET Finals
         /\ \A p : (\E d \in m.dir : Within(p, d)) => \E d \in Replace(m.dir, y) : Within(p, d)
         /\ SessionsOK(new, Replace(m.dir, y))
         /\ \A d : Marked(m.dir, d) => Marked(Replace(m.dir, y), d)
         /\ Marked(Replace(m.dir, y), s)
    <2>1. SamePlace(y, x) /\ SamePlace(x, s)
      BY <1>3, <1>9, <1>11, <1>13 DEF SamePlace
    <2>2. y.confirmed /\ (x.confirmed => y.confirmed) BY <1>9, <1>13
    <2>3. y \in Finals /\ Base(m) BY <1>1, <1>13
    <2>4. /\ \A p : (\E d \in m.dir : Within(p, d)) => \E d \in Replace(m.dir, y) : Within(p, d)
          /\ SessionsOK(new, m.dir) /\ Cleared(new, y) => SessionsOK(new, Replace(m.dir, y))
          /\ \A d : Marked(m.dir, d) => Marked(Replace(m.dir, y), d)
          /\ \A d : y.confirmed /\ SamePlace(x, d) => Marked(Replace(m.dir, y), d)
          /\ Replace(m.dir, y) \in SUBSET Finals
      BY ONLY <2>1, <2>2, <2>3, DirectoryReplaced
    <2> QED BY ONLY <1>7, <1>16, <2>1, <2>2, <2>4
  <1>18. /\ m1.dir = Replace(m.dir, y) /\ m1.active = FALSE /\ m1.act = m.act
         /\ m1.mode = m.mode /\ m1.purge = m.purge /\ m1.foreign = m.foreign /\ m1.reclaim = s
         /\ m1 \in Stores /\ m1.job = "reclaim" /\ m1.op = m.op
    <2>1. m1 \in Stores BY <1>1, <1>11, <1>15, <1>17 DEF Stores
    <2> QED BY <1>1, <1>15, <2>1 DEF Stores
  <1> HIDE DEF m1
  <1>19. AreaOK(new, m1, "none")
    <2>1. ASSUME NEW p, Used(m, "reclaim", p) PROVE Used(m1, "none", p)
      <3>1. \E d \in m.dir : Within(p, d) BY <1>1, <2>1 DEF Used, Records
      <3> QED BY <1>17, <1>18, <3>1 DEF Used
    <2>2. \A p \in 0 .. Pages - 1 : p \in Chip BY Sizes DEF Chip
    <2>3. \A p \in 0 .. Pages - 1 : new[p] \in Voids \/ new[p] = fl[p]
      BY <1>6, <2>2, VoidPages
    <2>4. \A p \in 0 .. Pages - 1 : fl[p] \in Voids \/ Used(m, "reclaim", p)
      BY <1>1 DEF CoreOK, AreaOK
    <2> QED BY <1>17, <1>18, <2>1, <2>3, <2>4 DEF AreaOK
  <1>20. Purging(m1) /\ (s.discard => m1.foreign) /\ (m1.foreign => m1.purge \in Users)
    <2>1. PurgeOK(m, "reclaim") /\ NoteOK(fl, m, "reclaim", Note(m)) BY <1>1 DEF CoreOK
    <2>2. \A d \in m1.dir : \E e \in m.dir : d.discard = e.discard /\ d.owner = e.owner
      BY <1>13, <1>18 DEF Replace
    <2> QED BY <1>11, <1>18, <2>1, <2>2 DEF Purging, PurgeOK, NoteOK
  <1>21. Tells(new) => AgreesOK(Told(new), m1, "none")
    <2>1. Tells(new) => AgreesOK(Told(fl), m, "reclaim") BY <1>1, <1>8 DEF CoreOK, Tells
    <2> QED BY <1>8, <1>17, <1>18, <2>1 DEF AgreesOK
  <1>22. /\ ~m1.active /\ Marked(m1.dir, m1.reclaim) /\ Cleared(new, m1.reclaim)
         /\ m1.reclaim.discard => m1.foreign
    BY <1>16, <1>17, <1>18, <1>20
  <1>23. Entry("reclaimed", s).type = "reclaimed" /\ Entry("reclaimed", s).s = s
         /\ SamePlace(s, s)
    BY DEF Entry, SamePlace
  <1>24. CASE m.paused /\ ~m.foreign
    <2>1. CoreOK(new, m1, "progress", Entry("progress", s))
      BY <1>18, <1>19, <1>20, <1>21, <1>22, <1>24, ReleaseCore
    <2>2. "progress" \in JournalJobs BY DEF JournalJobs
    <2> QED BY <1>14, <1>18, <1>24, <2>1, <2>2, JournalRuns DEF Goes
  <1>25. CASE ~(m.paused /\ ~m.foreign) /\ ~Unfinished(s)
    <2>1. s.next = s.end BY <1>3, <1>4, <1>11, <1>25 DEF Unfinished
    <2>2. CoreOK(new, m1, "reclaimed", Entry("reclaimed", s))
      BY <1>18, <1>19, <1>20, <1>21, <1>22, <1>23, <2>1, ReleaseCore
    <2>3. "reclaimed" \in JournalJobs BY DEF JournalJobs
    <2> QED BY <1>14, <1>18, <1>25, <2>2, <2>3, JournalRuns DEF Goes
  <1>26. CASE ~(m.paused /\ ~m.foreign) /\ Unfinished(s)
    <2> DEFINE r == [m1 EXCEPT !.op = Erase(s.next, SectorPages)]
    <2>1. SameCore(r, m1) /\ r.job = "reclaim" /\ r.op = Erase(r.reclaim.next, SectorPages)
          /\ r.mode = m.mode
      BY <1>18 DEF SameCore, Stores
    <2> HIDE DEF r
    <2>2. CoreOK(new, m1, "reclaim", r.op.page)
      BY <1>18, <1>19, <1>20, <1>21, <1>22, ReleaseCore
    <2>3. CoreOK(new, r, "reclaim", r.op.page) BY <2>1, <2>2, CoreSame
    <2>4. OperationOK(new, r)
      <3>1. r.mode # "recovering" BY <1>1, <2>1 DEF OperationOK, PageJobs
      <3> QED BY <2>1, <3>1 DEF OperationOK
    <2>5. r.job \in PageJobs BY <2>1 DEF PageJobs
    <2> QED BY <1>14, <1>26, <2>1, <2>3, <2>4, <2>5, PageRuns DEF Goes, r
  <1> QED BY <1>24, <1>25, <1>26

-----------------------------------------------------------------------------
(* Changing the bank.                                                        *)

LEMMA RotateRuns ==
  ASSUME NEW fl, FlashOK(fl), NEW m, StoreOK(fl, m), Running(m), RunSafe(fl, m),
         NEW new \in Interrupted(fl, m.op), Verified(new, m.op),
         m.job \in {"rotate", "snapshot"}
  PROVE  Goes(new, IF m.job = "rotate" THEN RotateDone(m) ELSE SnapshotDone(m))
  <1>1. /\ m \in Stores /\ Base(m) /\ RotationOK(fl, m) /\ m.cur \in 0 .. 1
        /\ m.snap \in 0 .. MaxSessions + 1 /\ OperationOK(fl, m)
        /\ CoreOK(fl, m, Doing(m), Note(m)) /\ SnapshotOK(fl, m)
        /\ m.job \in RotationJobs /\ m.job # "header"
    BY StoreParts DEF StoreOK, Running, RunSafe, RotationJobs
  <1>2. Doing(m) = m.resume /\ Note(m) = m.held BY <1>1 DEF Doing, Note
  <1>3. (\A p \in 0 .. Pages - 1 : new[p] = fl[p]) /\ Told(new) = Told(fl)
    BY <1>1, RotationTold
  <1>4. CoreOK(new, m, m.resume, m.held)
    <2>1. Tells(new) => AgreesOK(Told(new), m, Doing(m)) BY <1>1, <1>3 DEF CoreOK, Tells
    <2>2. CoreOK(new, m, Doing(m), Note(m)) BY <1>1, <1>3, <2>1, CoreMoves
    <2> QED BY <1>2, <2>2
  <1>5. PICK size \in 0 .. MaxSessions + 1 : size = Len(SnapshotPages(m)) BY <1>1, SnapshotIs
  <1>6. PICK snap : snap = IF m.job = "rotate" THEN 0 ELSE m.snap + 1 OBVIOUS
  <1>7. snap \in 0 .. MaxSessions + 1
    <2>1. CASE m.job = "rotate" BY <1>6, <2>1, Sizes
    <2>2. CASE m.job = "snapshot"
      <3>1. m.snap < size BY <1>1, <1>5, <2>2 DEF RotationOK
      <3> QED BY <1>1, <1>6, <2>2, <3>1, Sizes
    <2> QED BY <2>1, <2>2
  <1>8. PICK gen \in Nat : gen = IF m.job = "rotate" THEN m.gen + 1 ELSE m.gen
    BY <1>1 DEF Stores
  <1>9. PICK q : q = [m EXCEPT !.gen = gen, !.snap = snap] OBVIOUS
  <1>10. (IF m.job = "rotate" THEN RotateDone(m) ELSE SnapshotDone(m)) = SnapshotNext(q)
    <2>1. CASE m.job = "rotate"
      <3>1. [m EXCEPT !.gen = @ + 1, !.snap = 0] = q
        BY <1>1, <1>6, <1>8, <1>9, <2>1 DEF Stores
      <3> QED BY <2>1, <3>1 DEF RotateDone
    <2>2. CASE m.job = "snapshot"
      <3>1. [m EXCEPT !.snap = @ + 1] = q
        BY <1>1, <1>6, <1>8, <1>9, <2>2 DEF Stores
      <3> QED BY <2>2, <3>1 DEF SnapshotDone
    <2> QED BY <2>1, <2>2
  <1> DEFINE r == SnapshotNext(q)
  <1>11. /\ SameCore(r, m) /\ r.snap = snap /\ r.cur = m.cur /\ r.tomb = m.tomb
         /\ r.held = m.held /\ r.resume = m.resume /\ r.job \in {"snapshot", "header"}
    <2>1. PICK o, job : job \in {"snapshot", "header"} /\ r = [q EXCEPT !.op = o, !.job = job]
      BY DEF SnapshotNext
    <2> HIDE DEF r
    <2> QED BY <1>1, <1>9, <2>1 DEF SameCore, Stores
  <1> HIDE DEF r
  <1>12. SnapshotPages(r) = SnapshotPages(m) BY <1>11 DEF SnapshotPages, SameCore
  <1>13. SnapshotOK(new, r)
    <2>1. ASSUME NEW i \in 1 .. snap PROVE new[Bank(1 - m.cur) + i] = SnapshotPages(m)[i]
      <3>1. m.job = "snapshot" BY <1>1, <1>6, <2>1 DEF RotationJobs
      <3>2. snap = m.snap + 1 /\ i \in 0 .. BankPages - 1 /\ (i = m.snap + 1 \/ i \in 1 .. m.snap)
        BY <1>1, <1>6, <1>7, <3>1, Sizes
      <3>3. new[Bank(1 - m.cur) + i] = IF i = m.snap + 1 THEN m.op.page
                                       ELSE fl[Bank(1 - m.cur) + i]
        BY <3>1, <3>2, CutSnapshot
      <3>4. m.op.page = SnapshotPages(m)[m.snap + 1] BY <1>1, <3>1 DEF RotationOK, Program
      <3>5. i \in 1 .. m.snap => fl[Bank(1 - m.cur) + i] = SnapshotPages(m)[i]
        BY <1>1, <3>1 DEF SnapshotOK
      <3>6. i \in 1 .. m.snap => i # m.snap + 1 BY <1>1, Sizes
      <3> QED BY <3>2, <3>3, <3>4, <3>5, <3>6
    <2> QED BY <1>11, <1>12, <2>1 DEF SnapshotOK
  <1>14. Doing(r) = m.resume /\ Note(r) = m.held BY <1>11 DEF Doing, Note, RotationJobs
  <1>15. CoreOK(new, r, m.resume, m.held) BY <1>4, <1>11, CoreSame
  <1>16. OperationOK(new, r) /\ r.job \notin {"scan", "repair"}
    BY <1>11 DEF OperationOK, PageJobs
  <1> QED BY <1>10, <1>13, <1>14, <1>15, <1>16 DEF Goes, RunSafe, r

LEMMA HeaderRuns ==
  ASSUME NEW fl, FlashOK(fl), NEW m, StoreOK(fl, m), Running(m), RunSafe(fl, m),
         NEW new \in Interrupted(fl, m.op), Verified(new, m.op), m.job = "header"
  PROVE  Goes(new, HeaderDone(m))
  <1>1. /\ m \in Stores /\ Base(m) /\ m.job \in RotationJobs /\ OperationOK(fl, m)
        /\ CoreOK(fl, m, Doing(m), Note(m)) /\ SnapshotOK(fl, m)
    BY StoreParts DEF StoreOK, RunSafe, RotationJobs
  <1>2. Doing(m) = m.resume /\ Note(m) = m.held /\ m.resume \in JournalJobs
    BY <1>1, StoreParts DEF Doing, Note, JobOK
  <1>3. \A p \in 0 .. Pages - 1 : new[p] = fl[p] BY <1>1, RotationTold
  <1>4. Tells(new) => AgreesOK(Told(new), m, Doing(m))
    <2>1. SessionsOK(fl, m.dir) /\ PurgeOK(m, Doing(m)) BY <1>1 DEF CoreOK, AreaOK
    <2>2. Tells(new) => Restored(m, Told(new)) BY <1>1, HeaderTold
    <2> QED BY <2>1, <2>2, RestoredAgrees
  <1>5. CoreOK(new, m, m.resume, m.held)
    <2>1. CoreOK(new, m, Doing(m), Note(m)) BY <1>1, <1>3, <1>4, CoreMoves
    <2> QED BY <1>2, <2>1
  <1> DEFINE r == HeaderDone(m)
  <1>6. SameCore(r, m) /\ r.job = m.resume /\ r.op.page = m.held
    BY <1>1 DEF HeaderDone, SameCore, Stores, Program
  <1> HIDE DEF r
  <1>7. r.job \notin RotationJobs /\ r.job \notin PageJobs /\ r.job \notin {"scan", "repair"}
        /\ r.job \notin {"snapshot", "header"}
    BY <1>2, <1>6 DEF JournalJobs, RotationJobs, PageJobs
  <1>8. Doing(r) = m.resume /\ Note(r) = m.held BY <1>6, <1>7 DEF Doing, Note
  <1>9. CoreOK(new, r, m.resume, m.held) BY <1>5, <1>6, CoreSame
  <1>10. OperationOK(new, r) /\ SnapshotOK(new, r)
    BY <1>7 DEF OperationOK, SnapshotOK, PageJobs
  <1> QED BY <1>7, <1>8, <1>9, <1>10 DEF Goes, RunSafe, r

\* Every operation that is read back leaves the store safe to go on.
LEMMA RuntimeRuns ==
  ASSUME NEW fl, FlashOK(fl), NEW m, StoreOK(fl, m), Running(m), RunSafe(fl, m),
         FlashSafe(fl), NEW new \in Interrupted(fl, m.op), Verified(new, m.op), m.op # Idle
  PROVE  Goes(new, RuntimeStep(m))
  <1>1. m.job \in Jobs \ {"none", "scan", "repair"} BY StoreParts DEF JobOK, Running
  <1>2. CASE m.job = "begin" BY <1>2, BeginRuns DEF RuntimeStep
  <1>3. CASE m.job = "open" BY <1>3, OpenRuns DEF RuntimeStep
  <1>4. CASE m.job = "page0"
    <2>1. Goes(new, HeadDone(m)) BY <1>4, HeadRuns
    <2> QED BY <1>4, <2>1 DEF RuntimeStep
  <1>5. CASE m.job = "page1"
    <2>1. Goes(new, TailDone(m)) BY <1>5, HeadRuns
    <2> QED BY <1>5, <2>1 DEF RuntimeStep
  <1>6. CASE m.job = "commit" BY <1>6, CommitRuns DEF RuntimeStep
  <1>7. CASE m.job = "checkpoint" BY <1>7, CheckpointRuns DEF RuntimeStep
  <1>8. CASE m.job = "end" BY <1>8, EndRuns DEF RuntimeStep
  <1>9. CASE m.job = "final" BY <1>9, FinalRuns DEF RuntimeStep
  <1>10. CASE m.job = "confirm"
    <2>1. Goes(new, ConfirmDone(m)) BY <1>10, ConfirmRuns
    <2> QED BY <1>10, <2>1 DEF RuntimeStep
  <1>11. CASE m.job = "discard"
    <2>1. Goes(new, DiscardDone(m)) BY <1>11, ConfirmRuns
    <2> QED BY <1>11, <2>1 DEF RuntimeStep
  <1>12. CASE m.job = "purge_begin" BY <1>12, PurgeBeginRuns DEF RuntimeStep
  <1>13. CASE m.job = "reclaim" BY <1>13, ReclaimRuns DEF RuntimeStep
  <1>14. CASE m.job = "progress"
    <2>1. Goes(new, ProgressDone(m)) BY <1>14, ProgressRuns
    <2> QED BY <1>14, <2>1 DEF RuntimeStep
  <1>15. CASE m.job = "purge_done"
    <2>1. Goes(new, PurgeDone(m)) BY <1>15, ProgressRuns
    <2> QED BY <1>15, <2>1 DEF RuntimeStep
  <1>16. CASE m.job = "reclaimed" BY <1>16, ReclaimedRuns DEF RuntimeStep
  <1>17. CASE m.job = "rotate"
    <2>1. Goes(new, RotateDone(m)) BY <1>17, RotateRuns
    <2> QED BY <1>17, <2>1 DEF RuntimeStep
  <1>18. CASE m.job = "snapshot"
    <2>1. Goes(new, SnapshotDone(m)) BY <1>18, RotateRuns
    <2> QED BY <1>18, <2>1 DEF RuntimeStep
  <1>19. CASE m.job = "header" BY <1>19, HeaderRuns DEF RuntimeStep
  <1> QED
    BY <1>1, <1>2, <1>3, <1>4, <1>5, <1>6, <1>7, <1>8, <1>9, <1>10, <1>11, <1>12, <1>13,
       <1>14, <1>15, <1>16, <1>17, <1>18, <1>19
       DEF Jobs, JournalJobs, RotationJobs, PageJobs

-----------------------------------------------------------------------------
(* The operation that is under way.                                          *)

LEMMA RepairRuns ==
  ASSUME NEW fl, FlashOK(fl), NEW m, StoreOK(fl, m), RecoverySafe(fl, m), m.job = "repair",
         NEW new \in Interrupted(fl, m.op)
  PROVE  RecoverySafe(new, RepairDone(m)) /\ RepairDone(m).job = "scan"
  <1>1. m \in Stores /\ m.cur \in 0 .. 1 /\ Mounted(m) /\ fl \in [Chip -> PageSet]
    BY StoreParts DEF JobOK, Mounted, FlashOK
  <1>2. JournalOK(fl, m.cur) /\ Preserved(fl, new, m.cur)
    BY <1>1, StoreParts, CutArea DEF CursorOK
  <1>3. Told(new) = Told(fl) BY <1>1, <1>2, ToldKept
  <1> DEFINE r == RepairDone(m)
  <1>4. /\ r.dir = m.dir /\ r.purge = m.purge /\ r.pending = m.pending
        /\ r.foreign = m.foreign /\ r.reclaim = m.reclaim /\ r.op = Idle /\ r.job = "scan"
    BY <1>1 DEF RepairDone, Stores
  <1> HIDE DEF r
  <1> QED BY <1>3, <1>4 DEF RecoverySafe, Tells, Idle, r

LEMMA StepSafe ==
  ASSUME NEW fl, FlashOK(fl), NEW m, StoreOK(fl, m), AreaSafe(fl, m), m.op # Idle,
         NEW new \in Interrupted(fl, m.op)
  PROVE  AreaSafe(new, IF ~Verified(new, m.op) THEN Failed
                       ELSE IF m.mode = "recovering" THEN RecoveryStep(m)
                       ELSE RuntimeStep(m))
  <1>1. m.job \in Jobs /\ JobOK(m) /\ m \in Stores BY StoreParts
  <1>2. m.job \notin {"none", "scan"} /\ Mounted(m) BY <1>1 DEF JobOK, Mounted, Stores
  <1>3. FlashSafe(new) BY FlashSafeCut
  <1>4. ASSUME NEW r, Goes(new, r) PROVE AreaSafe(new, r)
    BY <1>3, <1>4 DEF AreaSafe, Goes, Running
  <1>5. AreaSafe(new, Failed) BY <1>4, FailedGoes
  <1>6. CASE Verified(new, m.op) /\ m.job = "repair"
    <2>1. m.mode = "recovering" /\ RecoverySafe(fl, m) BY <1>1, <1>6 DEF JobOK, AreaSafe
    <2>2. RecoverySafe(new, RepairDone(m)) /\ RepairDone(m).job = "scan"
      BY <1>6, <2>1, RepairRuns
    <2>3. AreaSafe(new, RepairDone(m)) BY <1>3, <2>2 DEF AreaSafe, Running
    <2> QED BY <1>6, <2>1, <2>3 DEF RecoveryStep
  <1>7. CASE Verified(new, m.op) /\ m.job # "repair" /\ m.mode = "recovering"
    BY <1>5, <1>7 DEF RecoveryStep
  <1>8. CASE Verified(new, m.op) /\ m.job # "repair" /\ m.mode # "recovering"
    <2>1. Running(m) /\ RunSafe(fl, m) /\ FlashSafe(fl)
      BY <1>2, <1>8 DEF Running, AreaSafe
    <2>2. Goes(new, RuntimeStep(m)) BY <1>8, <2>1, RuntimeRuns
    <2> QED BY <1>4, <1>8, <2>2
  <1> QED BY <1>5, <1>6, <1>7, <1>8

\* A power loss, or a Flash that fails.
LEMMA CutSafe ==
  ASSUME NEW fl, FlashOK(fl), NEW m, StoreOK(fl, m), AreaSafe(fl, m),
         NEW new \in Interrupted(fl, m.op)
  PROVE  AreaSafe(new, Off) /\ AreaSafe(new, Failed)
  <1>1. FlashSafe(new) BY FlashSafeCut
  <1> QED BY <1>1, FailedGoes DEF AreaSafe, Goes, Running

-----------------------------------------------------------------------------
(* What a store at rest is asked for.                                        *)

LEMMA RestParts ==
  ASSUME NEW fl, NEW m, StoreOK(fl, m), Mounted(m), AreaSafe(fl, m), m.job = "none"
  PROVE  /\ m \in Stores /\ Running(m) /\ RunSafe(fl, m) /\ m.op = Idle
         /\ m.mode # "recovering" /\ Doing(m) = "none" /\ OperationOK(fl, m)
         /\ AreaOK(fl, m, "none") /\ RecordingStands(fl, m, "none") /\ PurgeOK(m, "none")
         /\ Tells(fl) => AgreesOK(Told(fl), m, "none")
         /\ m.purge = NoUser /\ \A d \in m.dir : ~d.discard
         /\ "none" \in PlainJobs
  <1>1. /\ m \in Stores /\ Running(m) /\ RunSafe(fl, m) /\ m.op = Idle
        /\ m.mode # "recovering" /\ Doing(m) = "none"
    BY StoreParts DEF JobOK, Running, AreaSafe, Doing, RotationJobs
  <1>2. CoreOK(fl, m, "none", Note(m)) /\ OperationOK(fl, m) BY <1>1 DEF RunSafe
  <1>3. m.purge \notin Users /\ \A d \in m.dir : ~d.discard
    BY <1>2 DEF CoreOK, PurgeOK, PurgeJobs
  <1>4. m.purge = NoUser BY <1>1, <1>3 DEF Stores, Owners
  <1> QED BY <1>1, <1>2, <1>3, <1>4 DEF CoreOK, PlainJobs

LEMMA BeginSafe ==
  ASSUME NEW fl, NEW m, StoreOK(fl, m), AreaSafe(fl, m), m.mode = "ready", m.job = "none",
         ~m.active, m.head + RoomToBegin <= Pages, NEW u,
         NEW a, a = Session(m.nextId, u, AlignUp(m.head), AlignUp(m.head), 0)
  PROVE  Goes(fl, [m EXCEPT !.act = a, !.nextId = @ + 1, !.mode = "busy", !.job = "begin",
                            !.op = Program(AlignUp(m.head), BeginPage(a.id, u))])
  <1> DEFINE begin == AlignUp(m.head)
             r == [m EXCEPT !.act = a, !.nextId = @ + 1, !.mode = "busy", !.job = "begin",
                            !.op = Program(begin, BeginPage(a.id, u))]
  <1>1. Mounted(m) BY DEF Mounted
  <1>2. /\ m \in Stores /\ Running(m) /\ AreaOK(fl, m, "none") /\ PurgeOK(m, "none")
        /\ Tells(fl) => AgreesOK(Told(fl), m, "none")
        /\ "none" \in PlainJobs /\ OperationOK(fl, m)
    BY <1>1, RestParts
  <1>3. m.head \in 0 .. Pages /\ Covered(m) /\ \A d \in m.dir : d.end \in 0 .. Pages
    BY <1>2, RunningParts DEF Stores
  <1>4. PICK b \in Nat : b = begin /\ m.head <= b /\ b < m.head + SectorPages
    BY <1>3, AlignUpIs
  <1>5. b < Pages
    <2>1. RoomToBegin \in Nat /\ RoomToBegin >= 2 * SectorPages BY StorageAssumption
    <2> QED BY <1>3, <1>4, <2>1, Sizes
  <1>6. Apart(fl, b)
    <2> SUFFICES ASSUME b # 0 PROVE fl[b - 1].kind # "event" BY DEF Apart
    <2>1. b - 1 \in 0 .. Pages - 1 BY <1>4, <1>5, Sizes
    <2>2. fl[b - 1] \in Voids \/ Used(m, "none", b - 1) BY <1>2, <2>1 DEF AreaOK
    <2>3. CASE fl[b - 1] \in Voids BY <2>3, VoidPages
    <2>4. CASE Used(m, "none", b - 1)
      <3>1. PICK d \in m.dir : Within(b - 1, d) BY <2>4 DEF Used, Records
      <3>2. d.end = b
        BY <1>3, <1>4, <3>1 DEF Within, Covered
      <3> QED BY <1>2, <3>2 DEF AreaOK, SessionsOK, Closed
    <2> QED BY <2>2, <2>3, <2>4
  <1>7. /\ r.act = a /\ r.mode = "busy" /\ r.job = "begin" /\ ~r.active /\ r.dir = m.dir
        /\ r.op = Program(b, BeginPage(a.id, u)) /\ r.purge = m.purge
    BY <1>2, <1>4 DEF Stores
  <1>8. a.begin = b /\ a.count = 0 /\ a.owner = u BY <1>4 DEF Session
  <1> HIDE DEF r, begin
  <1>9. AreaOK(fl, r, "begin")
    <2>1. ASSUME NEW p, Used(m, "none", p) PROVE Used(r, "begin", p)
      BY <1>7, <2>1 DEF Used, Records
    <2> QED BY <1>2, <1>7, <2>1 DEF AreaOK
  <1>10. RecordingStands(fl, r, "begin") BY <1>6, <1>7, <1>8 DEF RecordingStands
  <1>11. "begin" \in PlainJobs /\ "begin" \in PageJobs BY DEF PlainJobs, PageJobs
  <1>12. Tells(fl) => AgreesOK(Told(fl), r, "none") BY <1>2, <1>7 DEF AgreesOK
  <1>13. CoreOK(fl, r, "begin", r.op.page)
    BY <1>2, <1>7, <1>9, <1>10, <1>11, <1>12, PlainCore
  <1>14. OperationOK(fl, r) BY <1>7, <1>8 DEF OperationOK
  <1> QED BY <1>7, <1>11, <1>13, <1>14, PageRuns DEF Goes, r, begin

\* An event or the END of the session that is being recorded.
LEMMA PageStarts ==
  ASSUME NEW fl, NEW m, StoreOK(fl, m), AreaSafe(fl, m), m.job = "none", m.active,
         NEW job \in {"page0", "end"}, NEW r, r.dir = m.dir, r.active, r.act = m.act,
         r.purge = m.purge, r.job = job, r.mode # "recovering", OperationOK(fl, r)
  PROVE  Goes(fl, r)
  <1>1. Mounted(m) BY StoreParts DEF JobOK, Mounted, Stores
  <1>2. /\ m \in Stores /\ AreaOK(fl, m, "none") /\ PurgeOK(m, "none")
        /\ RecordingStands(fl, m, "none")
        /\ Tells(fl) => AgreesOK(Told(fl), m, "none")
        /\ "none" \in PlainJobs
    BY <1>1, RestParts
  <1>3. AreaOK(fl, r, job)
    <2>1. NextSlot(r) = NextSlot(m) BY DEF NextSlot
    <2>2. Reached(m, "none") = NextSlot(m) /\ Reached(r, job) = NextSlot(m)
      BY <2>1 DEF Reached
    <2>3. ASSUME NEW p, Used(m, "none", p) PROVE Used(r, job, p)
      BY <2>2, <2>3 DEF Used, Records
    <2> QED BY <1>2, <2>3 DEF AreaOK
  <1>4. RecordingStands(fl, r, job) BY <1>2 DEF RecordingStands, Records
  <1>5. job \in PlainJobs /\ job \in PageJobs BY DEF PlainJobs, PageJobs
  <1>6. Tells(fl) => AgreesOK(Told(fl), r, "none") BY <1>2 DEF AgreesOK
  <1>7. CoreOK(fl, r, job, r.op.page) BY <1>2, <1>3, <1>4, <1>5, <1>6, PlainCore
  <1> QED BY <1>5, <1>7, PageRuns DEF Goes

LEMMA CheckpointSafe ==
  ASSUME NEW fl, NEW m, StoreOK(fl, m), AreaSafe(fl, m), m.job = "none", m.active,
         NEW e, e.type = "checkpoint", e.s.id = m.act.id
  PROVE  Goes(fl, Journal(m, e, "checkpoint"))
  <1>1. Mounted(m) BY StoreParts DEF JobOK, Mounted, Stores
  <1>2. /\ m \in Stores /\ AreaOK(fl, m, "none") /\ PurgeOK(m, "none")
        /\ RecordingStands(fl, m, "none")
        /\ Tells(fl) => AgreesOK(Told(fl), m, "none")
        /\ "none" \in PlainJobs
    BY <1>1, RestParts
  <1>3. AreaOK(fl, m, "checkpoint")
    <2>1. \A p : Used(m, "none", p) => Used(m, "checkpoint", p) BY DEF Used, Records, Reached
    <2> QED BY <1>2, <2>1 DEF AreaOK
  <1>4. RecordingStands(fl, m, "checkpoint") BY <1>2 DEF RecordingStands, Records
  <1>5. "checkpoint" \in PlainJobs /\ "checkpoint" \in JournalJobs
    BY DEF PlainJobs, JournalJobs
  <1>6. CoreOK(fl, m, "checkpoint", e) BY <1>2, <1>3, <1>4, <1>5, PlainCore
  <1> QED BY <1>2, <1>5, <1>6, JournalRuns DEF Goes

LEMMA ConfirmSafe ==
  ASSUME NEW fl, NEW m, StoreOK(fl, m), AreaSafe(fl, m), m.mode = "ready", m.job = "none",
         ~m.active, NEW d \in m.dir, ~d.confirmed, NEW s, s = [d EXCEPT !.next = d.begin]
  PROVE  Goes(fl, Journal([m EXCEPT !.dir = Replace(@, s), !.foreign = FALSE, !.reclaim = s],
                          Entry("confirmed", s), "confirm"))
  <1> DEFINE r == [m EXCEPT !.dir = Replace(@, s), !.foreign = FALSE, !.reclaim = s]
             e == Entry("confirmed", s)
  <1>1. Mounted(m) BY DEF Mounted
  <1>2. /\ m \in Stores /\ AreaOK(fl, m, "none")
        /\ Tells(fl) => AgreesOK(Told(fl), m, "none")
        /\ m.purge = NoUser /\ \A x \in m.dir : ~x.discard
    BY <1>1, RestParts
  <1>3. d \in Finals /\ Base(m) BY <1>2 DEF Stores, StoreOK
  <1>4. /\ s.id = d.id /\ s.owner = d.owner /\ s.begin = d.begin /\ s.end = d.end
        /\ s.next = d.begin /\ s.discard = d.discard /\ s.confirmed = d.confirmed
    BY <1>3 DEF Finals, Descriptions
  <1>5. s \in Finals
    <2>1. s \in Descriptions BY <1>3 DEF Finals, Descriptions
    <2>2. d.begin \in 0 .. Pages /\ d.end \in 0 .. Pages /\ d.begin <= d.end
      BY <1>3, Sizes DEF Finals, Descriptions
    <2> QED BY <1>3, <1>4, <2>1, <2>2 DEF Finals
  <1>6. Cleared(fl, s)
    <2>1. d.begin \in 0 .. Pages BY <1>3 DEF Finals, Descriptions
    <2> QED BY <1>4, <2>1, Sizes DEF Cleared
  <1>7. /\ \A p : (\E x \in m.dir : Within(p, x)) => \E x \in Replace(m.dir, s) : Within(p, x)
        /\ SessionsOK(fl, m.dir) /\ Cleared(fl, s) => SessionsOK(fl, Replace(m.dir, s))
        /\ \A x : Marked(m.dir, x) => Marked(Replace(m.dir, s), x)
        /\ Replace(m.dir, s) \in SUBSET Finals
    <2>1. SamePlace(s, d) /\ (d.confirmed => s.confirmed) BY <1>4 DEF SamePlace
    <2> QED BY <1>3, <1>5, <2>1, DirectoryReplaced
  <1>8. s \in Replace(m.dir, s) /\ \A x \in Replace(m.dir, s) : x = s \/ x \in m.dir
    BY DEF Replace
  <1>9. r \in Stores BY <1>2, <1>5, <1>7 DEF Stores
  <1>10. /\ r.dir = Replace(m.dir, s) /\ r.foreign = FALSE /\ r.reclaim = s
         /\ r.active = m.active /\ r.act = m.act /\ r.purge = m.purge
    BY <1>2 DEF Stores
  <1>11. e.type = "confirmed" /\ e.s = s BY DEF Entry
  <1> HIDE DEF r, e
  <1>12. AreaOK(fl, r, "confirm")
    <2>1. ASSUME NEW p, Used(m, "none", p) PROVE Used(r, "confirm", p)
      BY <1>7, <1>10, <2>1 DEF Used, Records
    <2> QED BY <1>2, <1>6, <1>7, <1>10, <2>1 DEF AreaOK
  <1>13. RecordingStands(fl, r, "confirm") BY <1>10 DEF RecordingStands, Records
  <1>14. NoteOK(fl, r, "confirm", e) BY <1>8, <1>10, <1>11 DEF NoteOK
  <1>15. PurgeOK(r, "confirm")
    <2>1. r.purge \notin Users BY <1>2, <1>10, FlashAssumption
    <2>2. \A x \in r.dir : ~x.discard BY <1>2, <1>4, <1>8, <1>10
    <2> QED BY <1>10, <2>1, <2>2 DEF PurgeOK
  <1>16. Tells(fl) => AgreesOK(Told(fl), r, "confirm")
    BY <1>2, <1>7, <1>10 DEF AgreesOK
  <1>17. CoreOK(fl, r, "confirm", e) BY <1>12, <1>13, <1>14, <1>15, <1>16 DEF CoreOK
  <1>18. "confirm" \in JournalJobs BY DEF JournalJobs
  <1> QED BY <1>9, <1>17, <1>18, JournalRuns DEF Goes, r, e

LEMMA PurgeSafe ==
  ASSUME NEW fl, NEW m, StoreOK(fl, m), AreaSafe(fl, m), m.mode = "ready", m.job = "none",
         ~m.active, NEW u \in Users
  PROVE  Goes(fl, Journal([m EXCEPT !.purge = u, !.mode = "busy"],
                          Entry("purge_begin", [NoSession EXCEPT !.owner = u]),
                          "purge_begin"))
  <1> DEFINE r == [m EXCEPT !.purge = u, !.mode = "busy"]
             s == [NoSession EXCEPT !.owner = u]
             e == Entry("purge_begin", s)
  <1>1. Mounted(m) BY DEF Mounted
  <1>2. /\ m \in Stores /\ AreaOK(fl, m, "none")
        /\ Tells(fl) => AgreesOK(Told(fl), m, "none")
        /\ m.purge = NoUser /\ \A x \in m.dir : ~x.discard
    BY <1>1, RestParts
  <1>3. u \in Owners BY DEF Owners
  <1>4. r \in Stores BY <1>2, <1>3 DEF Stores
  <1>5. /\ r.dir = m.dir /\ r.mode = "busy" /\ r.purge = u /\ r.reclaim = m.reclaim
        /\ r.active = m.active /\ r.act = m.act
    BY <1>2 DEF Stores
  <1>6. s.owner = u
    <2>1. NoSession \in Descriptions BY NothingOK
    <2> QED BY <2>1 DEF Descriptions
  <1> HIDE DEF s
  <1>7. e.type = "purge_begin" /\ e.s = s BY DEF Entry
  <1> HIDE DEF r, e
  <1>8. AreaOK(fl, r, "purge_begin")
    <2>1. ASSUME NEW p, Used(m, "none", p) PROVE Used(r, "purge_begin", p)
      BY <1>5, <2>1 DEF Used, Records
    <2> QED BY <1>2, <1>5, <2>1 DEF AreaOK
  <1>9. RecordingStands(fl, r, "purge_begin") BY <1>5 DEF RecordingStands, Records
  <1>10. NoteOK(fl, r, "purge_begin", e) BY <1>5, <1>6, <1>7 DEF NoteOK
  <1>11. PurgeOK(r, "purge_begin") BY <1>2, <1>5 DEF PurgeOK, PurgeJobs
  <1>12. Tells(fl) => AgreesOK(Told(fl), r, "purge_begin") BY <1>2, <1>5 DEF AgreesOK
  <1>13. CoreOK(fl, r, "purge_begin", e) BY <1>8, <1>9, <1>10, <1>11, <1>12 DEF CoreOK
  <1>14. "purge_begin" \in JournalJobs BY DEF JournalJobs
  <1> QED BY <1>4, <1>13, <1>14, JournalRuns DEF Goes, r, e, s

LEMMA ResumeSafe ==
  ASSUME NEW fl, NEW m, StoreOK(fl, m), AreaSafe(fl, m), m.mode = "ready", m.job = "none",
         ~m.active, NEW s \in m.dir, s.confirmed
  PROVE  Goes(fl, StartReclaim([m EXCEPT !.foreign = FALSE], s))
  <1> DEFINE r == [m EXCEPT !.foreign = FALSE]
  <1>1. Mounted(m) BY DEF Mounted
  <1>2. /\ m \in Stores /\ AreaOK(fl, m, "none")
        /\ Tells(fl) => AgreesOK(Told(fl), m, "none")
        /\ m.purge = NoUser /\ \A x \in m.dir : ~x.discard
    BY <1>1, RestParts
  <1>3. r \in Stores BY <1>2 DEF Stores
  <1>4. /\ r.dir = m.dir /\ r.foreign = FALSE /\ r.purge = NoUser /\ r.active = m.active
        /\ r.act = m.act
    BY <1>2 DEF Stores
  <1> HIDE DEF r
  <1>5. s \in Finals BY <1>2 DEF Stores
  <1>6. Marked(r.dir, s) BY <1>4 DEF Marked, SamePlace
  <1>7. Cleared(fl, s) BY <1>2 DEF AreaOK, SessionsOK
  <1>8. AreaOK(fl, r, "none") BY <1>2, <1>4 DEF AreaOK, Used, Records
  <1>9. Purging(r) BY <1>2, <1>4, FlashAssumption DEF Purging
  <1>10. Tells(fl) => AgreesOK(Told(fl), r, "none") BY <1>2, <1>4 DEF AgreesOK
  <1>11. s.discard => r.foreign BY <1>2
  <1>12. Goes(fl, StartReclaim(r, s))
    BY <1>3, <1>4, <1>5, <1>6, <1>7, <1>8, <1>9, <1>10, <1>11, StartReclaimRuns
  <1> QED BY <1>12 DEF r

LEMMA PausedSafe ==
  ASSUME NEW fl, NEW m \in Stores, AreaSafe(fl, m), NEW b \in BOOLEAN
  PROVE  AreaSafe(fl, [m EXCEPT !.paused = b])
  <1> DEFINE r == [m EXCEPT !.paused = b]
  <1>1. /\ SameCore(r, m) /\ r.job = m.job /\ r.op = m.op /\ r.cur = m.cur /\ r.snap = m.snap
        /\ r.held = m.held /\ r.resume = m.resume /\ r.tomb = m.tomb /\ r.pending = m.pending
    BY DEF SameCore, Stores
  <1> HIDE DEF r
  <1>2. Running(r) => Running(m) BY <1>1 DEF Running, Mounted, SameCore
  <1>3. SnapshotPages(r) = SnapshotPages(m) BY <1>1 DEF SnapshotPages, SameCore
  <1>4. Doing(r) = Doing(m) /\ Note(r) = Note(m) BY <1>1 DEF Doing, Note
  <1>5. Running(m) => RunSafe(fl, r)
    <2> SUFFICES ASSUME Running(m) PROVE RunSafe(fl, r) OBVIOUS
    <2>1. CoreOK(fl, m, Doing(m), Note(m)) /\ OperationOK(fl, m) /\ SnapshotOK(fl, m)
      BY DEF AreaSafe, RunSafe
    <2>2. CoreOK(fl, r, Doing(r), Note(r)) BY <1>1, <1>4, <2>1, CoreSame
    <2>3. OperationOK(fl, r) BY <1>1, <2>1 DEF OperationOK, NextSlot, SameCore
    <2>4. SnapshotOK(fl, r) BY <1>1, <1>3, <2>1 DEF SnapshotOK
    <2> QED BY <2>2, <2>3, <2>4 DEF RunSafe
  <1>6. r.job \in {"scan", "repair"} => RecoverySafe(fl, r)
    BY <1>1 DEF AreaSafe, RecoverySafe, SameCore
  <1> QED BY <1>2, <1>5, <1>6 DEF AreaSafe, r

-----------------------------------------------------------------------------
(* Boot.                                                                     *)

LEMMA MountSafe ==
  ASSUME NEW fl, FlashOK(fl), FlashSafe(fl)
  PROVE  AreaSafe(fl, Replay(fl))
  <1>1. PICK k \in 0 .. 1 : JournalOK(fl, k) /\ fl \in [Chip -> PageSet] BY DEF FlashOK
  <1>2. PICK next : Replay(fl) = Failed
                    \/ (Tells(fl) /\ Replay(fl) = [Told(fl) EXCEPT !.next = next])
    BY DEF Replay, Told, Tells
  <1>3. CASE Replay(fl) = Failed
    BY <1>3, FailedGoes DEF AreaSafe, Goes, Running
  <1>4. CASE Tells(fl) /\ Replay(fl) = [Told(fl) EXCEPT !.next = next]
    <2>1. ScanOK(fl, k, Stop(fl, k), Told(fl)) BY <1>1, <1>4, ToldIs
    <2> DEFINE r == Replay(fl)
               t == Told(fl)
    <2> HIDE DEF r, t
    <2>2. t \in Stores /\ t.job = "scan" /\ t.op = Idle BY <2>1 DEF ScanOK, t
    <2>3. /\ r.dir = t.dir /\ r.purge = t.purge /\ r.pending = t.pending
          /\ r.foreign = t.foreign /\ r.reclaim = t.reclaim /\ r.op = t.op /\ r.job = t.job
      BY <1>4, <2>2 DEF Stores, r, t
    <2>4. RecoverySafe(fl, r) BY <1>4, <2>2, <2>3 DEF RecoverySafe, Idle, t
    <2> QED BY <2>2, <2>3, <2>4 DEF AreaSafe, Running, r
  <1> QED BY <1>2, <1>3, <1>4

-----------------------------------------------------------------------------
(* What the walk over the area finds.                                        *)

\* A session as a boot finds it: nothing of it is erased, its last page is free or END.
Fresh(fl, s) == Closed(fl, s) /\ ~s.discard /\ s.next = 0
\* A repair ends a session that was found, or erases a BEGIN that was torn.
Mends(fl, found, o) ==
    /\ o.do = "program" => /\ fl[o.at] = Blank /\ o.page.kind = "end"
                           /\ \E s \in found : Within(o.at, s)
    /\ o.do = "erase" =>
          \A p \in o.at .. o.upto : ~fl[p].ok /\ fl[p].kind \in {"begin", "blank"}

LEMMA ReadSessionSays ==
  ASSUME NEW fl \in [Chip -> PageSet], NEW begin \in Nat, Sectored(begin), begin < Pages,
         fl[begin].kind = "begin", ReadSession(fl, begin).ok
  PROVE  LET c == ReadSession(fl, begin)
         IN  /\ Fresh(fl, c.s) /\ ~c.s.confirmed
             /\ c.s.id = fl[begin].id /\ c.s.owner = fl[begin].owner /\ c.s.begin = begin
             /\ c.s.count = EventCount(fl, begin, fl[begin].id)
             /\ c.repair = <<>> \/ \E o : c.repair = <<o>> /\ Mends(fl, {c.s}, o)
  <1> DEFINE id    == fl[begin].id
             n     == EventCount(fl, begin, id)
             a     == Slot(begin, n)
             dirty == DirtySpan(fl, a)
             final == AlignUp(a + dirty)
             last  == final + SectorPages - 1
             ends  == {p \in final .. last : fl[p] # Blank}
             whole == {p \in ends : fl[p].ok}
             free  == (final .. last) \ ends
             s     == [Session(id, fl[begin].owner, begin, last + 1, n) EXCEPT !.next = 0]
             repair == IF whole # {} THEN <<>>
                       ELSE <<Program(CHOOSE p \in free : \A q \in free : p <= q,
                                      EndPage(id, n))>>
             c     == ReadSession(fl, begin)
  <1>1. /\ last < Pages /\ (whole # {} \/ free # {})
        /\ \A p \in ends : Legible(fl[p], "end", id)
        /\ c.s = s /\ c.repair = repair
    BY DEF ReadSession
  <1>2. n \in 0 .. Pages BY EventCountIs
  <1> HIDE DEF id, n
  <1>3. a \in Nat /\ begin < a BY <1>2 DEF Slot
  <1>4. dirty \in {0, 2} BY DEF DirtySpan
  <1> HIDE DEF a, dirty, c
  <1>5. a + dirty \in Nat /\ begin < a + dirty BY <1>3, <1>4
  <1>6. final \in Nat /\ a + dirty <= final BY <1>5, AlignUpIs
  <1>7. PICK f \in Nat : f = final /\ begin < f BY <1>5, <1>6
  <1> HIDE DEF final
  <1>8. PICK l \in Nat : l = last /\ f <= l /\ l + 1 = last + 1 /\ (l + 1) - 1 = l
    BY <1>7, Sizes
  <1>9. /\ s.id = id /\ s.owner = fl[begin].owner /\ s.begin = begin /\ s.end = l + 1
        /\ s.count = n /\ s.next = 0 /\ s.confirmed = FALSE /\ s.discard = FALSE
    BY <1>8 DEF Session
  <1>10. \A p \in f .. l : fl[p] = Blank \/ fl[p].kind = "end"
    BY <1>1, <1>7, <1>8 DEF Legible
  <1>11. Closed(fl, c.s)
    <2>1. l \in f .. l BY <1>8
    <2>2. fl[l].kind # "event" BY <1>10, <2>1 DEF Blank
    <2> HIDE DEF s
    <2> QED BY <1>1, <1>8, <1>9, <2>2 DEF Closed
  <1>12. repair = <<>> \/ \E o : repair = <<o>> /\ Mends(fl, {c.s}, o)
    <2>1. CASE whole # {} BY <2>1
    <2>2. CASE whole = {}
      <3>1. free # {} BY <1>1, <2>2
      <3>2. free \subseteq Nat BY <1>7, <1>8
      <3>3. Min(free) \in free /\ \A q \in free : Min(free) <= q BY <3>1, <3>2, MinIs
      <3> DEFINE p == CHOOSE p \in free : \A q \in free : p <= q
                 o == Program(p, EndPage(id, n))
      <3>4. p \in free BY <3>3
      <3>5. repair = <<o>> BY <2>2
      <3> HIDE DEF p, repair
      <3>6. fl[p] = Blank /\ p \in f .. l BY <1>7, <1>8, <3>4
      <3>7. o.do = "program" /\ o.at = p /\ o.page.kind = "end" BY DEF Program, EndPage
      <3> HIDE DEF o, s
      <3>8. Within(p, c.s) BY <1>1, <1>7, <1>8, <1>9, <3>6 DEF Within
      <3>9. Mends(fl, {c.s}, o) BY <3>6, <3>7, <3>8 DEF Mends
      <3> QED BY <3>5, <3>9
    <2> QED BY <2>1, <2>2
  <1> HIDE DEF repair, s
  <1> QED BY <1>1, <1>9, <1>11, <1>12 DEF Fresh, c, id, n

\* A session takes whole sectors.
LEMMA SectorWithin ==
  ASSUME NEW s \in Finals, NEW i \in 0 .. Sectors - 1,
         s.begin <= i * SectorPages, i * SectorPages < s.end,
         NEW p \in i * SectorPages .. i * SectorPages + SectorPages - 1
  PROVE  Within(p, s)
  <1>1. PICK b \in Nat : b = i * SectorPages
    BY Sizes
  <1>2. Sectored(b) /\ Sectored(s.end) /\ s.end \in 0 .. Pages /\ s.begin \in 0 .. Pages
    <2>1. i \in 0 .. Sectors BY Sizes
    <2> QED BY <1>1, <2>1 DEF Sectored, Finals, Descriptions
  <1>3. b + SectorPages <= s.end BY <1>1, <1>2, SectorSteps
  <1> QED BY <1>1, <1>2, <1>3, Sizes DEF Within

LEMMA Prepended ==
  ASSUME NEW S, NEW x \in S, NEW q \in Seq(S)
  PROVE  /\ <<x>> \o q \in Seq(S) /\ <<x>> \o q # <<>> /\ Head(<<x>> \o q) = x
         /\ ToSet(<<x>> \o q) = {x} \cup ToSet(q)
  <1>1. PICK n \in Nat : n = Len(q) OBVIOUS
  <1> DEFINE r == <<x>> \o q
  <1>2. /\ r \in Seq(S) /\ Len(r) = n + 1 /\ r[1] = x /\ Head(r) = r[1]
        /\ \A i \in 1 .. n : r[i + 1] = q[i]
    BY <1>1
  <1> HIDE DEF r
  <1>3. DOMAIN r = 1 .. n + 1 /\ DOMAIN q = 1 .. n BY <1>1, <1>2
  <1>4. ASSUME NEW y PROVE y \in ToSet(r) <=> y \in {x} \cup ToSet(q)
    <2>1. ASSUME y \in ToSet(r) PROVE y \in {x} \cup ToSet(q)
      <3>1. PICK i \in 1 .. n + 1 : y = r[i] BY <1>3, <2>1 DEF ToSet
      <3>2. CASE i = 1 BY <1>2, <3>1, <3>2
      <3>3. CASE i # 1
        <4>1. i - 1 \in 1 .. n /\ (i - 1) + 1 = i BY <1>1, <3>3
        <4>2. y = q[i - 1] BY <1>2, <3>1, <4>1
        <4> QED BY <1>3, <4>1, <4>2 DEF ToSet
      <3> QED BY <3>2, <3>3
    <2>2. ASSUME y \in {x} \cup ToSet(q) PROVE y \in ToSet(r)
      <3>1. CASE y = x
        <4>1. 1 \in 1 .. n + 1 BY <1>1
        <4> QED BY <1>2, <1>3, <3>1, <4>1 DEF ToSet
      <3>2. CASE y \in ToSet(q)
        <4>1. PICK i \in 1 .. n : y = q[i] BY <1>3, <3>2 DEF ToSet
        <4>2. i + 1 \in 1 .. n + 1 BY <1>1
        <4> QED BY <1>2, <1>3, <4>1, <4>2 DEF ToSet
      <3> QED BY <2>2, <3>1, <3>2
    <2> QED BY <2>1, <2>2
  <1>5. r # <<>>
    <2>1. n + 1 # 0 BY <1>1
    <2> QED BY <1>2, <2>1
  <1> QED BY <1>2, <1>4, <1>5 DEF r

\* The session `s` as recovery reads it from its BEGIN.
FoundAt(fl, s) ==
    /\ s.begin < Pages /\ fl[s.begin].kind = "begin" /\ fl[s.begin].ok
    /\ ReadSession(fl, s.begin).ok /\ s = ReadSession(fl, s.begin).s

\* A session that begins at page p is found, or the journal says that it goes.
Seen(fl, claims, found, p) ==
    fl[p].kind = "begin" /\ fl[p].ok =>
        \/ \E s \in found : Within(p, s)
        \/ \E r \in claims : r.id = fl[p].id /\ Within(p, r)

\* From sector i on: all that is found is on Flash, and all that is on Flash is found.
WalkOK(fl, claims, i, w) ==
    w.ok =>
        /\ \A s \in ToSet(w.found) : FoundAt(fl, s)
        /\ \A p \in i * SectorPages .. Pages - 1 : Seen(fl, claims, ToSet(w.found), p)
        /\ w.repair # <<>> => Mends(fl, ToSet(w.found), Head(w.repair))
        /\ w.repair = <<>> =>
              \A p \in i * SectorPages .. Pages - 1 :
                  fl[p] = Blank \/ \E s \in claims \cup ToSet(w.found) : Within(p, s)

LEMMA SectorIs ==
  ASSUME NEW i \in 0 .. Sectors - 1
  PROVE  /\ i * SectorPages \in Nat /\ i * SectorPages < Pages /\ Sectored(i * SectorPages)
         /\ (i + 1) * SectorPages = i * SectorPages + SectorPages
         /\ i * SectorPages + SectorPages <= Pages /\ i + 1 \in i + 1 .. Sectors
  <1>1. i * SectorPages \in Nat BY Sizes
  <1>2. (i + 1) * SectorPages <= Sectors * SectorPages BY Sizes, MulMono
  <1>3. (i + 1) * SectorPages = i * SectorPages + SectorPages BY Sizes
  <1>4. i \in 0 .. Sectors /\ i + 1 \in i + 1 .. Sectors BY Sizes
  <1>5. i * SectorPages < Pages /\ i * SectorPages + SectorPages <= Pages
    BY <1>1, <1>2, <1>3, Sizes DEF Pages
  <1> QED BY <1>1, <1>3, <1>4, <1>5 DEF Sectored

LEMMA WalkStepOK ==
  ASSUME NEW fl \in [Chip -> PageSet], NEW claims \in SUBSET Finals, NEW i \in 0 .. Sectors - 1,
         NEW f, \A j \in i + 1 .. Sectors : f[j] \in WalkResults /\ WalkOK(fl, claims, j, f[j])
  PROVE  WalkOK(fl, claims, i, WalkStep(fl, claims, f, i))
  <1> DEFINE b       == i * SectorPages
             sector  == b .. b + SectorPages - 1
             owners  == {r \in claims : r.begin <= b /\ b < r.end}
             others  == \A p \in sector \ {b} : fl[p] = Blank
             c       == ReadSession(fl, b)
             refused == [ok |-> FALSE, found |-> <<>>, repair |-> <<>>]
             w       == f[c.s.end \div SectorPages]
             next    == f[i + 1]
             joined  == [ok |-> w.ok, found |-> <<c.s>> \o w.found,
                         repair |-> c.repair \o w.repair]
             erased  == [next EXCEPT !.repair = <<Erase(b, SectorPages)>> \o @]
  <1>1. /\ b \in Nat /\ b < Pages /\ Sectored(b) /\ (i + 1) * SectorPages = b + SectorPages
        /\ b + SectorPages <= Pages /\ i + 1 \in i + 1 .. Sectors
    BY SectorIs
  <1>2. next \in WalkResults /\ WalkOK(fl, claims, i + 1, next) BY <1>1
  <1>3. WalkStep(fl, claims, f, i) =
          CASE owners # {} ->
                IF \A p \in sector, r \in owners : Reclaimable(fl[p], r)
                THEN next ELSE refused
          [] owners = {} /\ fl[b].kind = "begin" /\ fl[b].ok ->
                IF ~c.ok THEN refused ELSE joined
          [] owners = {} /\ fl[b] = Blank /\ others -> next
          [] owners = {} /\ fl[b].kind = "begin" /\ ~fl[b].ok /\ others -> erased
          [] OTHER -> refused
    BY DEF WalkStep
  <1>4. WalkOK(fl, claims, i, refused) BY DEF WalkOK
  <1>5. ASSUME \A p \in sector : /\ fl[p] = Blank \/ \E s \in claims : Within(p, s)
                                 /\ Seen(fl, claims, {}, p)
        PROVE  WalkOK(fl, claims, i, next)
    <2> HIDE DEF next
    <2>1. SUFFICES ASSUME next.ok, NEW p \in b .. Pages - 1
                   PROVE  /\ Seen(fl, claims, ToSet(next.found), p)
                          /\ next.repair = <<>> =>
                                fl[p] = Blank
                                \/ \E s \in claims \cup ToSet(next.found) : Within(p, s)
      BY <1>2 DEF WalkOK
    <2>2. CASE p \in sector BY <1>5, <2>2 DEF Seen
    <2>3. CASE p \notin sector
      <3>1. p \in (i + 1) * SectorPages .. Pages - 1 BY <1>1, <2>1, <2>3, Sizes
      <3> QED BY <1>2, <2>1, <3>1 DEF WalkOK
    <2> QED BY <2>2, <2>3
  <1>6. CASE owners # {}
    <2>1. PICK r \in claims : r.begin <= b /\ b < r.end BY <1>6
    <2>2. \A p \in sector : Within(p, r) BY <2>1, SectorWithin
    <2>3. ASSUME \A p \in sector, x \in owners : Reclaimable(fl[p], x)
          PROVE  WalkOK(fl, claims, i, next)
      <3>1. \A p \in sector : Seen(fl, claims, {}, p)
        BY <2>1, <2>2, <2>3 DEF Seen, Reclaimable
      <3> HIDE DEF sector, next
      <3> QED BY <1>5, <2>2, <3>1
    <2> HIDE DEF next, refused, owners
    <2> QED BY <1>3, <1>4, <1>6, <2>3
  <1>7. CASE owners = {} /\ fl[b].kind = "begin" /\ fl[b].ok /\ c.ok
    <2>1. WalkStep(fl, claims, f, i) = joined
      <3>1. fl[b] # Blank BY <1>7 DEF Blank
      <3> HIDE DEF joined, refused, owners, c, others, next, erased, b, sector
      <3> QED BY <1>3, <1>7, <3>1
    <2>2. /\ c.s \in Found /\ c.repair \in Seq(AreaOperations)
          /\ c.s.end \div SectorPages \in i + 1 .. Sectors
      BY <1>7, WalkJumps
    <2>3. /\ c.s.begin = b
          /\ c.repair = <<>> \/ \E o : c.repair = <<o>> /\ Mends(fl, {c.s}, o)
      BY <1>1, <1>7, ReadSessionSays
    <2>4. FoundAt(fl, c.s)
      <3> HIDE DEF b
      <3> QED BY <1>1, <1>7, <2>3 DEF FoundAt
    <2> HIDE DEF c
    <2>5. w \in WalkResults /\ WalkOK(fl, claims, c.s.end \div SectorPages, w) BY <2>2
    <2>6. PICK j \in 0 .. Sectors : c.s.end = j * SectorPages
      BY <2>2 DEF Found, Finals, Sectored
    <2>7. c.s.end \div SectorPages = j
      <3>1. (j * SectorPages) \div SectorPages = j BY Sizes, DivOfMultiple
      <3> QED BY <2>6, <3>1
    <2> HIDE DEF w
    <2>8. w.found \in Seq(Found) /\ w.repair \in Seq(AreaOperations) BY <2>5 DEF WalkResults
    <2>9. ToSet(<<c.s>> \o w.found) = {c.s} \cup ToSet(w.found) BY <2>2, <2>8, Prepended
    <2> DEFINE all == <<c.s>> \o w.found
               mend == c.repair \o w.repair
    <2>10. joined.ok = w.ok /\ joined.found = all /\ joined.repair = mend OBVIOUS
    <2>11. ToSet(all) = {c.s} \cup ToSet(w.found) BY <2>9
    <2> HIDE DEF all, b
    <2>14. ASSUME w.ok, NEW p \in b .. Pages - 1 PROVE Seen(fl, claims, ToSet(all), p)
      <3>1. c.s.end \in 0 .. Pages BY <2>2 DEF Found, Finals, Descriptions
      <3>2. CASE p < c.s.end
        <4>1. b <= p BY <1>1, <2>14
        <4>2. Within(p, c.s) BY <2>3, <3>2, <4>1 DEF Within
        <4> QED BY <2>11, <4>2 DEF Seen
      <3>3. CASE ~(p < c.s.end)
        <4>1. p \in j * SectorPages .. Pages - 1 BY <1>1, <2>6, <2>14, <3>1, <3>3, Sizes
        <4>2. Seen(fl, claims, ToSet(w.found), p) BY <2>5, <2>7, <2>14, <4>1 DEF WalkOK
        <4> QED BY <2>11, <4>2 DEF Seen
      <3> QED BY <3>2, <3>3
    <2> USE DEF all, b
    <2>12. CASE c.repair = <<>>
      <3>1. mend = w.repair BY <2>8, <2>12
      <3> HIDE DEF all, mend, joined, b
      <3>2. SUFFICES ASSUME w.ok PROVE WalkOK(fl, claims, i, joined)
        BY <2>1, <2>10 DEF WalkOK
      <3>3. \A s \in ToSet(all) : FoundAt(fl, s) BY <2>4, <2>5, <2>7, <2>11, <3>2 DEF WalkOK
      <3>4. mend # <<>> => Mends(fl, ToSet(all), Head(mend))
        <4>1. mend # <<>> => Mends(fl, ToSet(w.found), Head(mend))
          BY <2>5, <2>7, <3>1, <3>2 DEF WalkOK
        <4> QED BY <2>11, <4>1 DEF Mends
      <3>5. ASSUME mend = <<>>, NEW p \in b .. Pages - 1
            PROVE  fl[p] = Blank \/ \E s \in claims \cup ToSet(all) : Within(p, s)
        <4>1. c.s.end \in 0 .. Pages BY <2>2 DEF Found, Finals, Descriptions
        <4>2. CASE p < c.s.end
          <5>1. b <= p BY <1>1, <3>5
          <5>2. Within(p, c.s) BY <2>3, <4>2, <5>1 DEF Within
          <5> QED BY <2>11, <5>2
        <4>3. CASE ~(p < c.s.end)
          <5>1. p \in j * SectorPages .. Pages - 1 BY <1>1, <2>6, <3>5, <4>1, <4>3, Sizes
          <5>2. fl[p] = Blank \/ \E s \in claims \cup ToSet(w.found) : Within(p, s)
            BY <2>5, <2>7, <3>1, <3>2, <3>5, <5>1 DEF WalkOK
          <5> QED BY <2>11, <5>2
        <4> QED BY <4>2, <4>3
      <3> QED BY <2>10, <2>14, <3>2, <3>3, <3>4, <3>5 DEF WalkOK, b
    <2>13. CASE c.repair # <<>>
      <3>1. PICK o : c.repair = <<o>> /\ Mends(fl, {c.s}, o) BY <2>3, <2>13
      <3>2. o \in AreaOperations BY <2>2, <3>1
      <3>3. mend # <<>> /\ Head(mend) = o BY <2>8, <3>1, <3>2, Prepended
      <3> HIDE DEF all, mend, joined, b
      <3>4. SUFFICES ASSUME w.ok PROVE WalkOK(fl, claims, i, joined)
        BY <2>1, <2>10 DEF WalkOK
      <3>5. \A s \in ToSet(all) : FoundAt(fl, s) BY <2>4, <2>5, <2>7, <2>11, <3>4 DEF WalkOK
      <3>6. Mends(fl, ToSet(all), Head(mend)) BY <2>11, <3>1, <3>3 DEF Mends
      <3> QED BY <2>10, <2>14, <3>3, <3>4, <3>5, <3>6 DEF WalkOK, b
    <2> QED BY <2>12, <2>13
  <1>8. CASE owners = {} /\ fl[b] = Blank /\ others
    <2>1. fl[b].kind # "begin" BY <1>8 DEF Blank
    <2>2. WalkStep(fl, claims, f, i) = next
      <3> HIDE DEF joined, refused, owners, c, others, next, erased
      <3> QED BY <1>3, <1>8, <2>1
    <2>3. \A p \in sector : fl[p] = Blank /\ Seen(fl, claims, {}, p)
      BY <1>8 DEF Seen, Blank
    <2> HIDE DEF next, sector
    <2> QED BY <1>5, <2>2, <2>3
  <1>9. CASE owners = {} /\ fl[b].kind = "begin" /\ ~fl[b].ok /\ others
    <2>1. fl[b] # Blank BY <1>9 DEF Blank
    <2>2. WalkStep(fl, claims, f, i) = erased
      <3> HIDE DEF joined, refused, owners, c, others, next, erased
      <3> QED BY <1>3, <1>9, <2>1
    <2> DEFINE o == Erase(b, SectorPages)
               mend == <<o>> \o next.repair
    <2>3. o.do = "erase" /\ o.at = b /\ o.upto = b + SectorPages - 1 BY DEF Erase
    <2>4. Mends(fl, ToSet(next.found), o)
      <3>1. \A p \in sector : ~fl[p].ok /\ fl[p].kind \in {"begin", "blank"}
        BY <1>9 DEF Blank
      <3> HIDE DEF o
      <3> QED BY <2>3, <3>1 DEF Mends
    <2> HIDE DEF next, b, o
    <2>5. next.repair \in Seq(AreaOperations) BY <1>2 DEF WalkResults
    <2>6. mend # <<>> /\ Head(mend) = o
      <3>1. next.repair \in Seq(AreaOperations \cup {o}) BY <2>5
      <3> QED BY <3>1, Prepended
    <2> HIDE DEF mend
    <2>7. erased.ok = next.ok /\ erased.found = next.found /\ erased.repair = mend
      BY <1>2 DEF WalkResults, mend, o
    <2> HIDE DEF erased
    <2>8. ASSUME next.ok, NEW p \in b .. Pages - 1
          PROVE  Seen(fl, claims, ToSet(next.found), p)
      <3>1. CASE p \in sector BY <1>9, <3>1 DEF Seen, Blank
      <3>2. CASE p \notin sector
        <4>1. p \in (i + 1) * SectorPages .. Pages - 1 BY <1>1, <2>8, <3>2, Sizes
        <4> QED BY <1>2, <2>8, <4>1 DEF WalkOK
      <3> QED BY <3>1, <3>2
    <2> QED BY <1>2, <2>2, <2>4, <2>6, <2>7, <2>8 DEF WalkOK, b
  <1>10. CASE /\ owners = {} /\ ~(fl[b].kind = "begin" /\ fl[b].ok /\ c.ok)
              /\ ~(fl[b] = Blank /\ others)
              /\ ~(fl[b].kind = "begin" /\ ~fl[b].ok /\ others)
    <2> HIDE DEF joined, refused, owners, c, others, next, erased
    <2>1. WalkStep(fl, claims, f, i) = refused BY <1>3, <1>10
    <2> QED BY <1>4, <2>1
  <1> HIDE DEF owners, others, c, b
  <1> QED BY <1>6, <1>7, <1>8, <1>9, <1>10

\* The whole area.
LEMMA WalkSays ==
  ASSUME NEW fl \in [Chip -> PageSet], NEW claims \in SUBSET Finals
  PROVE  WalkOK(fl, claims, 0, Walk(fl, claims))
  <1> DEFINE f == Walks(fl, claims)
             Right(i) == f[i] \in WalkResults /\ WalkOK(fl, claims, i, f[i])
             Good(n) == \A i \in Sectors - n .. Sectors : Right(i)
             Bad == {n \in Nat : n <= Sectors /\ ~Good(n)}
  <1>1. Good(0)
    <2> SUFFICES ASSUME NEW i \in Sectors - 0 .. Sectors PROVE Right(i) OBVIOUS
    <2>1. i = Sectors /\ i \in 0 .. Sectors BY Sizes
    <2>2. f[i] = WalkFrom(fl, claims, f, i) BY <2>1, WalksUnfold
    <2> HIDE DEF f
    <2>3. f[i] = [ok |-> TRUE, found |-> <<>>, repair |-> <<>>] BY <2>1, <2>2 DEF WalkFrom
    <2>4. f[i] \in WalkResults BY <2>3 DEF WalkResults
    <2>5. \A p \in i * SectorPages .. Pages - 1 : FALSE BY <2>1, Sizes DEF Pages
    <2>6. ToSet(<<>>) = {} BY DEF ToSet
    <2> QED BY <2>3, <2>4, <2>5, <2>6 DEF WalkOK
  <1>2. ASSUME NEW n \in Nat, n + 1 <= Sectors, Good(n) PROVE Good(n + 1)
    <2> SUFFICES ASSUME NEW i \in Sectors - (n + 1) .. Sectors PROVE Right(i) OBVIOUS
    <2>1. CASE i \in Sectors - n .. Sectors BY <1>2, <2>1
    <2>2. CASE i \notin Sectors - n .. Sectors
      <3>1. /\ i = Sectors - (n + 1) /\ i \in 0 .. Sectors /\ i # Sectors
            /\ i \in 0 .. Sectors - 1 /\ i + 1 = Sectors - n
        BY <1>2, <2>2, Sizes
      <3>2. \A j \in i + 1 .. Sectors : Right(j)
        <4> HIDE DEF Right
        <4> QED BY <1>2, <3>1
      <3>3. f[i] = WalkFrom(fl, claims, f, i) BY <3>1, WalksUnfold
      <3> HIDE DEF f
      <3>4. WalkStep(fl, claims, f, i) \in WalkResults BY <3>1, <3>2, WalkStepGoes
      <3>5. WalkOK(fl, claims, i, WalkStep(fl, claims, f, i)) BY <3>1, <3>2, WalkStepOK
      <3> QED BY <3>1, <3>3, <3>4, <3>5 DEF WalkFrom
    <2> QED BY <2>1, <2>2
  <1> HIDE DEF Good
  <1>3. Bad = {}
    <2> SUFFICES ASSUME Bad # {} PROVE FALSE OBVIOUS
    <2>1. Min(Bad) \in Bad /\ \A y \in Bad : Min(Bad) <= y BY MinIs
    <2>2. PICK b \in Nat : b <= Sectors /\ ~Good(b) /\ \A y \in Bad : b <= y BY <2>1
    <2>3. b # 0 BY <1>1, <2>2
    <2>4. b - 1 \in Nat /\ ~(b <= b - 1) /\ (b - 1) + 1 = b /\ b - 1 <= Sectors
      BY <2>2, <2>3, Sizes
    <2>5. Good(b - 1) BY <2>2, <2>4
    <2>6. Good(b) BY <1>2, <2>2, <2>4, <2>5
    <2> QED BY <2>2, <2>6
  <1>4. Good(Sectors) BY <1>3, Sizes
  <1>5. 0 \in Sectors - Sectors .. Sectors BY Sizes
  <1>6. Right(0)
    <2> HIDE DEF Right
    <2> QED BY <1>4, <1>5 DEF Good
  <1> QED BY <1>6 DEF Walk

\* What the walk finds is a session at its place, and nobody's that the journal names.
LEMMA FoundIs ==
  ASSUME NEW fl \in [Chip -> PageSet], NEW s \in Found, FoundAt(fl, s)
  PROVE  Fresh(fl, s) /\ Cleared(fl, s) /\ Closed(fl, s) /\ ~s.discard /\ ~s.confirmed
  <1>1. s.begin \in Nat /\ Sectored(s.begin) BY DEF Found, Finals, Descriptions
  <1>2. Fresh(fl, s) BY <1>1, ReadSessionSays DEF FoundAt
  <1>3. Cleared(fl, s)
    <2>1. \A p \in s.begin .. s.next - 1 : FALSE BY <1>1, <1>2 DEF Fresh
    <2> QED BY <2>1 DEF Cleared
  <1> QED BY <1>2, <1>3 DEF Fresh, Found

LEMMA ClaimsAre ==
  ASSUME NEW fl, NEW m, StoreOK(fl, m), m.job = "scan"
  PROVE  /\ Claims(m) = m.dir /\ m.dir \in SUBSET Finals /\ m.mode = "recovering"
         /\ ~m.active /\ \A d \in m.dir : d.confirmed
  <1>1. PendingOK(m) /\ m \in Stores /\ JobOK(m) BY StoreParts
  <1>2. m.pending => m.reclaim \in m.dir BY <1>1 DEF PendingOK
  <1> QED BY <1>1, <1>2 DEF Claims, Stores, JobOK, PendingOK

\* The first repair is of nothing that the journal names.
LEMMA RepairSafe ==
  ASSUME NEW fl, FlashOK(fl), NEW m, StoreOK(fl, m), AreaSafe(fl, m), m.job = "scan",
         NEW w, w = Walk(fl, Claims(m)), Scanned(m, w).ok, Scanned(m, w).repair # <<>>
  PROVE  AreaSafe(fl, [[m EXCEPT !.nextId = Scanned(m, w).nextId]
                         EXCEPT !.op = Head(Scanned(m, w).repair), !.job = "repair"])
  <1>1. /\ Claims(m) = m.dir /\ m.dir \in SUBSET Finals
        /\ \A d \in m.dir : d.confirmed
    BY ClaimsAre
  <1>2. m \in Stores /\ fl \in [Chip -> PageSet] /\ RecoverySafe(fl, m) /\ FlashSafe(fl)
    BY StoreParts DEF AreaSafe, FlashOK
  <1>3. w \in WalkResults /\ WalkOK(fl, m.dir, 0, w) BY <1>1, <1>2, WalkGoes, WalkSays
  <1> DEFINE o == Head(w.repair)
             found == ToSet(w.found)
             r == [[m EXCEPT !.nextId = Scanned(m, w).nextId] EXCEPT !.op = o, !.job = "repair"]
  <1>4. /\ w.ok /\ w.repair # <<>> /\ Scanned(m, w).repair = w.repair
        /\ \A s \in found, d \in m.dir \cup found : s # d => s.id # d.id /\ ~Overlaps(s, d)
    BY DEF Scanned
  <1>5. o \in AreaOperations /\ found \subseteq Found
    <2>1. w.repair \in Seq(AreaOperations) /\ w.found \in Seq(Found) BY <1>3 DEF WalkResults
    <2> QED BY <1>4, <2>1, ToSetIs
  <1>6. Mends(fl, found, o) BY <1>3, <1>4 DEF WalkOK
  <1>7. /\ r.dir = m.dir /\ r.purge = m.purge /\ r.pending = m.pending
        /\ r.foreign = m.foreign /\ r.reclaim = m.reclaim /\ r.op = o /\ r.job = "repair"
    BY <1>2 DEF Stores
  <1> HIDE DEF o, found, r
  <1>8. o.do = "program" => \A d \in m.dir : ~Within(o.at, d)
    <2> SUFFICES ASSUME o.do = "program", NEW d \in m.dir, Within(o.at, d) PROVE FALSE
      OBVIOUS
    <2>1. PICK s \in found : Within(o.at, s) BY <1>6 DEF Mends
    <2>2. s # d BY <1>1, <1>5 DEF Found
    <2>3. ~Overlaps(s, d) BY <1>4, <2>2
    <2>4. PICK p \in Nat : p = o.at
      BY <1>5 DEF AreaOperations, Operations, Idle, Chip
    <2>5. /\ s.begin \in 0 .. Pages /\ s.end \in 0 .. Pages
          /\ d.begin \in 0 .. Pages /\ d.end \in 0 .. Pages
      BY <1>1, <1>5 DEF Found, Finals, Descriptions
    <2> QED BY <2>1, <2>3, <2>4, <2>5, Sizes DEF Within, Overlaps
  <1>9. RecoverySafe(fl, r) BY <1>2, <1>6, <1>7, <1>8 DEF RecoverySafe, Mends
  <1>10. AreaSafe(fl, r) BY <1>2, <1>7, <1>9 DEF AreaSafe, Running
  <1> QED BY <1>4, <1>10 DEF r, o

\* The area is accounted for: the boot goes on with a release, or is complete.
LEMMA CompleteSafe ==
  ASSUME NEW fl, FlashOK(fl), NEW m, StoreOK(fl, m), AreaSafe(fl, m), m.job = "scan",
         NEW w, w = Walk(fl, Claims(m)), Scanned(m, w).ok, Scanned(m, w).repair = <<>>
  PROVE  Goes(fl, RecoveryComplete([m EXCEPT !.nextId = Scanned(m, w).nextId,
                                             !.dir = Scanned(m, w).dir]))
  <1> DEFINE c == Scanned(m, w)
             found == ToSet(w.found)
             t == Told(fl)
             r == [m EXCEPT !.nextId = c.nextId, !.dir = c.dir]
             r1 == [r EXCEPT !.head = MaxEnd(r.dir)]
             r2 == [r1 EXCEPT !.pending = FALSE]
  <1>1. /\ Claims(m) = m.dir /\ m.dir \in SUBSET Finals /\ m.mode = "recovering"
        /\ ~m.active /\ \A d \in m.dir : d.confirmed
    BY ClaimsAre
  <1>2. m \in Stores /\ Base(m) /\ PendingOK(m) /\ fl \in [Chip -> PageSet]
    BY StoreParts DEF FlashOK, StoreOK
  <1>3. /\ Tells(fl) /\ m.dir = t.dir /\ m.purge = t.purge /\ m.pending = t.pending
        /\ m.foreign = t.foreign /\ m.reclaim = t.reclaim /\ LedgerOK(fl, t)
    BY DEF AreaSafe, RecoverySafe, FlashSafe
  <1>4. w \in WalkResults /\ WalkOK(fl, m.dir, 0, w) BY <1>1, <1>2, WalkGoes, WalkSays
  <1>5. /\ w.ok /\ w.repair = <<>> /\ c.dir = m.dir \cup found /\ found \subseteq Found
        /\ c.dir \in SUBSET Finals /\ c.nextId \in 1 .. IdLimit
        /\ \A s \in found : FoundAt(fl, s)
        /\ \A p \in 0 * SectorPages .. Pages - 1 :
              fl[p] = Blank \/ \E s \in m.dir \cup found : Within(p, s)
    <2>1. w.ok /\ w.repair = <<>> /\ c.dir = m.dir \cup found BY DEF Scanned
    <2>2. w.found \in Seq(Found) BY <1>4 DEF WalkResults
    <2>3. c.dir \in SUBSET Finals /\ c.nextId \in 1 .. IdLimit BY <1>2, <1>4, ScannedIs
    <2> HIDE DEF c
    <2> QED BY <1>4, <2>1, <2>2, <2>3, ToSetIs DEF WalkOK
  <1> HIDE DEF c, found, t
  <1>6. r \in Stores BY <1>2, <1>5 DEF Stores
  <1>7. /\ r.dir = c.dir /\ r.mode = "recovering" /\ ~r.active /\ r.purge = m.purge
        /\ r.pending = m.pending /\ r.foreign = m.foreign /\ r.reclaim = m.reclaim
    BY <1>1, <1>2 DEF Stores
  <1> HIDE DEF r
  <1>8. MaxEnd(c.dir) \in 0 .. Pages
    <2>1. IsFiniteSet(c.dir) BY <1>2, <1>4, ScannedIs DEF c
    <2> QED BY <1>5, <2>1, MaxEndIs
  <1>9. r1 \in Stores BY <1>6, <1>7, <1>8 DEF Stores
  <1>10. /\ r1.dir = c.dir /\ r1.mode = "recovering" /\ ~r1.active /\ r1.purge = m.purge
         /\ r1.pending = m.pending /\ r1.foreign = m.foreign /\ r1.reclaim = m.reclaim
    BY <1>6, <1>7 DEF Stores
  <1>11. RecoveryComplete(r) = IF m.pending /\ m.foreign THEN StartReclaim(r1, m.reclaim)
                               ELSE IF m.purge # NoUser THEN StartNextPurge(r2)
                               ELSE Ready(r2)
    BY <1>7 DEF RecoveryComplete
  <1> HIDE DEF r1
  <1>12. r2 \in Stores BY <1>9 DEF Stores
  <1>13. /\ r2.dir = c.dir /\ r2.mode = "recovering" /\ ~r2.active /\ r2.purge = m.purge
    BY <1>9, <1>10 DEF Stores
  <1> HIDE DEF r2
  <1>14. SessionsOK(fl, c.dir)
    <2>1. SessionsOK(fl, m.dir) BY <1>3 DEF LedgerOK
    <2>2. \A s \in found : Cleared(fl, s) /\ Closed(fl, s) BY <1>2, <1>5, FoundIs
    <2> QED BY <1>5, <2>1, <2>2 DEF SessionsOK
  <1>15. ASSUME NEW q, q.dir = c.dir PROVE AreaOK(fl, q, "none")
    <2>1. ASSUME NEW p \in 0 .. Pages - 1 PROVE fl[p] \in Voids \/ Used(q, "none", p)
      <3>1. p \in 0 * SectorPages .. Pages - 1 BY Sizes
      <3>2. fl[p] = Blank \/ \E s \in c.dir : Within(p, s) BY <1>5, <3>1
      <3> QED BY <1>15, <3>2, VoidPages DEF Used
    <2> QED BY <1>14, <1>15, <2>1 DEF AreaOK
  <1>16. \A d \in c.dir : d.discard => m.purge \in Users /\ d.owner # m.purge
    <2>1. \A d \in m.dir : d.discard => m.purge \in Users /\ d.owner # m.purge
      BY <1>3 DEF LedgerOK
    <2>2. \A s \in found : ~s.discard BY <1>2, <1>5, FoundIs
    <2> QED BY <1>5, <2>1, <2>2
  <1>17. ASSUME NEW q, q.dir = c.dir, q.purge = m.purge PROVE AgreesOK(t, q, "none")
    BY <1>1, <1>3, <1>5, <1>17 DEF AgreesOK, Marked, SamePlace
  <1>18. CASE m.pending /\ m.foreign
    <2>1. m.reclaim \in m.dir BY <1>2, <1>18 DEF PendingOK
    <2>2. m.reclaim.discard /\ m.purge \in Users BY <1>3, <1>16, <1>5, <1>18, <2>1 DEF LedgerOK
    <2>3. m.reclaim \in Finals /\ m.reclaim \in c.dir /\ m.reclaim.confirmed
      BY <1>1, <1>5, <2>1
    <2>4. Marked(r1.dir, m.reclaim) BY <1>10, <2>3 DEF Marked, SamePlace
    <2>5. Cleared(fl, m.reclaim) BY <1>14, <2>3 DEF SessionsOK
    <2>6. Purging(r1) BY <1>10, <1>16, <1>18, <2>2 DEF Purging
    <2>7. AreaOK(fl, r1, "none") BY <1>10, <1>15
    <2>8. Tells(fl) => AgreesOK(Told(fl), r1, "none") BY <1>10, <1>17 DEF t
    <2>9. Goes(fl, StartReclaim(r1, m.reclaim))
      BY <1>9, <1>10, <1>18, <2>3, <2>4, <2>5, <2>6, <2>7, <2>8, StartReclaimRuns
    <2> QED BY <1>11, <1>18, <2>9 DEF r, c
  <1>19. CASE ~(m.pending /\ m.foreign) /\ m.purge # NoUser
    <2>1. m.purge \in Users BY <1>2, <1>19 DEF Stores, Owners
    <2>2. AreaOK(fl, r2, "none") BY <1>13, <1>15
    <2>3. Tells(fl) => AgreesOK(Told(fl), r2, "none") BY <1>13, <1>17 DEF t
    <2>4. Goes(fl, StartNextPurge(r2))
      BY <1>12, <1>13, <1>16, <2>1, <2>2, <2>3, StartNextPurgeRuns
    <2> QED BY <1>11, <1>19, <2>4 DEF r, c
  <1>20. CASE ~(m.pending /\ m.foreign) /\ m.purge = NoUser
    <2> DEFINE q == Ready(r2)
    <2>1. q.dir = c.dir /\ ~q.active /\ q.purge = m.purge /\ q.job = "none"
      BY <1>12, <1>13 DEF Ready, Stores
    <2> HIDE DEF q
    <2>2. q.purge \notin Users BY <1>20, <2>1, FlashAssumption
    <2>3. AreaOK(fl, q, "none") BY <1>15, <2>1
    <2>4. Tells(fl) => AgreesOK(Told(fl), q, "none") BY <1>17, <2>1 DEF t
    <2>5. \A d \in q.dir : ~d.discard BY <1>16, <2>1, <2>2
    <2>6. Goes(fl, q) BY <2>1, <2>2, <2>3, <2>4, <2>5, RestCore
    <2> QED BY <1>11, <1>20, <2>6 DEF q, r, c
  <1> QED BY <1>18, <1>19, <1>20

LEMMA RecoverSafe ==
  ASSUME NEW fl, FlashOK(fl), NEW m, StoreOK(fl, m), AreaSafe(fl, m), m.job = "scan",
         NEW w, w = Walk(fl, Claims(m)), NEW c, c = Scanned(m, w),
         NEW r, r = [m EXCEPT !.nextId = c.nextId]
  PROVE  AreaSafe(fl, IF ~c.ok THEN Failed
                      ELSE IF c.repair # <<>>
                      THEN [r EXCEPT !.op = Head(c.repair), !.job = "repair"]
                      ELSE RecoveryComplete([r EXCEPT !.dir = c.dir]))
  <1>1. FlashSafe(fl) /\ m \in Stores BY StoreParts DEF AreaSafe
  <1>2. ASSUME NEW q, Goes(fl, q) PROVE AreaSafe(fl, q)
    BY <1>1, <1>2 DEF AreaSafe, Goes, Running
  <1>3. CASE ~c.ok BY <1>2, <1>3, FailedGoes
  <1>4. CASE c.ok /\ c.repair # <<>>
    <2>1. AreaSafe(fl, [[m EXCEPT !.nextId = Scanned(m, w).nextId]
                          EXCEPT !.op = Head(Scanned(m, w).repair), !.job = "repair"])
      BY <1>4, RepairSafe
    <2> QED BY <1>4, <2>1
  <1>5. CASE c.ok /\ c.repair = <<>>
    <2>1. Goes(fl, RecoveryComplete([m EXCEPT !.nextId = Scanned(m, w).nextId,
                                               !.dir = Scanned(m, w).dir]))
      BY <1>5, CompleteSafe
    <2>2. [r EXCEPT !.dir = c.dir] = [m EXCEPT !.nextId = Scanned(m, w).nextId,
                                               !.dir = Scanned(m, w).dir]
      BY <1>1 DEF Stores
    <2> QED BY <1>2, <1>5, <2>1, <2>2
  <1> QED BY <1>3, <1>4, <1>5

-----------------------------------------------------------------------------
(* The invariant.                                                            *)

LEMMA AreaInit == ASSUME Init PROVE AreaInv
  <1> DEFINE header == Header(1, 1, NoUser, 0, FALSE)
  <1>1. StoreInv BY StoreInit
  <1>2. PICK k \in 0 .. 1 : JournalOK(flash, k) BY <1>1 DEF StoreInv, FlashOK
  <1>3. flash \in [Chip -> PageSet] BY <1>1 DEF StoreInv, FlashOK
  <1>4. \A p \in Chip : flash[p] = IF p = Bank(0) THEN header ELSE Blank BY DEF Init
  <1>5. header.kind = "header" /\ Blank.kind = "blank" BY DEF Header, Blank
  <1> HIDE DEF header
  <1>6. \A j \in 0 .. 1, i \in 0 .. BankPages - 1 :
           Bank(j) + i \in Chip /\ Bank(j) \in Nat /\ (Bank(j) + i = Bank(0) <=> j = 0 /\ i = 0)
    BY Sizes, BankAddresses
  <1>7. k = 0
    <2>1. 0 \in 0 .. BankPages - 1 /\ Bank(k) + 0 = Bank(k) BY Sizes, BankAddresses
    <2>2. Bank(k) \in Chip BY <1>6, <2>1
    <2>3. flash[Bank(k)].kind = "header" BY <1>2 DEF JournalOK, IsHeader
    <2>4. Bank(k) = Bank(0) BY <1>4, <1>5, <2>2, <2>3
    <2> QED BY <1>6, <2>1, <2>4
  <1>8. 1 \in 0 .. BankPages - 1 /\ 1 \in 1 .. BankPages /\ 0 \in 0 .. 1 BY Sizes
  <1>9. ~IsEntry(flash[Bank(0) + 1])
    <2>1. Bank(0) + 1 \in Chip /\ Bank(0) + 1 # Bank(0) BY <1>6, <1>8
    <2> QED BY <1>4, <1>5, <2>1 DEF IsEntry
  <1>10. Stop(flash, 0) = 1
    <2>1. \A i \in 1 .. 1 - 1 : IsEntry(flash[Bank(0) + i]) OBVIOUS
    <2> QED BY <1>8, <1>9, <2>1, StopUnique
  <1>11. Told(flash) = FromHeader(flash, 0)
    <2>1. 1 - 1 = 0 OBVIOUS
    <2> QED BY <1>2, <1>3, <1>7, <1>10, <2>1, ToldIs, AfterUnfolds
  <1>12. Told(flash).dir = {} /\ ~Told(flash).pending BY <1>11 DEF FromHeader, Off
  <1>13. FlashSafe(flash) BY <1>12 DEF FlashSafe, LedgerOK, SessionsOK
  <1>14. AreaSafe(flash, Off) BY <1>13, FailedGoes DEF AreaSafe, Goes, Running
  <1>15. store = Off BY DEF Init
  <1> QED BY <1>1, <1>14, <1>15 DEF AreaInv

LEMMA AreaNext == ASSUME AreaInv, [Next]_vars PROVE AreaInv'
  <1>1. /\ FlashOK(flash) /\ StoreOK(flash, store) /\ AreaSafe(flash, store)
        /\ FlashSafe(flash) /\ StoreInv
    BY DEF AreaInv, StoreInv, AreaSafe
  <1>2. store \in Stores /\ DirectoryOK(store) /\ JobOK(store) BY <1>1, StoreParts
  <1>3. StoreInv' BY <1>1, StoreNext
  <1>4. ASSUME NEW new, NEW r, flash' = new, store' = r, AreaSafe(new, r) PROVE AreaInv'
    BY <1>3, <1>4 DEF AreaInv
  <1>5. ASSUME NEW r, store' = r, UNCHANGED flash, AreaSafe(flash, r) PROVE AreaInv'
    <2>1. PICK fl : fl = flash /\ AreaSafe(fl, r) BY <1>5
    <2>2. flash' = fl /\ store' = r BY <1>5, <2>1
    <2> QED BY <1>4, <2>1, <2>2
  <1>6. ASSUME NEW r, store' = r, UNCHANGED flash, Goes(flash, r) PROVE AreaInv'
    <2>1. AreaSafe(flash, r) BY <1>1, <1>6 DEF AreaSafe, Goes, Running
    <2> QED BY <1>5, <1>6, <2>1
  <1>7. CASE OperationDone
    <2> DEFINE fl == Completed(flash, store.op)
               m  == IF ~Verified(fl, store.op) THEN Failed
                     ELSE IF store.mode = "recovering" THEN RecoveryStep(store)
                     ELSE RuntimeStep(store)
    <2>1. store.op # Idle /\ flash' = fl /\ store' = m BY <1>7 DEF OperationDone, Do
    <2>2. fl \in Interrupted(flash, store.op)
      BY <1>1, StoreParts, CompletedMayHappen DEF FlashOK
    <2> HIDE DEF fl
    <2>3. AreaSafe(fl, m) BY <1>1, <2>1, <2>2, StepSafe
    <2> HIDE DEF m
    <2>4. PICK new, r : new = fl /\ r = m OBVIOUS
    <2> QED BY <1>4, <2>1, <2>3, <2>4
  <1>8. CASE Mount
    <2>1. AreaSafe(flash, Replay(flash)) BY <1>1, MountSafe
    <2>2. PICK r : r = Replay(flash) OBVIOUS
    <2>3. store' = r /\ UNCHANGED flash BY <1>8, <2>2 DEF Mount, Do
    <2> QED BY <1>5, <2>1, <2>2, <2>3
  <1>9. CASE Recover
    <2>1. PICK w : /\ w = Walk(flash, Claims(store)) /\ UNCHANGED flash /\ store.job = "scan"
                   /\ LET c == Scanned(store, w)
                          m == [store EXCEPT !.nextId = c.nextId]
                      IN  store' = IF ~c.ok THEN Failed
                                   ELSE IF c.repair # <<>>
                                   THEN [m EXCEPT !.op = Head(c.repair), !.job = "repair"]
                                   ELSE RecoveryComplete([m EXCEPT !.dir = c.dir])
      BY <1>9 DEF Recover, Do
    <2>2. PICK c : c = Scanned(store, w) OBVIOUS
    <2>3. PICK m : m = [store EXCEPT !.nextId = c.nextId] OBVIOUS
    <2>4. PICK r : r = IF ~c.ok THEN Failed
                       ELSE IF c.repair # <<>>
                       THEN [m EXCEPT !.op = Head(c.repair), !.job = "repair"]
                       ELSE RecoveryComplete([m EXCEPT !.dir = c.dir])
      OBVIOUS
    <2>5. store' = r BY <2>1, <2>2, <2>3, <2>4
    <2>6. AreaSafe(flash, r) BY ONLY <1>1, <2>1, <2>2, <2>3, <2>4, RecoverSafe
    <2> QED BY <1>5, <2>1, <2>5, <2>6
  <1>10. ASSUME NEW u \in Users, BeginSession(u) PROVE AreaInv'
    <2>1. PICK a : a = Session(store.nextId, u, AlignUp(store.head), AlignUp(store.head), 0)
      OBVIOUS
    <2>2. PICK r : r = [store EXCEPT !.act = a, !.nextId = @ + 1, !.mode = "busy",
                                     !.job = "begin",
                                     !.op = Program(AlignUp(store.head), BeginPage(a.id, u))]
      OBVIOUS
    <2>3. /\ store.mode = "ready" /\ store.job = "none" /\ ~store.active
          /\ store.head + RoomToBegin <= Pages
          /\ store' = r /\ UNCHANGED flash
      BY <1>10, <2>1, <2>2 DEF BeginSession, Resting, HasRoom, HasPages, Do
    <2>4. Goes(flash, r) BY <1>1, <2>1, <2>2, <2>3, BeginSafe
    <2> QED BY <1>6, <2>3, <2>4
  <1>11. store.active => store.mode \in {"ready", "busy"} BY <1>2 DEF JobOK, Stores
  <1>12. CASE AppendEvent
    <2>1. PICK r : r = [store EXCEPT !.job = "page0",
                          !.op = Program(Slot(store.act.begin, store.act.count),
                                         EventHead(store.act.id, store.act.count))]
      OBVIOUS
    <2>2. store.active /\ store.job = "none" /\ store' = r /\ UNCHANGED flash
      BY <1>12, <2>1 DEF AppendEvent, Do
    <2>3. /\ r.dir = store.dir /\ r.active /\ r.act = store.act /\ r.purge = store.purge
          /\ r.job = "page0" /\ r.mode # "recovering"
          /\ r.op = Program(NextSlot(r), EventHead(r.act.id, r.act.count))
      BY <1>2, <1>11, <2>1, <2>2 DEF Stores, NextSlot
    <2>4. OperationOK(flash, r) BY <2>3 DEF OperationOK
    <2>5. Goes(flash, r) BY <1>1, <2>2, <2>3, <2>4, PageStarts
    <2> QED BY <1>6, <2>2, <2>5
  <1>13. CASE Checkpoint
    <2>1. PICK e : e = Entry("checkpoint",
                         ActiveInfo(store.act, Slot(store.act.begin, store.act.count)))
      OBVIOUS
    <2>2. PICK r : r = Journal(store, e, "checkpoint") OBVIOUS
    <2>3. store.active /\ store.job = "none" /\ store' = r /\ UNCHANGED flash
      BY <1>13, <2>1, <2>2 DEF Checkpoint, Do
    <2>4. e.type = "checkpoint" /\ e.s.id = store.act.id
      BY <2>1 DEF Entry, ActiveInfo, Session
    <2>5. Goes(flash, r) BY <1>1, <2>2, <2>3, <2>4, CheckpointSafe
    <2> QED BY <1>6, <2>3, <2>5
  <1>14. CASE FinalizeSession
    <2>1. PICK r : r = [store EXCEPT !.mode = "busy", !.job = "end",
                          !.op = Program(FinalSector(store.act),
                                         EndPage(store.act.id, store.act.count))]
      OBVIOUS
    <2>2. store.active /\ store.job = "none" /\ store' = r /\ UNCHANGED flash
      BY <1>14, <2>1 DEF FinalizeSession, Do
    <2>3. /\ r.dir = store.dir /\ r.active /\ r.act = store.act /\ r.purge = store.purge
          /\ r.job = "end" /\ r.mode # "recovering"
          /\ r.op = Program(FinalSector(r.act), EndPage(r.act.id, r.act.count))
      BY <1>2, <2>1, <2>2 DEF Stores
    <2>4. OperationOK(flash, r) BY <2>3 DEF OperationOK
    <2>5. Goes(flash, r) BY <1>1, <2>2, <2>3, <2>4, PageStarts
    <2> QED BY <1>6, <2>2, <2>5
  <1>15. \A u : OwnedBy(store.dir, u) \in SUBSET Finals /\ OwnedBy(store.dir, u) \subseteq store.dir
    BY <1>2 DEF OwnedBy, Stores
  <1>16. ASSUME NEW u \in Users, ConfirmSession(u) PROVE AreaInv'
    <2>1. PICK d : d = Latest(OwnedBy(store.dir, u)) OBVIOUS
    <2>2. PICK s : s = [d EXCEPT !.next = d.begin] OBVIOUS
    <2>3. PICK r : r = Journal([store EXCEPT !.dir = Replace(@, s), !.foreign = FALSE,
                                             !.reclaim = s],
                               Entry("confirmed", s), "confirm")
      OBVIOUS
    <2>4. /\ store.mode = "ready" /\ store.job = "none" /\ ~store.active
          /\ OwnedBy(store.dir, u) # {} /\ ~d.confirmed
          /\ store' = r /\ UNCHANGED flash
      BY <1>16, <2>1, <2>2, <2>3 DEF ConfirmSession, Resting, Do
    <2>5. d \in store.dir BY <1>15, <2>1, <2>4, LatestIs
    <2>6. Goes(flash, r) BY <1>1, <2>2, <2>3, <2>4, <2>5, ConfirmSafe
    <2> QED BY <1>6, <2>4, <2>6
  <1>17. ASSUME NEW u \in Purgers, PurgeRequest(u) PROVE AreaInv'
    <2>1. PICK r : r = Journal([store EXCEPT !.purge = u, !.mode = "busy"],
                               Entry("purge_begin", [NoSession EXCEPT !.owner = u]),
                               "purge_begin")
      OBVIOUS
    <2>2. /\ store.mode = "ready" /\ store.job = "none" /\ ~store.active
          /\ store' = r /\ UNCHANGED flash
      BY <1>17, <2>1 DEF PurgeRequest, Resting, Do
    <2>3. u \in Users BY StorageAssumption
    <2>4. Goes(flash, r) BY <1>1, <2>1, <2>2, <2>3, PurgeSafe
    <2> QED BY <1>6, <2>2, <2>4
  <1>18. CASE PauseReclaim \/ ReleaseReclaim
    <2>1. PICK b \in BOOLEAN : store' = [store EXCEPT !.paused = b] /\ UNCHANGED flash
      BY <1>18 DEF PauseReclaim, ReleaseReclaim, Do
    <2>2. PICK r : r = [store EXCEPT !.paused = b] OBVIOUS
    <2>3. AreaSafe(flash, r) BY <1>1, <1>2, <2>2, PausedSafe
    <2> QED BY <1>5, <2>1, <2>2, <2>3
  <1>19. ASSUME NEW u \in Users, ResumeReclaim(u) PROVE AreaInv'
    <2>1. PICK s : s = Latest(OwnedBy(store.dir, u)) OBVIOUS
    <2>2. PICK r : r = StartReclaim([store EXCEPT !.foreign = FALSE], s) OBVIOUS
    <2>3. /\ store.mode = "ready" /\ store.job = "none" /\ ~store.active
          /\ OwnedBy(store.dir, u) # {} /\ s.confirmed
          /\ store' = r /\ UNCHANGED flash
      BY <1>19, <2>1, <2>2 DEF ResumeReclaim, Resting, Do
    <2>4. s \in store.dir BY <1>15, <2>1, <2>3, LatestIs
    <2>5. Goes(flash, r) BY <1>1, <2>2, <2>3, <2>4, ResumeSafe
    <2> QED BY <1>6, <2>3, <2>5
  <1>20. CASE PowerLoss \/ FlashFault
    <2>1. PICK new, r : /\ new \in Interrupted(flash, store.op) /\ r \in {Off, Failed}
                        /\ flash' = new /\ store' = r
      BY <1>20 DEF PowerLoss, FlashFault, Do
    <2>2. AreaSafe(new, r) BY <1>1, <2>1, CutSafe
    <2> QED BY <1>4, <2>1, <2>2
  <1>21. CASE UNCHANGED vars
    <2>1. PICK r : r = store /\ AreaSafe(flash, r) BY <1>1
    <2>2. store' = r /\ UNCHANGED flash BY <1>21, <2>1 DEF vars
    <2> QED BY <1>5, <2>1, <2>2
  <1> QED
    BY <1>7, <1>8, <1>9, <1>10, <1>12, <1>13, <1>14, <1>16, <1>17, <1>18, <1>19, <1>20, <1>21
    DEF Next

(* Whatever was cut short, the result area holds nothing but what the       *)
(* sessions in RAM and the one being recorded say, what is erased is known  *)
(* to go, and the journal would tell a boot no more than RAM knows.         *)
THEOREM AreaInvariant == Spec => []AreaInv
  <1>1. Init => AreaInv BY AreaInit
  <1>2. AreaInv /\ [Next]_vars => AreaInv' BY AreaNext
  <1> QED BY <1>1, <1>2, PTL DEF Spec

\* What is written is blank, or the page that the tail has not committed yet.
LEMMA WritesBlank ==
  ASSUME NEW fl, FlashOK(fl), NEW m, StoreOK(fl, m), AreaSafe(fl, m), "spoiled" \notin Tears,
         m.op.do = "program"
  PROVE  fl[m.op.at] \in {Blank, Torn(m.op.page)}
  <1>1. m \in Stores /\ JobOK(m) /\ m.job \in Jobs BY StoreParts
  <1>2. m.job \notin {"none", "scan"} BY <1>1 DEF JobOK, Idle
  <1>3. Mounted(m) BY <1>1, <1>2 DEF JobOK, Mounted, Stores
  <1>8. Base(m) BY DEF StoreOK
  <1>4. CASE m.job = "repair" BY <1>4 DEF AreaSafe, RecoverySafe
  <1>5. CASE m.job \in JournalJobs BY <1>1, <1>3, <1>5, StoreParts DEF JobOK, CursorOK
  <1>6. CASE m.job \in RotationJobs
    <2>1. RotationOK(fl, m) BY <1>3, StoreParts
    <2>2. m.job # "rotate" BY <2>1 DEF RotationOK, Erase
    <2>3. CASE m.job = "header"
      BY <2>1, <2>3 DEF RotationOK, Program
    <2>4. CASE m.job = "snapshot"
      <3>1. PICK o \in Nat : o = Bank(1 - m.cur) BY StoreParts, BankAddresses
      <3>2. PICK s \in Nat : s = m.snap BY StoreParts, Sizes
      <3>3. s + 1 \in s + 1 .. BankPages - 1 /\ m.op.at = o + (s + 1)
        <4>1. m.op.at = (o + 1) + s BY <2>1, <2>4, <3>1, <3>2 DEF RotationOK, Program
        <4>2. s < Len(SnapshotPages(m)) /\ Len(SnapshotPages(m)) <= MaxSessions + 1
              /\ Len(SnapshotPages(m)) \in Nat
          BY <2>1, <2>4, <3>2, <1>8, SnapshotIs DEF RotationOK
        <4>3. PICK n \in Nat : n = Len(SnapshotPages(m)) BY <4>2
        <4> QED BY <4>1, <4>2, <4>3, Sizes
      <3>4. fl[o + (s + 1)] = Blank BY <2>1, <2>4, <3>1, <3>2, <3>3 DEF RotationOK
      <3> QED BY <3>3, <3>4
    <2> QED BY <1>6, <2>2, <2>3, <2>4 DEF RotationJobs
  <1>7. CASE m.job \in PageJobs
    <2>1. Running(m) BY <1>3, <1>7 DEF Running, PageJobs
    <2>2. m.job \notin RotationJobs BY <1>7 DEF PageJobs, RotationJobs
    <2>3. AreaOK(fl, m, m.job) /\ OperationOK(fl, m)
      BY <2>1, <2>2 DEF AreaSafe, RunSafe, CoreOK, Doing
    <2>4. m.job # "reclaim" BY <2>3 DEF OperationOK, Erase
    <2>5. CASE m.job = "commit"
      BY <2>3, <2>5 DEF OperationOK, Program
    <2>6. CASE m.job # "commit"
      <3>1. /\ m.op.at \in 0 .. Pages - 1 /\ m.op.at >= Reached(m, m.job)
            /\ m.op.at >= m.act.begin /\ m.act.begin \in 0 .. Pages
            /\ \A d \in m.dir : d.end <= m.act.begin
        BY <1>7, <2>1, <2>3, <2>4, <2>6, PagePlace
      <3>2. PICK p \in 0 .. Pages - 1 : p = m.op.at BY <3>1
      <3>3. \A d \in m.dir : d.end \in 0 .. Pages
        BY <2>1, <2>3, RunningParts
      <3>4. PICK n \in Nat : n = Reached(m, m.job) /\ p >= n
        <4>1. m.act.begin \in Nat /\ NextSlot(m) \in Nat
          BY <1>7, <2>1, <2>3, <2>4, Sizes, PagePlace
        <4>2. Reached(m, m.job) \in Nat BY <4>1 DEF Reached
        <4> QED BY <3>1, <3>2, <4>2
      <3>5. ~Used(m, m.job, p)
        <4>1. \A d \in m.dir : ~Within(p, d) BY <3>1, <3>2, <3>3, Sizes DEF Within
        <4>2. ~(p < Reached(m, m.job)) BY <3>4
        <4>3. m.job # "final" BY <1>7 DEF PageJobs
        <4> QED BY <4>1, <4>2, <4>3 DEF Used
      <3>6. fl[p] \in Voids BY <2>3, <3>5 DEF AreaOK
      <3> QED BY <3>2, <3>6, VoidPages
    <2> QED BY <2>5, <2>6
  <1> QED BY <1>1, <1>2, <1>4, <1>5, <1>6, <1>7 DEF Jobs

\* Behind the head of a store at rest nothing has been left.
LEMMA TailBlank ==
  ASSUME NEW fl, FlashOK(fl), NEW m, StoreOK(fl, m), AreaSafe(fl, m), "spoiled" \notin Tears,
         m.mode = "ready", m.job = "none", ~m.active, NEW p \in m.head .. Pages - 1
  PROVE  fl[p] = Blank
  <1>1. Mounted(m) BY DEF Mounted
  <1>2. Running(m) /\ AreaOK(fl, m, "none") /\ m \in Stores /\ OperationOK(fl, m)
    BY <1>1, RestParts
  <1>3. Covered(m) /\ \A d \in m.dir : d.end \in 0 .. Pages BY <1>2, RunningParts
  <1>4. m.head \in 0 .. Pages BY <1>2 DEF Stores
  <1>5. p \in 0 .. Pages - 1 BY <1>4, Sizes
  <1>6. ~Used(m, "none", p)
    <2>1. \A d \in m.dir : ~Within(p, d) BY <1>3, <1>4, Sizes DEF Within, Covered
    <2> QED BY <2>1 DEF Used, Records
  <1>7. fl[p] \in Voids BY <1>2, <1>5, <1>6 DEF AreaOK
  <1> QED BY <1>7, VoidPages

(* No program of the store, wherever earlier boots were cut short, meets a  *)
(* page that holds anything but its own uncommitted form, and behind the    *)
(* head of a store at rest, where the next session goes, all is blank: for  *)
(* a chip on which an erase that is cut short does not spoil a page that    *)
(* was blank before it.                                                     *)
THEOREM OnlyBlankWritten ==
  ASSUME "spoiled" \notin Tears
  PROVE  Spec => []OnlyBlankIsWritten
  <1>1. ASSUME AreaInv PROVE OnlyBlankIsWritten
    <2>1. FlashOK(flash) /\ StoreOK(flash, store) /\ AreaSafe(flash, store)
      BY <1>1 DEF AreaInv, StoreInv
    <2>2. store.op.do = "program" => flash[store.op.at] \in {Blank, Torn(store.op.page)}
      BY <2>1, WritesBlank
    <2>3. store.mode = "ready" /\ Resting =>
             \A p \in store.head .. Pages - 1 : flash[p] = Blank
      BY <2>1, TailBlank DEF Resting
    <2> QED BY <2>2, <2>3 DEF OnlyBlankIsWritten
  <1> QED BY <1>1, AreaInvariant, PTL

-----------------------------------------------------------------------------
(* The sessions whose events the store has verified and that nobody has      *)
(* released: what is on Flash of each, what the journal does not say of it,  *)
(* and where RAM holds it.                                                   *)

Kept(s, r) == {id \in Ids \ r : s[id] # NoSession}

Remembered(fl, k) ==
    /\ k \in Descriptions /\ k.id \in Ids /\ k.owner \in Users
    /\ Sectored(k.begin) /\ k.begin < Pages
    /\ Stands(fl, k) /\ Apart(fl, k.begin)
    /\ ~EventAt(fl, k.begin, k.id, k.count + 1)

StoredIn(dir, k) ==
    \E s \in dir :
        /\ s.id = k.id /\ s.owner = k.owner /\ s.begin = k.begin
        /\ s.count \in k.count .. k.count + 1 /\ ~s.confirmed
        /\ Slot(k.begin, k.count + 1) + 2 <= s.end

KeptOnFlash(fl, s, r) == \A id \in Kept(s, r) : s[id].id = id /\ Remembered(fl, s[id])

\* No entry releases it, and no purge is after it.
Unlisted(t, s, r) ==
    \A id \in Kept(s, r) :
        /\ ~Known(t.dir, id)
        /\ t.purge \in Users => s[id].owner = t.purge

KeptInRam(m, s, r) ==
    /\ \A id \in Kept(s, r) :
          /\ (m.active /\ m.act = s[id]) \/ StoredIn(m.dir, s[id])
          /\ m.purge \in Users => s[id].owner = m.purge
    /\ m.active => s[m.act.id] = m.act
    /\ Doing(m) = "confirm" => m.reclaim.id \in r

KeptSafe(fl, m, s, r) ==
    /\ s \in [Ids -> Descriptions] /\ r \in SUBSET Ids
    /\ KeptOnFlash(fl, s, r)
    /\ Tells(fl) => Unlisted(Told(fl), s, r)
    /\ Running(m) => KeptInRam(m, s, r)

KeptInv == AreaInv /\ KeptSafe(flash, store, saved, released)

\* What may change of the area without a session `k` being touched.
Spares(fl, new, k) ==
    \A p \in 0 .. Pages - 1 :
        \/ new[p] = fl[p]
        \/ /\ ~(k.begin <= p /\ p < Slot(k.begin, k.count))
           /\ \/ new[p].kind \notin {"event", "tail"}
              \/ p \in {Slot(k.begin, k.count), Slot(k.begin, k.count) + 1}
              \/ p >= Slot(k.begin, k.count) + 4

LEMMA SlotIs ==
  ASSUME NEW b \in Nat, NEW n \in Nat
  PROVE  /\ Slot(b, n) \in Nat /\ b < Slot(b, n) /\ Slot(b, n + 1) = Slot(b, n) + 2
         /\ \A i \in 0 .. n - 1 : i \in Nat /\ b < Slot(b, i) /\ Slot(b, i) \in Nat
                                  /\ Slot(b, i) + 1 < Slot(b, n)
  BY DEF Slot

LEMMA RememberedKept ==
  ASSUME NEW fl, NEW new, NEW k, Remembered(fl, k), Spares(fl, new, k)
  PROVE  Remembered(new, k)
  <1>1. /\ k.begin \in Nat /\ k.begin < Pages /\ k.count \in Nat
        /\ Stands(fl, k) /\ Apart(fl, k.begin) /\ ~EventAt(fl, k.begin, k.id, k.count + 1)
    BY Sizes DEF Remembered, Descriptions
  <1>2. PICK b \in Nat, n \in Nat, a \in Nat :
             b = k.begin /\ n = k.count /\ a = Slot(b, n) /\ b < a /\ b < Pages
    BY <1>1, SlotIs
  <1>3. \A p \in 0 .. Pages - 1 :
           \/ new[p] = fl[p]
           \/ /\ ~(b <= p /\ p < a)
              /\ new[p].kind \notin {"event", "tail"} \/ p \in {a, a + 1} \/ p >= a + 4
    BY <1>2 DEF Spares
  <1>4. new[b] = fl[b] BY <1>2, <1>3, Sizes
  <1>5. ASSUME NEW i \in 0 .. n - 1 PROVE EventAt(new, b, k.id, i)
    <2>1. EventAt(fl, b, k.id, i) BY <1>1, <1>2 DEF Stands
    <2>2. Slot(b, i) \in Nat /\ b < Slot(b, i) /\ Slot(b, i) + 1 < a BY <1>2, SlotIs
    <2>3. Slot(b, i) + 2 <= Pages BY <2>1 DEF EventAt, SlotFits
    <2>4. PICK p \in Nat : p = Slot(b, i) /\ b < p /\ p + 1 < a /\ p + 2 <= Pages
      BY <2>2, <2>3
    <2>5. p \in 0 .. Pages - 1 /\ p + 1 \in 0 .. Pages - 1 BY <2>4, Sizes
    <2>6. new[p] = fl[p] BY <1>3, <2>4, <2>5
    <2>7. new[p + 1] = fl[p + 1] BY <1>2, <1>3, <2>4, <2>5
    <2> QED BY <2>1, <2>4, <2>6, <2>7 DEF EventAt
  <1>6. Apart(new, b)
    <2>1. CASE b = 0 BY <2>1 DEF Apart
    <2>2. CASE b # 0
      <3>1. b - 1 \in 0 .. Pages - 1 /\ b - 1 \notin {a, a + 1} /\ ~(b - 1 >= a + 4)
        BY <1>2, <2>2, Sizes
      <3>2. fl[b - 1].kind # "event" BY <1>1, <1>2, <2>2 DEF Apart
      <3>3. new[b - 1] = fl[b - 1] \/ new[b - 1].kind \notin {"event", "tail"}
        BY <1>3, <3>1
      <3> QED BY <3>2, <3>3 DEF Apart
    <2> QED BY <2>1, <2>2
  <1>7. ASSUME EventAt(new, b, k.id, n + 1) PROVE FALSE
    <2>1. Slot(b, n + 1) = a + 2 BY <1>2, SlotIs
    <2>2. /\ a + 4 <= Pages
          /\ new[a + 2].kind = "event" /\ new[(a + 2) + 1].kind = "tail"
          /\ new[a + 2] = EventHead(k.id, n + 1) /\ new[(a + 2) + 1] = EventTail(k.id, n + 1)
      BY <1>2, <1>7, <2>1 DEF EventAt, SlotFits, EventHead, EventTail
    <2>3. /\ a + 2 \in 0 .. Pages - 1 /\ (a + 2) + 1 \in 0 .. Pages - 1
          /\ a + 2 \notin {a, a + 1} /\ (a + 2) + 1 \notin {a, a + 1}
          /\ ~(a + 2 >= a + 4) /\ ~((a + 2) + 1 >= a + 4)
      BY <1>2, <2>2, Sizes
    <2>4. new[a + 2] = fl[a + 2] BY <1>3, <2>2, <2>3
    <2>5. new[(a + 2) + 1] = fl[(a + 2) + 1] BY <1>3, <2>2, <2>3
    <2>6. EventAt(fl, b, k.id, n + 1) BY <1>7, <2>1, <2>4, <2>5 DEF EventAt
    <2> QED BY <1>1, <1>2, <2>6
  <1>8. Stands(new, k) BY <1>1, <1>2, <1>4, <1>5 DEF Stands
  <1> QED BY <1>2, <1>6, <1>7, <1>8 DEF Remembered

LEMMA TornKind ==
  ASSUME NEW page \in PageSet
  PROVE  Torn(page).kind = page.kind
  <1>1. CASE page \in {Blank, Scrap} BY <1>1 DEF Torn, Blank, Scrap
  <1>2. CASE page \in BeginPages BY <1>2 DEF Torn, BeginPages
  <1>3. CASE page \in SlotPages BY <1>3 DEF Torn, SlotPages
  <1>4. CASE page \in EndPages BY <1>4 DEF Torn, EndPages
  <1>5. CASE page \in EntryPages BY <1>5 DEF Torn, EntryPages
  <1>6. CASE page \in HeaderPages BY <1>6 DEF Torn, HeaderPages
  <1> QED BY <1>1, <1>2, <1>3, <1>4, <1>5, <1>6 DEF PageSet

LEMMA CutPage ==
  ASSUME NEW fl \in [Chip -> PageSet], NEW op \in Operations, op.do = "program",
         NEW new \in Interrupted(fl, op), NEW p \in 0 .. Pages - 1
  PROVE  \/ new[p] = fl[p]
         \/ p = op.at /\ (new[p].kind = op.page.kind \/ new[p].kind = "scrap")
  <1>1. PICK at \in Chip, page \in PageSet : op = Program(at, page)
    BY OperationForms DEF Idle
  <1>2. op.at = at /\ op.page = page BY <1>1 DEF Program
  <1>3. new \in Interrupted(fl, Program(at, page)) BY <1>1
  <1>4. p \in Chip BY Sizes DEF Chip
  <1>5. new[p] = fl[p] \/ (p = at /\ new[p] \in {page, Torn(page), Scrap})
    BY <1>3, <1>4, CutProgram
  <1>6. Scrap.kind = "scrap" BY DEF Scrap
  <1> QED BY <1>2, <1>5, <1>6, TornKind

\* An erased page shows nothing of a session.
LEMMA CutSector ==
  ASSUME NEW fl \in [Chip -> PageSet], NEW op \in Operations, op.do = "erase",
         NEW new \in Interrupted(fl, op), NEW p \in 0 .. Pages - 1
  PROVE  \/ new[p] = fl[p]
         \/ op.at <= p /\ p <= op.upto /\ new[p].kind \notin {"event", "tail"}
  <1>1. PICK a \in Nat, b \in Nat :
             a <= b /\ op = [do |-> "erase", at |-> a, upto |-> b] /\ a = op.at /\ b = op.upto
    BY OperationForms DEF Idle, Program
  <1>2. p \in Chip BY Sizes DEF Chip
  <1>3. new[p] \in {fl[p], Blank, Scrap} /\ (p \notin a .. b => new[p] = fl[p])
    BY <1>1, <1>2, CutErase
  <1>4. Blank.kind = "blank" /\ Scrap.kind = "scrap" BY DEF Blank, Scrap
  <1> QED BY <1>1, <1>3, <1>4

\* What a session was written of shows it.
LEMMA BodyPages ==
  ASSUME NEW fl, NEW k, Remembered(fl, k), NEW p \in 0 .. Pages - 1,
         k.begin <= p, p < Slot(k.begin, k.count)
  PROVE  fl[p].ok /\ fl[p].kind \in {"begin", "event", "tail"}
  <1>1. PICK b \in Nat, n \in Nat : b = k.begin /\ n = k.count /\ Stands(fl, k)
    BY Sizes DEF Remembered, Descriptions
  <1>2. CASE p = b BY <1>1, <1>2 DEF Stands, BeginPage
  <1>3. CASE p # b
    <2>1. PICK i \in 0 .. n - 1 : p = b + 1 + 2 * i \/ p = (b + 1 + 2 * i) + 1
      <3>1. b < p /\ p < b + 1 + 2 * n BY <1>1, <1>3 DEF Slot
      <3>2. PICK i \in Int, q \in 0 .. 1 : p - b - 1 = 2 * i + q
        <4> DEFINE d == p - b - 1
        <4>1. d \in Nat BY <3>1
        <4>2. d \div 2 \in Int /\ d % 2 \in 0 .. 1 /\ d = 2 * (d \div 2) + (d % 2) BY <4>1
        <4> QED BY <4>2
      <3>3. i \in 0 .. n - 1 BY <3>1, <3>2
      <3>4. p = b + 1 + 2 * i \/ p = (b + 1 + 2 * i) + 1 BY <3>2
      <3> QED BY <3>3, <3>4
    <2>2. EventAt(fl, b, k.id, i) BY <1>1 DEF Stands
    <2>3. fl[Slot(b, i)] = EventHead(k.id, i) /\ fl[Slot(b, i) + 1] = EventTail(k.id, i)
      BY <2>2 DEF EventAt
    <2> QED BY <2>1, <2>3 DEF Slot, EventHead, EventTail
  <1> QED BY <1>2, <1>3

\* What is written behind every session of the directory takes nothing from one of them.
LEMMA StoredSpared ==
  ASSUME NEW fl, NEW new, NEW dir \in SUBSET Finals, NEW k, Remembered(fl, k),
         StoredIn(dir, k), NEW b \in Nat, \A d \in dir : d.end <= b,
         \A p \in 0 .. Pages - 1 : p < b => new[p] = fl[p]
  PROVE  Spares(fl, new, k)
  <1>1. PICK d \in dir : Slot(k.begin, k.count + 1) + 2 <= d.end BY DEF StoredIn
  <1>2. d.end \in Nat /\ d.end <= b BY Sizes DEF Finals, Descriptions
  <1>3. k.begin \in Nat /\ k.count \in Nat BY Sizes DEF Remembered, Descriptions
  <1>4. PICK a \in Nat : a = Slot(k.begin, k.count) /\ Slot(k.begin, k.count + 1) = a + 2
    BY <1>3, SlotIs
  <1>5. a + 4 <= b BY <1>1, <1>2, <1>4
  <1>6. ASSUME NEW p \in 0 .. Pages - 1, new[p] # fl[p]
        PROVE  ~(p < a) /\ p >= a + 4
    BY <1>5, <1>6, Sizes
  <1> QED BY <1>4, <1>6 DEF Spares

\* The recording itself is only added to, and only at its next slot.
LEMMA ActSpared ==
  ASSUME NEW fl \in [Chip -> PageSet], NEW m, StoreOK(fl, m), Running(m),
         OperationOK(fl, m), m.job \in PageJobs, m.job # "reclaim", m.active,
         NEW new \in Interrupted(fl, m.op)
  PROVE  Spares(fl, new, m.act)
  <1>1. /\ m.op \in Operations /\ JobOK(m) /\ m.op.do = "program"
        /\ m.act.begin < NextSlot(m) /\ NextSlot(m) \in Nat
        /\ NextSlot(m) <= FinalSector(m.act) /\ FinalSector(m.act) \in Nat
    BY StoreParts, PagePlace
  <1>2. PICK a \in Nat, f \in Nat :
             a = Slot(m.act.begin, m.act.count) /\ a = NextSlot(m)
             /\ f = FinalSector(m.act) /\ a <= f
    BY <1>1 DEF NextSlot
  <1>3. m.job # "begin" BY <1>1 DEF JobOK
  <1>4. \/ m.op.at \in {a, a + 1}
        \/ m.op.at = f /\ m.op.page.kind = "end"
    BY <1>2, <1>3 DEF OperationOK, PageJobs, Program, EndPage
  <1>5. ASSUME NEW p \in 0 .. Pages - 1, new[p] # fl[p]
        PROVE  /\ ~(p < a)
               /\ new[p].kind \notin {"event", "tail"} \/ p \in {a, a + 1}
    <2>1. p = m.op.at /\ (new[p].kind = m.op.page.kind \/ new[p].kind = "scrap")
      BY <1>1, <1>5, CutPage
    <2> QED BY <1>2, <1>4, <2>1
  <1> QED BY <1>2, <1>5 DEF Spares

\* A release erases what it releases.
LEMMA ReleaseSpares ==
  ASSUME NEW fl \in [Chip -> PageSet], NEW m, StoreOK(fl, m), Running(m), RunSafe(fl, m),
         m.job = "reclaim", NEW new \in Interrupted(fl, m.op),
         NEW k, Remembered(fl, k), StoredIn(m.dir, k)
  PROVE  Spares(fl, new, k)
  <1>1. /\ m.op = Erase(m.reclaim.next, SectorPages) /\ Marked(m.dir, m.reclaim)
        /\ m.op \in Operations /\ Separate(m.dir) /\ m.dir \in SUBSET Finals
    <2>1. Doing(m) = "reclaim" BY DEF Doing, RotationJobs
    <2> QED BY <2>1, StoreParts, RunningParts DEF RunSafe, CoreOK, NoteOK, OperationOK
  <1>2. /\ m.reclaim \in Finals /\ m.reclaim.begin <= m.reclaim.next
        /\ m.reclaim.next < m.reclaim.end
    BY StoreParts DEF ReclaimOK
  <1>3. PICK x \in m.dir : SamePlace(x, m.reclaim) /\ x.confirmed BY <1>1 DEF Marked
  <1>4. PICK d \in m.dir : /\ d.begin = k.begin /\ ~d.confirmed
                           /\ Slot(k.begin, k.count + 1) + 2 <= d.end
    BY DEF StoredIn
  <1>5. ~Overlaps(d, x) BY <1>1, <1>3, <1>4 DEF Separate
  <1>6. m.reclaim.next + SectorPages <= m.reclaim.end
    BY <1>2, SectorSteps DEF Finals
  <1>7. /\ x.begin = m.reclaim.begin /\ x.end = m.reclaim.end
        /\ x.begin \in 0 .. Pages /\ x.end \in 0 .. Pages
        /\ d.begin \in 0 .. Pages /\ d.end \in 0 .. Pages
        /\ m.reclaim.next \in 0 .. Pages
    BY <1>1, <1>2, <1>3 DEF SamePlace, Finals, Descriptions
  <1>8. k.begin \in Nat /\ k.count \in Nat BY Sizes DEF Remembered, Descriptions
  <1>9. PICK a \in Nat : a = Slot(k.begin, k.count) /\ Slot(k.begin, k.count + 1) = a + 2
    BY <1>8, SlotIs
  <1>10. m.op.do = "erase" /\ m.op.at = m.reclaim.next
         /\ m.op.upto = m.reclaim.next + SectorPages - 1
    BY <1>1 DEF Erase
  <1>11. ASSUME NEW p \in 0 .. Pages - 1, new[p] # fl[p]
         PROVE  /\ ~(k.begin <= p /\ p < a)
                /\ new[p].kind \notin {"event", "tail"}
    <2>1. /\ m.op.at <= p /\ p <= m.op.upto /\ new[p].kind \notin {"event", "tail"}
      BY <1>1, <1>10, <1>11, CutSector
    <2>2. PICK n \in Nat, z \in Nat, u \in Nat, v \in Nat :
               n = m.reclaim.next /\ z = d.end /\ u = x.begin /\ v = x.end
      BY <1>7, Sizes
    <2>3. n <= p /\ p < n + SectorPages /\ n + SectorPages <= v /\ u <= n
          /\ a + 4 <= z
      BY <1>2, <1>4, <1>6, <1>7, <1>9, <1>10, <2>1, <2>2, Sizes
    <2>4. ~(k.begin < v /\ u < z) BY <1>4, <1>5, <2>2 DEF Overlaps
    <2> QED BY <1>8, <2>1, <2>3, <2>4, Sizes
  <1> QED BY <1>9, <1>11 DEF Spares

\* Wherever an operation is cut short, nothing verified is lost.
LEMMA CutRemembers ==
  ASSUME NEW fl, FlashOK(fl), NEW m, StoreOK(fl, m), AreaSafe(fl, m),
         NEW new \in Interrupted(fl, m.op), NEW k, Remembered(fl, k),
         Running(m) => (m.active /\ m.act = k) \/ StoredIn(m.dir, k)
  PROVE  Remembered(new, k)
  <1>1. /\ m.op \in Operations /\ m.job \in Jobs /\ JobOK(m) /\ m \in Stores
        /\ fl \in [Chip -> PageSet]
    BY StoreParts DEF FlashOK
  <1>2. CASE m.op = Idle BY <1>2, IdleChangesNothing
  <1>3. ASSUME m.op # Idle PROVE m.job \notin {"none", "scan"} /\ Mounted(m)
    BY <1>1, <1>3 DEF JobOK, Mounted, Stores
  <1>4. CASE m.op # Idle /\ m.job \in JournalJobs \cup RotationJobs
    <2>1. \A p \in 0 .. Pages - 1 : new[p] = fl[p] BY <1>4, ToldGrows, RotationTold
    <2>2. Spares(fl, new, k) BY <2>1 DEF Spares
    <2> QED BY <2>2, RememberedKept
  <1>5. CASE m.op # Idle /\ m.job \in PageJobs
    <2>1. Running(m) /\ RunSafe(fl, m) /\ OperationOK(fl, m)
      BY <1>3, <1>5 DEF AreaSafe, Running, PageJobs, RunSafe
    <2>2. CASE m.job # "reclaim" /\ m.active /\ m.act = k
      <3>1. Spares(fl, new, m.act) BY <1>1, <1>5, <2>1, <2>2, ActSpared
      <3> QED BY <2>2, <3>1, RememberedKept
    <2>3. CASE m.job # "reclaim" /\ StoredIn(m.dir, k)
      <3>1. /\ m.op.do = "program" /\ m.op.at \in 0 .. Pages - 1 /\ m.op.at >= m.act.begin
            /\ m.act.begin \in 0 .. Pages /\ \A d \in m.dir : d.end <= m.act.begin
        BY <1>5, <2>1, <2>3, PagePlace
      <3>2. PICK b \in Nat : b = m.act.begin BY <3>1, Sizes
      <3>3. \A p \in 0 .. Pages - 1 : p < b => new[p] = fl[p]
        <4> TAKE p \in 0 .. Pages - 1
        <4>1. new[p] = fl[p] \/ p = m.op.at BY <1>1, <3>1, CutPage
        <4> QED BY <3>1, <3>2, <4>1, Sizes
      <3>4. m.dir \in SUBSET Finals /\ \A d \in m.dir : d.end <= b
        BY <1>1, <3>1, <3>2 DEF Stores
      <3>5. Spares(fl, new, k) BY <2>3, <3>3, <3>4, StoredSpared
      <3> QED BY <3>5, RememberedKept
    <2>4. CASE m.job = "reclaim"
      <3>1. StoredIn(m.dir, k) BY <1>1, <2>1, <2>4 DEF JobOK
      <3>2. Spares(fl, new, k) BY <1>1, <2>1, <2>4, <3>1, ReleaseSpares
      <3> QED BY <3>2, RememberedKept
    <2> QED BY <2>1, <2>2, <2>3, <2>4
  <1>6. CASE m.op # Idle /\ m.job = "repair"
    <2>1. RecoverySafe(fl, m) BY <1>6 DEF AreaSafe
    <2>2. ASSUME NEW p \in 0 .. Pages - 1, new[p] # fl[p]
          PROVE  /\ ~fl[p].ok /\ new[p].kind \notin {"event", "tail"}
      <3>1. CASE m.op.do = "program"
        <4>1. p = m.op.at /\ (new[p].kind = m.op.page.kind \/ new[p].kind = "scrap")
          BY <1>1, <2>2, <3>1, CutPage
        <4>2. fl[p] = Blank /\ m.op.page.kind = "end" BY <2>1, <3>1, <4>1 DEF RecoverySafe
        <4> QED BY <4>1, <4>2 DEF Blank
      <3>2. CASE m.op.do = "erase"
        <4>1. /\ m.op.at <= p /\ p <= m.op.upto /\ new[p].kind \notin {"event", "tail"}
          BY <1>1, <2>2, <3>2, CutSector
        <4>2. m.op.at \in Nat /\ m.op.upto \in Nat
          BY <1>1, <3>2, OperationForms DEF Idle, Program
        <4>3. p \in m.op.at .. m.op.upto BY <4>1, <4>2
        <4> QED BY <2>1, <3>2, <4>1, <4>3 DEF RecoverySafe
      <3> QED BY <1>1, <1>6, <3>1, <3>2, OperationForms
    <2>3. Spares(fl, new, k) BY <2>2, BodyPages DEF Spares
    <2> QED BY <2>3, RememberedKept
  <1> QED BY <1>1, <1>2, <1>3, <1>4, <1>5, <1>6 DEF Jobs

\* What RAM holds of a session that is kept is not on its way out.
LEMMA KeptStays ==
  ASSUME NEW fl, NEW m, StoreOK(fl, m), Running(m), OperationOK(fl, m),
         NEW s, NEW r, KeptInRam(m, s, r), NEW id \in Kept(s, r), s[id].id = id,
         NEW d \in m.dir, d.id = id
  PROVE  ~d.confirmed /\ d.owner = s[id].owner
  <1>1. Separate(m.dir) /\ m \in Stores BY RunningParts
  <1>2. CASE StoredIn(m.dir, s[id])
    <2>1. PICK x \in m.dir : x.id = id /\ x.owner = s[id].owner /\ ~x.confirmed
      BY <1>2 DEF StoredIn
    <2>2. x = d BY <1>1, <2>1 DEF Separate
    <2> QED BY <2>1, <2>2
  <1>3. CASE m.active /\ m.act = s[id]
    <2>1. Behind(m) BY <1>3, RunningParts DEF Records
    <2>2. d.id < m.act.id /\ m.act.id = id BY <1>3, <2>1 DEF Behind
    <2>3. id \in Nat BY Sizes DEF Kept, Ids
    <2> QED BY <2>2, <2>3
  <1> QED BY <1>2, <1>3 DEF KeptInRam

LEMMA AgreesUnlisted ==
  ASSUME NEW fl, NEW m, StoreOK(fl, m), Running(m), OperationOK(fl, m),
         NEW s, NEW r, KeptInRam(m, s, r), \A id \in Kept(s, r) : s[id].id = id,
         NEW t, NEW job, AgreesOK(t, m, job)
  PROVE  Unlisted(t, s, r)
  <1> SUFFICES ASSUME NEW id \in Kept(s, r)
               PROVE  ~Known(t.dir, id) /\ (t.purge \in Users => s[id].owner = t.purge)
    BY DEF Unlisted
  <1>1. ASSUME NEW d \in t.dir, d.id = id PROVE FALSE
    <2>1. PICK x \in m.dir : x.id = id /\ x.confirmed
      BY <1>1 DEF AgreesOK, Marked, SamePlace
    <2> QED BY <2>1, KeptStays
  <1>2. t.purge = m.purge \/ t.purge = NoUser BY DEF AgreesOK
  <1>3. m.purge \in Users => s[id].owner = m.purge BY DEF KeptInRam
  <1> QED BY <1>1, <1>2, <1>3, FlashAssumption DEF Known

\* An entry on its way releases nothing that is kept.
LEMMA EntryUnlisted ==
  ASSUME NEW fl, NEW m, StoreOK(fl, m), Running(m), RunSafe(fl, m), m.job \in JournalJobs,
         NEW s, NEW r, KeptInRam(m, s, r), \A id \in Kept(s, r) : s[id].id = id,
         NEW t, NEW u, LedgerOK(fl, t), AgreesOK(t, m, m.job), Grown(t, m.op.page, u)
  PROVE  Unlisted(u, s, r)
  <1>1. /\ Doing(m) = m.job /\ Note(m) = m.op.page /\ OperationOK(fl, m)
        /\ SessionsOK(fl, m.dir) /\ NoteOK(fl, m, m.job, m.op.page) /\ PurgeOK(m, m.job)
        /\ m.op.page \in Entries /\ m.purge \in Owners
    <2>1. m.job \notin RotationJobs BY DEF JournalJobs, RotationJobs
    <2>2. JobOK(m) /\ m \in Stores BY StoreParts
    <2> QED BY <2>1, <2>2 DEF Doing, Note, RunSafe, CoreOK, AreaOK, JobOK, Fits, Stores
  <1>2. PICK job \in JournalJobs, e \in Entries : job = m.job /\ e = m.op.page BY <1>1
  <1>3. /\ SessionsOK(fl, m.dir) /\ NoteOK(fl, m, job, e) /\ PurgeOK(m, job)
        /\ m.purge \in Owners /\ Grown(t, e, u) /\ AgreesOK(t, m, job) /\ LedgerOK(fl, t)
    BY <1>1, <1>2
  <1>4. /\ \A d \in u.dir : \/ Marked(m.dir, d)
                            \/ job \in {"confirm", "discard"} /\ SamePlace(e.s, d)
        /\ u.purge \in {m.purge, NoUser}
    <2>1. \A d \in u.dir : \/ Marked(m.dir, d)
                           \/ job \in {"confirm", "discard"} /\ SamePlace(e.s, d)
      BY ONLY <1>3, LedgerStep
    <2>2. u.purge \in {t.purge, NoUser} \/ (e.type = "purge_begin" /\ u.purge = e.s.owner)
      BY <1>3 DEF Grown
    <2>3. e.type = "purge_begin" => job = "purge_begin" BY <1>3 DEF NoteOK, JournalJobs, Entry
    <2>4. e.type = "purge_begin" => e.s.owner = m.purge BY <1>3, <2>3 DEF NoteOK
    <2>5. t.purge \in {m.purge, NoUser} BY <1>3 DEF AgreesOK
    <2> QED BY <2>1, <2>2, <2>4, <2>5
  <1> SUFFICES ASSUME NEW id \in Kept(s, r)
               PROVE  ~Known(u.dir, id) /\ (u.purge \in Users => s[id].owner = u.purge)
    BY DEF Unlisted
  <1>5. ASSUME NEW d \in u.dir, d.id = id PROVE FALSE
    <2>1. CASE Marked(m.dir, d)
      <3>1. PICK x \in m.dir : x.id = id /\ x.confirmed BY <1>5, <2>1 DEF Marked, SamePlace
      <3> QED BY <1>1, <3>1, KeptStays
    <2>2. CASE job = "confirm" /\ SamePlace(e.s, d)
      <3>1. id = m.reclaim.id /\ m.reclaim.id \in r
        BY <1>1, <1>2, <1>3, <1>5, <2>2 DEF NoteOK, SamePlace, KeptInRam
      <3> QED BY <3>1 DEF Kept
    <2>3. CASE job = "discard" /\ SamePlace(e.s, d)
      <3>1. e.s \in m.dir /\ e.s.id = id /\ e.s = m.reclaim
        BY <1>3, <1>5, <2>3 DEF NoteOK, SamePlace
      <3>2. m.purge \in Users /\ m.reclaim.owner # m.purge BY <1>3, <2>3 DEF PurgeOK
      <3>3. e.s.owner = s[id].owner BY <1>1, <3>1, KeptStays
      <3> QED BY <3>1, <3>2, <3>3 DEF KeptInRam
    <2> QED BY <1>4, <2>1, <2>2, <2>3
  <1>6. m.purge \in Users => s[id].owner = m.purge BY DEF KeptInRam
  <1> QED BY <1>4, <1>5, <1>6, FlashAssumption DEF Known

\* What a boot would be told after a cut releases nothing that is kept.
LEMMA CutUnlisted ==
  ASSUME NEW fl, FlashOK(fl), NEW m, StoreOK(fl, m), AreaSafe(fl, m),
         NEW new \in Interrupted(fl, m.op), NEW s, NEW r, KeptSafe(fl, m, s, r), Tells(new)
  PROVE  Unlisted(Told(new), s, r)
  <1>1. /\ m.op \in Operations /\ m.job \in Jobs /\ JobOK(m) /\ m \in Stores
        /\ fl \in [Chip -> PageSet] /\ m.cur \in 0 .. 1
    BY StoreParts DEF FlashOK
  <1>2. ASSUME Told(new) = Told(fl) PROVE Unlisted(Told(new), s, r)
    BY <1>2 DEF KeptSafe, Tells
  <1>3. CASE m.op = Idle BY <1>2, <1>3, IdleChangesNothing
  <1>4. ASSUME m.op # Idle PROVE m.job \notin {"none", "scan"} /\ Mounted(m)
    BY <1>1, <1>4 DEF JobOK, Mounted, Stores
  <1>5. \A id \in Kept(s, r) : s[id].id = id BY DEF KeptSafe, KeptOnFlash
  <1>6. CASE m.op # Idle /\ m.job \in JournalJobs
    <2>1. Running(m) /\ RunSafe(fl, m) /\ Doing(m) = m.job /\ KeptInRam(m, s, r)
      BY <1>4, <1>6 DEF AreaSafe, Running, Doing, JournalJobs, RotationJobs, KeptSafe
    <2>2. Told(new) = Told(fl) \/ (Tells(fl) /\ Told(new) = Replayed(Told(fl), m.op.page))
      BY <1>6, ToldGrows
    <2>3. CASE Tells(fl) /\ Told(new) = Replayed(Told(fl), m.op.page)
      <3>1. m.op.page \in Entries BY <1>1, <1>6 DEF JobOK, Fits
      <3>2. Told(fl) \in Stores BY <2>3, ToldDirectory
      <3>3. Grown(Told(fl), m.op.page, Told(new))
        BY <2>3, <3>1, <3>2, ReplayedIs DEF Tells
      <3>4. LedgerOK(fl, Told(fl)) /\ AgreesOK(Told(fl), m, m.job)
        BY <2>1, <2>3 DEF AreaSafe, FlashSafe, RunSafe, CoreOK
      <3>5. PICK t, u : t = Told(fl) /\ u = Told(new) OBVIOUS
      <3>6. LedgerOK(fl, t) /\ AgreesOK(t, m, m.job) /\ Grown(t, m.op.page, u)
        BY <3>3, <3>4, <3>5
      <3>7. Unlisted(u, s, r) BY <1>5, <1>6, <2>1, <3>6, EntryUnlisted
      <3> QED BY <3>5, <3>7
    <2> QED BY <1>2, <2>2, <2>3
  <1>7. CASE m.op # Idle /\ m.job \in RotationJobs
    <2>1. CASE m.job # "header" \/ ~Verified(new, m.op)
      BY <1>2, <1>7, <2>1, RotationTold
    <2>2. CASE m.job = "header" /\ Verified(new, m.op)
      <3>1. Running(m) /\ RunSafe(fl, m) /\ KeptInRam(m, s, r) /\ OperationOK(fl, m)
        BY <1>4, <1>7 DEF AreaSafe, Running, RotationJobs, KeptSafe, RunSafe
      <3>2. SnapshotOK(fl, m) /\ SessionsOK(fl, m.dir) /\ PurgeOK(m, Doing(m))
        BY <3>1 DEF RunSafe, CoreOK, AreaOK
      <3>3. Restored(m, Told(new)) BY <2>2, <3>2, HeaderTold
      <3>4. AgreesOK(Told(new), m, Doing(m)) BY <3>2, <3>3, RestoredAgrees
      <3> QED BY <1>5, <3>1, <3>4, AgreesUnlisted
    <2> QED BY <2>1, <2>2
  <1>8. CASE m.op # Idle /\ m.job \in PageJobs \cup {"repair"}
    <2>1. /\ Mounted(m) /\ JournalOK(fl, m.cur) /\ Preserved(fl, new, m.cur)
      BY <1>4, <1>8, StoreParts, CutArea DEF CursorOK
    <2>2. Told(new) = Told(fl) BY <1>1, <2>1, ToldKept
    <2> QED BY <1>2, <2>2
  <1> QED BY <1>1, <1>3, <1>4, <1>6, <1>7, <1>8 DEF Jobs

\* Wherever an operation is cut short, what was kept is kept.
LEMMA KeptCut ==
  ASSUME NEW fl, FlashOK(fl), NEW m, StoreOK(fl, m), AreaSafe(fl, m),
         NEW new \in Interrupted(fl, m.op), NEW s, NEW r, KeptSafe(fl, m, s, r)
  PROVE  /\ s \in [Ids -> Descriptions] /\ r \in SUBSET Ids
         /\ KeptOnFlash(new, s, r)
         /\ Tells(new) => Unlisted(Told(new), s, r)
  <1>1. ASSUME NEW id \in Kept(s, r) PROVE s[id].id = id /\ Remembered(new, s[id])
    <2>1. s[id].id = id /\ Remembered(fl, s[id]) BY DEF KeptSafe, KeptOnFlash
    <2>2. Running(m) => (m.active /\ m.act = s[id]) \/ StoredIn(m.dir, s[id])
      BY DEF KeptSafe, KeptInRam
    <2>3. PICK k : k = s[id] /\ Remembered(fl, k)
                   /\ (Running(m) => (m.active /\ m.act = k) \/ StoredIn(m.dir, k))
      BY <2>1, <2>2
    <2>4. Remembered(new, k) BY <2>3, CutRemembers
    <2> QED BY <2>1, <2>3, <2>4
  <1>2. KeptOnFlash(new, s, r) BY <1>1 DEF KeptOnFlash
  <1>3. Tells(new) => Unlisted(Told(new), s, r) BY CutUnlisted
  <1> QED BY <1>2, <1>3 DEF KeptSafe

\* The recording of a store at rest, with all the events that are committed.
LEMMA ActRemembered ==
  ASSUME NEW fl, NEW m, StoreOK(fl, m), Running(m), RunSafe(fl, m), m.active, m.job = "none"
  PROVE  Remembered(fl, m.act)
  <1>1. Doing(m) = "none" /\ OperationOK(fl, m) /\ CoreOK(fl, m, "none", Note(m))
    BY DEF Doing, RotationJobs, RunSafe
  <1>2. AreaOK(fl, m, "none") /\ RecordingStands(fl, m, "none") BY <1>1 DEF CoreOK
  <1>3. Records(m, "none") BY DEF Records
  <1>4. Behind(m) /\ m \in Stores BY <1>1, <1>3, RunningParts
  <1>5. /\ m.act.begin \in 0 .. Pages /\ m.act.count \in Nat /\ NextSlot(m) \in Nat
        /\ m.act.begin < NextSlot(m) /\ NextSlot(m) <= FinalSector(m.act)
        /\ FinalSector(m.act) \in Nat /\ FinalSector(m.act) + SectorPages <= Pages
        /\ \A d \in m.dir : d.end <= m.act.begin
    BY <1>1, <1>3, RecordedAt
  <1>6. PICK b \in Nat, n \in Nat, a \in Nat :
             /\ b = m.act.begin /\ n = m.act.count /\ a = Slot(b, n) /\ a = NextSlot(m)
             /\ b < a /\ a + SectorPages <= Pages
    <2>1. PICK b \in Nat, n \in Nat : b = m.act.begin /\ n = m.act.count BY <1>5, Sizes
    <2>2. PICK f \in Nat : f = FinalSector(m.act) BY <1>5
    <2>3. NextSlot(m) \in Nat /\ NextSlot(m) = Slot(b, n) BY <1>5, <2>1 DEF NextSlot
    <2> QED BY <1>5, <2>1, <2>2, <2>3, Sizes
  <1>7. b < Pages BY <1>6, Sizes
  <1>8. ASSUME EventAt(fl, b, m.act.id, n + 1) PROVE FALSE
    <2>1. Slot(b, n + 1) = a + 2
      <3>1. Slot(b, n + 1) = Slot(b, n) + 2 BY SlotIs
      <3> QED BY <1>6, <3>1
    <2>2. (a + 2) + 2 <= Pages /\ fl[a + 2].kind = "event"
      BY <1>8, <2>1 DEF EventAt, SlotFits, EventHead
    <2>3. a + 2 \in 0 .. Pages - 1 BY <1>6, <2>2, Sizes
    <2>4. fl[a + 2] \in Voids \/ Used(m, "none", a + 2) BY <1>2, <2>3 DEF AreaOK
    <2>5. ~Used(m, "none", a + 2)
      <3>1. \A d \in m.dir : ~Within(a + 2, d)
        <4> TAKE d \in m.dir
        <4>1. d.end \in 0 .. Pages BY <1>4 DEF Stores, Finals, Descriptions
        <4>2. d.end <= b BY <1>5, <1>6
        <4> QED BY <1>6, <4>1, <4>2 DEF Within
      <3>2. Reached(m, "none") = a BY <1>6 DEF Reached
      <3>3. ~(a + 2 < a) BY <1>6
      <3> QED BY <3>1, <3>2, <3>3 DEF Used
    <2> QED BY <2>2, <2>4, <2>5, VoidPages
  <1>9. m.act \in Descriptions BY <1>4 DEF Stores
  <1>10. Stands(fl, m.act) /\ Apart(fl, m.act.begin) BY <1>2, <1>3 DEF RecordingStands
  <1> QED BY <1>4, <1>6, <1>7, <1>8, <1>9, <1>10 DEF Remembered, Behind

-----------------------------------------------------------------------------
(* What a step of the store takes along.                                     *)

\* A session that a job is letting go.
Leaving(m, x) ==
    x.id = m.reclaim.id /\ m.job \in {"confirm", "discard", "reclaim", "reclaimed"}

Carries(m, q) ==
    /\ q.active = m.active /\ (m.active => q.act = m.act) /\ q.purge \in {m.purge, NoUser}
    /\ q.nextId = m.nextId /\ Doing(q) # "begin"
    /\ \A x \in m.dir : x \in q.dir \/ Leaving(m, x)
    /\ \A x \in q.dir : Known(m.dir, x.id)
    /\ Doing(q) = "confirm" => Doing(m) = "confirm" /\ q.reclaim = m.reclaim

\* What a job lets go is not kept.
LEMMA LeavingGoes ==
  ASSUME NEW fl, NEW m, StoreOK(fl, m), Running(m), RunSafe(fl, m),
         NEW s, NEW r, KeptInRam(m, s, r), NEW id \in Kept(s, r), s[id].id = id,
         NEW x \in m.dir, x.id = id, Leaving(m, x)
  PROVE  FALSE
  <1>1. /\ Doing(m) = m.job /\ OperationOK(fl, m)
        /\ NoteOK(fl, m, m.job, Note(m)) /\ PurgeOK(m, m.job)
    <2>1. m.job \notin RotationJobs BY DEF Leaving, RotationJobs
    <2> QED BY <2>1 DEF Doing, RunSafe, CoreOK
  <1>2. PICK e : e = Note(m) /\ NoteOK(fl, m, m.job, e) BY <1>1
  <1>3. id = m.reclaim.id BY DEF Leaving
  <1>4. CASE m.job = "confirm"
    <2>1. id \in r BY <1>1, <1>3, <1>4 DEF KeptInRam
    <2> QED BY <2>1 DEF Kept
  <1>5. CASE m.job = "discard"
    <2>1. m.reclaim \in m.dir /\ m.purge \in Users /\ m.reclaim.owner # m.purge
      BY <1>1, <1>2, <1>5 DEF NoteOK, PurgeOK
    <2>2. m.reclaim.owner = s[id].owner BY <1>1, <1>3, <2>1, KeptStays
    <2> QED BY <2>1, <2>2 DEF KeptInRam
  <1>6. CASE m.job \in {"reclaim", "reclaimed"}
    <2>1. PICK d \in m.dir : d.id = id /\ d.confirmed
      BY <1>2, <1>3, <1>6 DEF NoteOK, Marked, SamePlace
    <2> QED BY <1>1, <2>1, KeptStays
  <1> QED BY <1>4, <1>5, <1>6 DEF Leaving

LEMMA CarriedKept ==
  ASSUME NEW fl, NEW m, StoreOK(fl, m), Running(m), RunSafe(fl, m),
         NEW s, NEW r, KeptInRam(m, s, r), \A id \in Kept(s, r) : s[id].id = id,
         NEW q, Carries(m, q)
  PROVE  KeptInRam(q, s, r)
  <1>1. ASSUME NEW id \in Kept(s, r)
        PROVE  /\ (q.active /\ q.act = s[id]) \/ StoredIn(q.dir, s[id])
               /\ q.purge \in Users => s[id].owner = q.purge
    <2>1. /\ (m.active /\ m.act = s[id]) \/ StoredIn(m.dir, s[id])
          /\ m.purge \in Users => s[id].owner = m.purge
      BY DEF KeptInRam
    <2>2. ASSUME StoredIn(m.dir, s[id]) PROVE StoredIn(q.dir, s[id])
      <3>1. PICK x \in m.dir :
                 /\ x.id = s[id].id /\ x.owner = s[id].owner /\ x.begin = s[id].begin
                 /\ x.count \in s[id].count .. s[id].count + 1 /\ ~x.confirmed
                 /\ Slot(s[id].begin, s[id].count + 1) + 2 <= x.end
        BY <2>2 DEF StoredIn
      <3>2. x.id = id BY <3>1
      <3>3. ~Leaving(m, x) BY <3>2, LeavingGoes
      <3>4. x \in q.dir BY <3>3 DEF Carries
      <3> QED BY <3>1, <3>4 DEF StoredIn
    <2>3. (q.active /\ q.act = s[id]) \/ StoredIn(q.dir, s[id])
      BY <2>1, <2>2 DEF Carries
    <2>4. q.purge \in Users => s[id].owner = q.purge
      BY <2>1, FlashAssumption DEF Carries
    <2> QED BY <2>3, <2>4
  <1>2. q.active => s[q.act.id] = q.act BY DEF Carries, KeptInRam
  <1>3. Doing(q) = "confirm" => q.reclaim.id \in r BY DEF Carries, KeptInRam
  <1> QED BY <1>1, <1>2, <1>3 DEF KeptInRam

Holds(m, q) ==
    /\ q.dir = m.dir /\ q.active = m.active /\ q.act = m.act /\ q.purge = m.purge
    /\ q.nextId = m.nextId

LEMMA JournalHolds ==
  ASSUME NEW m \in Stores, NEW e, NEW job \in JournalJobs
  PROVE  LET q == Journal(m, e, job)
         IN  Holds(m, q) /\ Doing(q) = job /\ q.reclaim = m.reclaim
  <1> DEFINE q == Journal(m, e, job)
  <1>1. Holds(m, q) /\ q.reclaim = m.reclaim BY DEF Journal, Holds, Stores
  <1>2. q.job = job \/ (q.job = "rotate" /\ q.resume = job) BY DEF Journal, Stores
  <1> HIDE DEF q
  <1>3. Doing(q) = job BY <1>2 DEF Doing, RotationJobs, JournalJobs
  <1> QED BY <1>1, <1>3 DEF q

LEMMA ReclaimHolds ==
  ASSUME NEW m \in Stores, NEW s \in Finals
  PROVE  Holds(m, StartReclaim(m, s)) /\ Doing(StartReclaim(m, s)) \notin {"confirm", "begin"}
  <1>1. PICK from \in 0 .. Pages : from = IF s.next >= s.begin THEN s.next ELSE s.begin
    BY DEF Finals, Descriptions
  <1>2. PICK t : t = [s EXCEPT !.next = from] OBVIOUS
  <1>3. t \in Finals
    <2>1. Sectored(from) /\ from <= s.end
      BY <1>1, Sizes DEF Finals, Descriptions
    <2>2. t \in Descriptions BY <1>2 DEF Finals, Descriptions
    <2>3. /\ t.id = s.id /\ t.owner = s.owner /\ t.begin = s.begin /\ t.end = s.end
          /\ t.next = from
      BY <1>2 DEF Finals, Descriptions
    <2> QED BY <2>1, <2>2, <2>3 DEF Finals
  <1>4. CASE m.paused /\ ~m.foreign
    <2> DEFINE q == [[m EXCEPT !.reclaim = t] EXCEPT !.pending = FALSE, !.mode = "ready",
                                                     !.job = "none", !.op = Idle]
    <2>1. q = StartReclaim(m, s) BY <1>1, <1>2, <1>4 DEF StartReclaim
    <2>2. Holds(m, q) /\ q.job = "none" BY DEF Stores, Holds
    <2> HIDE DEF q
    <2>3. Doing(q) = "none" BY <2>2 DEF Doing, RotationJobs
    <2> QED BY <2>1, <2>2, <2>3
  <1>5. CASE ~(m.paused /\ ~m.foreign) /\ from = s.end
    <2> DEFINE q == [[m EXCEPT !.reclaim = t] EXCEPT !.pending = TRUE]
               e == Entry("reclaimed", s)
    <2>1. Journal(q, e, "reclaimed") = StartReclaim(m, s)
      BY <1>1, <1>2, <1>5 DEF StartReclaim
    <2>2. Holds(m, q) /\ q \in Stores BY <1>3 DEF Stores, Holds
    <2> HIDE DEF q, e
    <2>3. Holds(q, Journal(q, e, "reclaimed")) /\ Doing(Journal(q, e, "reclaimed")) = "reclaimed"
      BY <2>2, JournalHolds DEF JournalJobs
    <2> QED BY <2>1, <2>2, <2>3 DEF Holds
  <1>6. CASE ~(m.paused /\ ~m.foreign) /\ from # s.end
    <2> DEFINE q == [[m EXCEPT !.reclaim = t] EXCEPT !.pending = TRUE, !.mode = "busy",
                        !.job = "reclaim", !.op = Erase(from, SectorPages)]
    <2>1. q = StartReclaim(m, s) BY <1>1, <1>2, <1>6 DEF StartReclaim
    <2>2. Holds(m, q) /\ q.job = "reclaim" BY DEF Stores, Holds
    <2> HIDE DEF q
    <2>3. Doing(q) = "reclaim" BY <2>2 DEF Doing, RotationJobs
    <2> QED BY <2>1, <2>2, <2>3
  <1> QED BY <1>4, <1>5, <1>6

LEMMA PurgeHolds ==
  ASSUME NEW m \in Stores
  PROVE  Holds(m, StartNextPurge(m)) /\ Doing(StartNextPurge(m)) \notin {"confirm", "begin"}
  <1> DEFINE left == Foreign(m.dir, m.purge)
  <1>1. CASE left = {}
    <2> DEFINE q == [m EXCEPT !.mode = "busy"]
               e == Entry("purge_done", [NoSession EXCEPT !.owner = m.purge])
    <2>1. StartNextPurge(m) = Journal(q, e, "purge_done") BY <1>1 DEF StartNextPurge
    <2>2. Holds(m, q) /\ q \in Stores BY DEF Stores, Holds
    <2> HIDE DEF q, e
    <2>3. /\ Holds(q, Journal(q, e, "purge_done"))
          /\ Doing(Journal(q, e, "purge_done")) = "purge_done"
      BY <2>2, JournalHolds DEF JournalJobs
    <2> QED BY <2>1, <2>2, <2>3 DEF Holds
  <1>2. CASE left # {}
    <2>1. PICK s : s = First(left) OBVIOUS
    <2>2. s \in Finals
      <3>1. left \in SUBSET Finals BY DEF Foreign, Stores
      <3> QED BY <1>2, <2>1, <3>1, FirstIs
    <2> DEFINE q == [[m EXCEPT !.mode = "busy"] EXCEPT !.reclaim = s, !.foreign = TRUE]
               e == Entry("discard", s)
    <2>3. StartNextPurge(m) = Journal(q, e, "discard") BY <1>2, <2>1 DEF StartNextPurge
    <2>4. Holds(m, q) /\ q \in Stores BY <2>2 DEF Stores, Holds
    <2> HIDE DEF q, e
    <2>5. /\ Holds(q, Journal(q, e, "discard"))
          /\ Doing(Journal(q, e, "discard")) = "discard"
      BY <2>4, JournalHolds DEF JournalJobs
    <2> QED BY <2>3, <2>4, <2>5 DEF Holds
  <1> QED BY <1>1, <1>2

LEMMA HeldCarries ==
  ASSUME NEW m, NEW q, Holds(m, q), Doing(q) \notin {"confirm", "begin"}
  PROVE  Carries(m, q)
  BY DEF Carries, Holds, Known

\* An entry is read back: the next page of the journal is the next to be written.
LEMMA LoggedIs ==
  ASSUME NEW fl, NEW m, StoreOK(fl, m), m.job \in JournalJobs
  PROVE  Logged(m) \in Stores /\ Holds(m, Logged(m)) /\ Logged(m).reclaim = m.reclaim
  <1>1. m \in Stores /\ m.next < BankPages BY StoreParts DEF JobOK
  <1>2. m.next + 1 \in 1 .. BankPages BY <1>1, Sizes DEF Stores
  <1> QED BY <1>1, <1>2 DEF Logged, Stores, Holds

LEMMA PlainCarries ==
  ASSUME NEW fl, NEW m, StoreOK(fl, m),
         m.job \in {"begin", "page0", "page1", "checkpoint", "end"}
  PROVE  Carries(m, RuntimeStep(m))
  <1>1. m \in Stores BY StoreParts
  <1>2. CASE m.job = "begin"
    <2>1. PICK e : RuntimeStep(m) = Journal(m, e, "open") BY <1>2 DEF RuntimeStep, BeginDone
    <2>2. "open" \in JournalJobs BY DEF JournalJobs
    <2> QED BY <1>1, <2>1, <2>2, JournalHolds, HeldCarries
  <1>3. CASE m.job = "end"
    <2>1. PICK e : RuntimeStep(m) = Journal(m, e, "final") BY <1>3 DEF RuntimeStep, EndDone
    <2>2. "final" \in JournalJobs BY DEF JournalJobs
    <2> QED BY <1>1, <2>1, <2>2, JournalHolds, HeldCarries
  <1>4. CASE m.job \in {"page0", "page1"}
    <2>1. PICK o, job : /\ RuntimeStep(m) = [m EXCEPT !.job = job, !.op = o]
                        /\ job \in {"page1", "commit"}
      BY <1>4 DEF RuntimeStep, HeadDone, TailDone
    <2>2. PICK q : q = [m EXCEPT !.job = job, !.op = o] OBVIOUS
    <2>3. Holds(m, q) /\ q.job = job BY <1>1, <2>2 DEF Holds, Stores
    <2>4. Doing(q) \notin {"confirm", "begin"} BY <2>1, <2>3 DEF Doing, RotationJobs
    <2> QED BY <2>1, <2>2, <2>3, <2>4, HeldCarries
  <1>5. CASE m.job = "checkpoint"
    <2>1. m.job \in JournalJobs BY <1>5 DEF JournalJobs
    <2>2. PICK q : q = CheckpointDone(m) OBVIOUS
    <2>3. q = [[[m EXCEPT !.checked = m.act.count] EXCEPT !.next = @ + 1]
                 EXCEPT !.job = "none", !.op = Idle]
      BY <2>2 DEF CheckpointDone, Logged, Done
    <2>4. Holds(m, q) /\ q.job = "none" BY <1>1, <2>3 DEF Holds, Stores
    <2>5. Doing(q) \notin {"confirm", "begin"} BY <2>4 DEF Doing, RotationJobs
    <2>6. RuntimeStep(m) = q BY <1>5, <2>2 DEF RuntimeStep
    <2> QED BY <2>4, <2>5, <2>6, HeldCarries
  <1> QED BY <1>2, <1>3, <1>4, <1>5

LEMMA NoticeCarries ==
  ASSUME NEW fl, NEW m, StoreOK(fl, m), m.job \in {"progress", "purge_begin", "purge_done"}
  PROVE  Carries(m, RuntimeStep(m))
  <1>1. m \in Stores /\ m.job \in JournalJobs BY StoreParts DEF JournalJobs
  <1>2. PICK l \in Stores : l = Logged(m) /\ Holds(m, l) BY <1>1, LoggedIs
  <1>3. CASE m.job = "purge_begin"
    <2>1. RuntimeStep(m) = StartNextPurge(l) BY <1>2, <1>3 DEF RuntimeStep
    <2>2. Holds(l, StartNextPurge(l)) /\ Doing(StartNextPurge(l)) \notin {"confirm", "begin"} BY PurgeHolds
    <2>3. Holds(m, StartNextPurge(l)) BY <1>2, <2>2 DEF Holds
    <2> QED BY <2>1, <2>2, <2>3, HeldCarries
  <1>4. CASE m.job = "progress"
    <2>1. PICK q : q = Ready([l EXCEPT !.pending = FALSE]) OBVIOUS
    <2>2. RuntimeStep(m) = q BY <1>2, <1>4, <2>1 DEF RuntimeStep, ProgressDone
    <2>3. Holds(l, q) /\ q.job = "none" BY <2>1 DEF Ready, Stores, Holds
    <2>4. Doing(q) \notin {"confirm", "begin"} BY <2>3 DEF Doing, RotationJobs
    <2>5. Holds(m, q) BY <1>2, <2>3 DEF Holds
    <2> QED BY <2>2, <2>4, <2>5, HeldCarries
  <1>5. CASE m.job = "purge_done"
    <2>1. PICK q : q = Ready([l EXCEPT !.purge = NoUser]) OBVIOUS
    <2>2. RuntimeStep(m) = q BY <1>2, <1>5, <2>1 DEF RuntimeStep, PurgeDone
    <2>3. /\ q.dir = l.dir /\ q.active = l.active /\ q.act = l.act /\ q.purge = NoUser
          /\ q.job = "none" /\ q.nextId = l.nextId
      BY <2>1 DEF Ready, Stores
    <2>4. Doing(q) \notin {"confirm", "begin"} BY <2>3 DEF Doing, RotationJobs
    <2>5. Carries(m, q) BY <1>2, <2>3, <2>4 DEF Holds, Carries, Known
    <2> QED BY <2>2, <2>5
  <1> QED BY <1>3, <1>4, <1>5

LEMMA RotationCarries ==
  ASSUME NEW fl, NEW m, StoreOK(fl, m), m.job \in RotationJobs
  PROVE  Carries(m, RuntimeStep(m))
  <1>1. m \in Stores /\ m.resume \in JournalJobs /\ Doing(m) = m.resume
    BY StoreParts DEF JobOK, Doing
  <1>2. PICK q : q = RuntimeStep(m) OBVIOUS
  <1>3. Holds(m, q) /\ q.reclaim = m.reclaim /\ Doing(q) = m.resume
    <2>1. CASE m.job = "header"
      <3>1. q = HeaderDone(m) BY <1>2, <2>1 DEF RuntimeStep
      <3>2. Holds(m, q) /\ q.reclaim = m.reclaim /\ q.job = m.resume
        BY <1>1, <3>1 DEF HeaderDone, Holds, Stores
      <3> QED BY <1>1, <3>2 DEF Doing, RotationJobs, JournalJobs
    <2>2. CASE m.job \in {"rotate", "snapshot"}
      <3>1. PICK n, g : q = SnapshotNext([m EXCEPT !.gen = g, !.snap = n])
        <4>1. CASE m.job = "rotate" BY <1>2, <2>2, <4>1 DEF RuntimeStep, RotateDone
        <4>2. CASE m.job = "snapshot"
          <5>1. [m EXCEPT !.snap = @ + 1] = [m EXCEPT !.gen = m.gen, !.snap = m.snap + 1]
            BY <1>1 DEF Stores
          <5>2. q = SnapshotNext([m EXCEPT !.snap = @ + 1])
            BY <1>2, <4>2 DEF RuntimeStep, SnapshotDone
          <5> QED BY <5>1, <5>2
        <4> QED BY <2>2, <4>1, <4>2
      <3>2. PICK p : p = [m EXCEPT !.gen = g, !.snap = n] OBVIOUS
      <3>3. PICK o, job : job \in {"snapshot", "header"} /\ q = [p EXCEPT !.op = o, !.job = job]
        BY <3>1, <3>2 DEF SnapshotNext
      <3>4. Holds(m, q) /\ q.reclaim = m.reclaim /\ q.resume = m.resume /\ q.job = job
        BY <1>1, <3>2, <3>3 DEF Holds, Stores
      <3> QED BY <3>3, <3>4 DEF Doing, RotationJobs
    <2> QED BY <2>1, <2>2 DEF RotationJobs
  <1>4. Carries(m, q) BY <1>1, <1>3 DEF Carries, Holds, Known, JournalJobs
  <1> QED BY <1>2, <1>4

LEMMA ConfirmCarries ==
  ASSUME NEW fl, NEW m, StoreOK(fl, m), Running(m), RunSafe(fl, m),
         m.job \in {"confirm", "discard"}
  PROVE  Carries(m, RuntimeStep(m))
  <1>1. m.job \in JournalJobs BY DEF JournalJobs
  <1>2. /\ Base(m) /\ m \in Stores /\ m.reclaim \in Finals /\ NoteOK(fl, m, m.job, m.op.page)
    <2>1. Doing(m) = m.job /\ Note(m) = m.op.page BY DEF Doing, Note, RotationJobs
    <2>2. Purposes(m, m.job) BY <1>1, StoreParts DEF JobOK
    <2> QED BY <2>1, <2>2, StoreParts DEF StoreOK, RunSafe, CoreOK, Purposes, Releases
  <1>3. PICK d \in m.dir : d.id = m.reclaim.id BY <1>2 DEF NoteOK
  <1>4. Known(m.dir, m.reclaim.id) /\ Named(m.dir, m.reclaim.id) = d
    BY <1>2, <1>3, NamedInBase
  <1>5. d \in Finals BY <1>2 DEF Stores
  <1>6. PICK s : s = IF m.job = "confirm" THEN [d EXCEPT !.confirmed = TRUE]
                     ELSE [d EXCEPT !.confirmed = TRUE, !.discard = TRUE, !.next = d.begin]
    OBVIOUS
  <1>7. /\ s \in Descriptions
        /\ s.id = d.id /\ s.owner = d.owner /\ s.begin = d.begin /\ s.end = d.end
        /\ s.next \in {d.next, d.begin}
    BY <1>5, <1>6 DEF Finals, Descriptions
  <1>8. s \in Finals
    <2>1. d.begin <= d.end BY <1>5, Sizes DEF Finals, Descriptions
    <2> QED BY <1>5, <1>7, <2>1 DEF Finals
  <1>9. PICK l \in Stores : l = Logged(m) /\ Holds(m, l) BY <1>1, LoggedIs
  <1>10. PICK p : p = [l EXCEPT !.dir = Replace(@, s)] OBVIOUS
  <1>11. RuntimeStep(m) = StartReclaim(p, s)
    <2>1. CASE m.job = "confirm"
      <3>1. RuntimeStep(m) = ConfirmDone(m) BY <2>1 DEF RuntimeStep
      <3> QED BY <1>4, <1>6, <1>9, <1>10, <2>1, <3>1 DEF ConfirmDone
    <2>2. CASE m.job = "discard"
      <3>1. RuntimeStep(m) = DiscardDone(m) BY <2>2 DEF RuntimeStep
      <3>2. s = [d EXCEPT !.confirmed = TRUE, !.discard = TRUE, !.next = d.begin] BY <1>6, <2>2
      <3>3. Known(l.dir, s.id) BY <1>3, <1>4, <1>7, <1>9 DEF Holds
      <3>4. p = [l EXCEPT !.dir = IF Known(@, s.id) THEN Replace(@, s) ELSE @]
        BY <1>10, <3>3
      <3> QED BY <1>4, <1>9, <3>1, <3>2, <3>4 DEF DiscardDone
    <2> QED BY <2>1, <2>2
  <1>12. /\ p \in Stores /\ p.dir = Replace(m.dir, s) /\ p.active = m.active
         /\ p.act = m.act /\ p.purge = m.purge /\ p.nextId = m.nextId
    <2>1. Replace(l.dir, s) \in SUBSET Finals BY <1>8 DEF Replace, Stores
    <2> QED BY <1>9, <1>10, <2>1 DEF Stores, Holds
  <1>13. PICK q : /\ q = StartReclaim(p, s) /\ Holds(p, q) /\ Doing(q) \notin {"confirm", "begin"}
    BY <1>8, <1>12, ReclaimHolds
  <1>14. \A x \in m.dir : x \in q.dir \/ Leaving(m, x)
    BY <1>3, <1>7, <1>12, <1>13 DEF Holds, Leaving, Replace
  <1>15. \A x \in q.dir : Known(m.dir, x.id)
    BY <1>3, <1>7, <1>12, <1>13 DEF Holds, Known, Replace
  <1>16. Carries(m, q) BY <1>12, <1>13, <1>14, <1>15 DEF Carries, Holds
  <1> QED BY <1>11, <1>13, <1>16

LEMMA ReclaimedCarries ==
  ASSUME NEW fl, NEW m, StoreOK(fl, m), m.job = "reclaimed"
  PROVE  Carries(m, RuntimeStep(m))
  <1>1. m \in Stores /\ m.job \in JournalJobs BY StoreParts DEF JournalJobs
  <1>2. PICK l \in Stores : l = Logged(m) /\ Holds(m, l) /\ l.reclaim = m.reclaim
    BY <1>1, LoggedIs
  <1>3. PICK left : left = {d \in m.dir : d.id # m.reclaim.id} OBVIOUS
  <1>4. PICK p : p = [l EXCEPT !.pending = FALSE, !.foreign = FALSE, !.tomb = m.reclaim,
                               !.dir = left, !.head = MaxEnd(left)]
    OBVIOUS
  <1>5. left \in SUBSET Finals BY <1>1, <1>3 DEF Stores
  <1>6. MaxEnd(left) \in 0 .. Pages BY <1>5, MaxEndIs
  <1>7. /\ p \in Stores /\ p.dir = left /\ p.active = m.active /\ p.act = m.act
        /\ p.purge = m.purge /\ p.nextId = m.nextId
    BY <1>1, <1>2, <1>4, <1>5, <1>6 DEF Stores, Holds
  <1>8. RuntimeStep(m) = IF m.foreign THEN StartNextPurge(p) ELSE Ready(p)
    BY <1>2, <1>3, <1>4 DEF RuntimeStep, ReclaimedDone
  <1>9. PICK q : q = RuntimeStep(m) /\ Holds(p, q) /\ Doing(q) \notin {"confirm", "begin"}
    <2>1. CASE m.foreign BY <1>7, <1>8, <2>1, PurgeHolds
    <2>2. CASE ~m.foreign
      <3>1. PICK q : q = Ready(p) OBVIOUS
      <3>2. Holds(p, q) /\ q.job = "none" BY <1>7, <3>1 DEF Ready, Stores, Holds
      <3>3. Doing(q) \notin {"confirm", "begin"} BY <3>2 DEF Doing, RotationJobs
      <3> QED BY <1>8, <2>2, <3>1, <3>2, <3>3
    <2> QED BY <2>1, <2>2
  <1>10. \A x \in m.dir : x \in q.dir \/ Leaving(m, x)
    BY <1>3, <1>7, <1>9 DEF Holds, Leaving
  <1>11. \A x \in q.dir : Known(m.dir, x.id) BY <1>3, <1>7, <1>9 DEF Holds, Known
  <1>12. Carries(m, q) BY <1>7, <1>9, <1>10, <1>11 DEF Carries, Holds
  <1> QED BY <1>9, <1>12

LEMMA SectorCarries ==
  ASSUME NEW fl, NEW m, StoreOK(fl, m), Running(m), RunSafe(fl, m), m.job = "reclaim"
  PROVE  Carries(m, RuntimeStep(m))
  <1>1. Base(m) /\ m \in Stores BY StoreParts DEF StoreOK
  <1>2. PICK x \in m.dir : x.id = m.reclaim.id
    <2>1. Doing(m) = "reclaim" BY DEF Doing, RotationJobs
    <2>2. Marked(m.dir, m.reclaim) BY <2>1 DEF RunSafe, CoreOK, NoteOK
    <2> QED BY <2>2 DEF Marked, SamePlace
  <1>3. Known(m.dir, m.reclaim.id) /\ Named(m.dir, m.reclaim.id) = x
    BY <1>1, <1>2, NamedInBase
  <1>4. /\ m.reclaim \in Finals /\ m.reclaim.begin <= m.reclaim.next
        /\ m.reclaim.next < m.reclaim.end
        /\ x.begin = m.reclaim.begin /\ x.end = m.reclaim.end
    BY <1>2, StoreParts DEF ReclaimOK
  <1>5. PICK n \in 0 .. Pages :
             n = m.reclaim.next + SectorPages /\ Sectored(n) /\ n <= m.reclaim.end
    BY <1>4, SectorSteps DEF Finals, Descriptions
  <1>6. PICK s : s = [m.reclaim EXCEPT !.next = @ + SectorPages] OBVIOUS
  <1>7. s = [m.reclaim EXCEPT !.next = n]
    BY <1>4, <1>5, <1>6 DEF Finals, Descriptions
  <1>8. s.id = m.reclaim.id /\ s.next = n BY <1>4, <1>7 DEF Finals, Descriptions
  <1>9. PICK y : y = [x EXCEPT !.next = n] OBVIOUS
  <1>10. x \in Finals BY <1>1, <1>2 DEF Stores
  <1>11. y \in Finals /\ y.id = x.id
    <2>1. y \in Descriptions BY <1>9, <1>10 DEF Finals, Descriptions
    <2>2. /\ y.id = x.id /\ y.owner = x.owner /\ y.begin = x.begin /\ y.end = x.end
          /\ y.next = n
      BY <1>9, <1>10 DEF Finals, Descriptions
    <2> QED BY <1>4, <1>5, <1>10, <2>1, <2>2 DEF Finals
  <1>12. s \in Finals
    <2>1. s \in Descriptions BY <1>4, <1>7 DEF Finals, Descriptions
    <2>2. /\ s.id = m.reclaim.id /\ s.owner = m.reclaim.owner /\ s.begin = m.reclaim.begin
          /\ s.end = m.reclaim.end /\ s.next = n
      BY <1>4, <1>7 DEF Finals, Descriptions
    <2> QED BY <1>4, <1>5, <2>1, <2>2 DEF Finals
  <1>13. PICK p : p = [m EXCEPT !.reclaim = s, !.dir = Replace(@, y)] OBVIOUS
  <1>14. /\ p \in Stores /\ p.dir = Replace(m.dir, y) /\ p.active = m.active
         /\ p.act = m.act /\ p.purge = m.purge /\ p.job = "reclaim" /\ p.nextId = m.nextId
    <2>1. Replace(m.dir, y) \in SUBSET Finals BY <1>1, <1>11 DEF Replace, Stores
    <2> QED BY <1>1, <1>12, <1>13, <2>1 DEF Stores
  <1>15. RuntimeStep(m) = IF m.paused /\ ~m.foreign
                          THEN Journal(p, Entry("progress", s), "progress")
                          ELSE IF Unfinished(s) THEN [p EXCEPT !.op = Erase(s.next, SectorPages)]
                          ELSE Journal(p, Entry("reclaimed", s), "reclaimed")
    <2>1. RuntimeStep(m) = SectorReclaimed(m) BY DEF RuntimeStep
    <2>2. y = [Named(m.dir, s.id) EXCEPT !.next = s.next] /\ Known(m.dir, s.id)
      BY <1>3, <1>8, <1>9
    <2> QED BY <1>6, <1>13, <2>1, <2>2 DEF SectorReclaimed
  <1>16. PICK q : q = RuntimeStep(m) /\ Holds(p, q) /\ Doing(q) \notin {"confirm", "begin"}
    <2>1. CASE m.paused /\ ~m.foreign
      <3>1. "progress" \in JournalJobs BY DEF JournalJobs
      <3> QED BY <1>14, <1>15, <2>1, <3>1, JournalHolds
    <2>2. CASE ~(m.paused /\ ~m.foreign) /\ ~Unfinished(s)
      <3>1. "reclaimed" \in JournalJobs BY DEF JournalJobs
      <3> QED BY <1>14, <1>15, <2>2, <3>1, JournalHolds
    <2>3. CASE ~(m.paused /\ ~m.foreign) /\ Unfinished(s)
      <3>1. PICK q : q = [p EXCEPT !.op = Erase(s.next, SectorPages)] OBVIOUS
      <3>2. Holds(p, q) /\ q.job = "reclaim" BY <1>14, <3>1 DEF Holds, Stores
      <3>3. Doing(q) \notin {"confirm", "begin"} BY <3>2 DEF Doing, RotationJobs
      <3> QED BY <1>15, <2>3, <3>1, <3>2, <3>3
    <2> QED BY <2>1, <2>2, <2>3
  <1>17. \A z \in m.dir : z \in q.dir \/ Leaving(m, z)
    BY <1>2, <1>11, <1>14, <1>16 DEF Holds, Leaving, Replace
  <1>18. \A z \in q.dir : Known(m.dir, z.id)
    BY <1>2, <1>11, <1>14, <1>16 DEF Holds, Known, Replace
  <1>19. Carries(m, q) BY <1>14, <1>16, <1>17, <1>18 DEF Carries, Holds
  <1> QED BY <1>16, <1>19

\* The session that was recorded takes its place in the directory.
LEMMA FinalKeeps ==
  ASSUME NEW fl, NEW m, StoreOK(fl, m), Running(m), RunSafe(fl, m), m.job = "final",
         NEW s, NEW r, KeptInRam(m, s, r), NEW q, q = RuntimeStep(m), Running(q)
  PROVE  KeptInRam(q, s, r)
  <1>1. m.job \in JournalJobs /\ Doing(m) = "final" /\ OperationOK(fl, m) /\ m.active
    <2>1. m.job \in JournalJobs /\ Doing(m) = "final" BY DEF JournalJobs, Doing, RotationJobs
    <2>2. Purposes(m, "final") BY <2>1, StoreParts DEF JobOK
    <2> QED BY <2>1, <2>2 DEF RunSafe, Purposes
  <1>2. m \in Stores BY StoreParts
  <1>3. PICK l \in Stores : l = Logged(m) /\ Holds(m, l) BY <1>1, LoggedIs
  <1>4. PICK x : x = FinalInfo(m.act) OBVIOUS
  <1>5. q = [Ready(l) EXCEPT !.dir = @ \cup {x}, !.head = x.end, !.active = FALSE]
    <2>1. q = FinalDone(m) BY DEF RuntimeStep
    <2>2. q # Failed BY DEF Failed, Off, Running, Mounted
    <2> QED BY <1>3, <1>4, <2>1, <2>2 DEF FinalDone
  <1>6. PICK p : p = Ready(l) /\ p \in Stores /\ Holds(l, p) /\ p.job = "none"
    <2>1. Idle \in Operations /\ "none" \in Jobs BY NothingOK DEF Jobs
    <2>2. PICK p : p = Ready(l) OBVIOUS
    <2>3. p \in Stores /\ Holds(l, p) /\ p.job = "none"
      BY <2>1, <2>2 DEF Ready, Stores, Holds
    <2> QED BY <2>2, <2>3
  <1>7. /\ q.dir = m.dir \cup {x} /\ q.active = FALSE /\ q.purge = m.purge /\ q.job = "none"
    BY <1>3, <1>5, <1>6 DEF Stores, Holds
  <1>8. StoredIn(q.dir, m.act)
    <2>1. /\ m.act.begin \in 0 .. Pages /\ m.act.count \in Nat /\ NextSlot(m) \in Nat
          /\ NextSlot(m) <= FinalSector(m.act) /\ FinalSector(m.act) \in Nat
      BY <1>1, RecordedAt DEF Records
    <2>2. PICK b \in Nat, n \in Nat, f \in Nat :
               b = m.act.begin /\ n = m.act.count /\ f = FinalSector(m.act)
      BY <2>1, Sizes
    <2>3. Slot(b, n) \in Nat /\ Slot(b, n + 1) = Slot(b, n) + 2 /\ Slot(b, n) <= f
      BY <2>1, <2>2, SlotIs DEF NextSlot
    <2>4. /\ x.id = m.act.id /\ x.owner = m.act.owner /\ x.begin = b /\ x.count = n
          /\ ~x.confirmed /\ x.end = f + SectorPages
      BY <1>4, <2>2 DEF FinalInfo, ActiveInfo, Session
    <2>5. Slot(b, n + 1) + 2 <= x.end BY <2>3, <2>4, Sizes
    <2>6. n \in n .. n + 1 OBVIOUS
    <2> QED BY <1>7, <2>2, <2>4, <2>5, <2>6 DEF StoredIn
  <1>9. ASSUME NEW id \in Kept(s, r)
        PROVE  StoredIn(q.dir, s[id]) /\ (q.purge \in Users => s[id].owner = q.purge)
    <2>1. /\ (m.active /\ m.act = s[id]) \/ StoredIn(m.dir, s[id])
          /\ m.purge \in Users => s[id].owner = m.purge
      BY DEF KeptInRam
    <2>2. StoredIn(m.dir, s[id]) => StoredIn(q.dir, s[id]) BY <1>7 DEF StoredIn
    <2> QED BY <1>7, <1>8, <2>1, <2>2
  <1>10. Doing(q) \notin {"confirm", "begin"} BY <1>7 DEF Doing, RotationJobs
  <1> QED BY <1>7, <1>9, <1>10 DEF KeptInRam

\* The store at rest takes note of what it has verified.
LEMMA VerifiedKept ==
  ASSUME NEW fl, NEW q, StoreOK(fl, q), Running(q), RunSafe(fl, q), q.active, q.job = "none",
         NEW s \in [Ids -> Descriptions], NEW r \in SUBSET Ids, KeptOnFlash(fl, s, r),
         \A id \in Kept(s, r) : id # q.act.id => StoredIn(q.dir, s[id])
  PROVE  KeptSafe(fl, q, [s EXCEPT ![q.act.id] = q.act], r)
  <1> DEFINE u == [s EXCEPT ![q.act.id] = q.act]
  <1>1. /\ Doing(q) = "none" /\ OperationOK(fl, q) /\ PurgeOK(q, "none")
        /\ Tells(fl) => AgreesOK(Told(fl), q, "none")
    BY DEF Doing, RotationJobs, RunSafe, CoreOK
  <1>2. q.purge \notin Users BY <1>1 DEF PurgeOK, PurgeJobs
  <1>3. Remembered(fl, q.act) BY ActRemembered
  <1>4. q.act \in Descriptions /\ q.act.id \in Ids BY <1>3 DEF Remembered
  <1>5. u \in [Ids -> Descriptions] /\ u[q.act.id] = q.act
        /\ \A id \in Ids : id # q.act.id => u[id] = s[id]
    BY <1>4
  <1> HIDE DEF u
  <1>6. \A id \in Kept(u, r) : id # q.act.id => id \in Kept(s, r) /\ u[id] = s[id]
    BY <1>5 DEF Kept
  <1>7. \A id \in Kept(u, r) : u[id].id = id /\ Remembered(fl, u[id])
    BY <1>3, <1>5, <1>6 DEF KeptOnFlash
  <1>8. KeptInRam(q, u, r) BY <1>1, <1>2, <1>5, <1>6 DEF KeptInRam
  <1>9. Tells(fl) => Unlisted(Told(fl), u, r)
    BY <1>1, <1>7, <1>8, AgreesUnlisted
  <1> QED BY <1>5, <1>7, <1>8, <1>9 DEF KeptSafe, KeptOnFlash, u

LEMMA OpenKeeps ==
  ASSUME NEW fl, NEW m, StoreOK(fl, m), Running(m), m.job \in {"open", "commit"},
         NEW s, NEW r, KeptInRam(m, s, r), \A id \in Kept(s, r) : s[id].id = id,
         NEW q, q = RuntimeStep(m)
  PROVE  /\ q.active /\ q.job = "none"
         /\ \A id \in Kept(s, r) : id # q.act.id => StoredIn(q.dir, s[id])
  <1>1. m \in Stores /\ JobOK(m) BY StoreParts
  <1>2. q.active /\ q.job = "none" /\ q.act.id = m.act.id /\ q.dir = m.dir
    <2>1. CASE m.job = "open"
      <3>1. PICK l \in Stores : l = Logged(m) /\ Holds(m, l)
        BY <2>1, LoggedIs DEF JournalJobs
      <3>2. q = [Ready(l) EXCEPT !.active = TRUE, !.checked = 0]
        BY <2>1, <3>1 DEF RuntimeStep, OpenDone
      <3> QED BY <3>1, <3>2 DEF Ready, Stores, Holds
    <2>2. CASE m.job = "commit"
      <3>1. m.active BY <1>1, <2>2 DEF JobOK
      <3>2. q = [[m EXCEPT !.act.count = @ + 1] EXCEPT !.job = "none", !.op = Idle]
        BY <2>2 DEF RuntimeStep, CommitDone, Done
      <3> QED BY <1>1, <3>1, <3>2 DEF Stores, Descriptions
    <2> QED BY <2>1, <2>2
  <1>3. ASSUME NEW id \in Kept(s, r), id # q.act.id PROVE StoredIn(q.dir, s[id])
    <2>1. (m.active /\ m.act = s[id]) \/ StoredIn(m.dir, s[id]) BY DEF KeptInRam
    <2>2. m.act # s[id] BY <1>2, <1>3
    <2> QED BY <1>2, <2>1, <2>2
  <1> QED BY <1>2, <1>3

\* Every job that goes on keeps what was kept.
LEMMA RuntimeKeeps ==
  ASSUME NEW fl, NEW m, StoreOK(fl, m), Running(m), RunSafe(fl, m), m.op # Idle,
         m.job \notin {"open", "commit"},
         NEW s, NEW r, KeptInRam(m, s, r), \A id \in Kept(s, r) : s[id].id = id,
         NEW q, q = RuntimeStep(m), Running(q)
  PROVE  KeptInRam(q, s, r)
  <1>1. m.job \in Jobs \ {"none", "scan", "repair"} BY StoreParts DEF JobOK, Running
  <1>2. CASE m.job = "final" BY <1>2, FinalKeeps
  <1>3. ASSUME Carries(m, q) PROVE KeptInRam(q, s, r) BY <1>3, CarriedKept
  <1>4. CASE m.job \in {"begin", "page0", "page1", "checkpoint", "end"}
    BY <1>3, <1>4, PlainCarries
  <1>5. CASE m.job \in {"progress", "purge_begin", "purge_done"} BY <1>3, <1>5, NoticeCarries
  <1>6. CASE m.job \in RotationJobs BY <1>3, <1>6, RotationCarries
  <1>7. CASE m.job \in {"confirm", "discard"} BY <1>3, <1>7, ConfirmCarries
  <1>8. CASE m.job = "reclaimed" BY <1>3, <1>8, ReclaimedCarries
  <1>9. CASE m.job = "reclaim" BY <1>3, <1>9, SectorCarries
  <1> QED BY <1>1, <1>2, <1>4, <1>5, <1>6, <1>7, <1>8, <1>9
          DEF Jobs, JournalJobs, RotationJobs, PageJobs

LEMMA StepKeeps ==
  ASSUME NEW fl, FlashOK(fl), NEW m, StoreOK(fl, m), AreaSafe(fl, m), m.op # Idle,
         NEW s, NEW r, KeptSafe(fl, m, s, r), NEW new \in Interrupted(fl, m.op), NEW q,
         q = IF ~Verified(new, m.op) THEN Failed
             ELSE IF m.mode = "recovering" THEN RecoveryStep(m) ELSE RuntimeStep(m),
         StoreOK(new, q), AreaSafe(new, q), NEW u,
         u = IF m.job \in {"open", "commit"} /\ q.active
             THEN [s EXCEPT ![q.act.id] = q.act] ELSE s
  PROVE  KeptSafe(new, q, u, r)
  <1>1. m.job \in Jobs /\ JobOK(m) /\ m \in Stores BY StoreParts
  <1>2. m.job \notin {"none", "scan"} /\ Mounted(m) BY <1>1 DEF JobOK, Mounted, Stores
  <1>3. /\ s \in [Ids -> Descriptions] /\ r \in SUBSET Ids
        /\ KeptOnFlash(new, s, r) /\ (Tells(new) => Unlisted(Told(new), s, r))
    BY KeptCut
  <1>4. CASE ~Running(q)
    <2>1. u = s
      <3>1. Failed.active = FALSE BY DEF Failed, Off
      <3>2. CASE q = Failed BY <3>1, <3>2
      <3>3. CASE q # Failed /\ m.mode = "recovering"
        <4>1. m.job = "repair" BY <3>3 DEF RecoveryStep
        <4> QED BY <4>1
      <3>4. CASE q # Failed /\ m.mode # "recovering"
        <4>1. CASE m.job \in {"open", "commit"}
          <5>1. Running(m) /\ KeptInRam(m, s, r) /\ q = RuntimeStep(m)
                /\ \A id \in Kept(s, r) : s[id].id = id
            BY <1>2, <3>4, <4>1 DEF Running, KeptSafe, KeptOnFlash
          <5>2. q.active /\ q.job = "none" BY <4>1, <5>1, OpenKeeps
          <5>3. JobOK(q) /\ q \in Stores BY StoreParts
          <5> QED BY <1>4, <5>2, <5>3 DEF JobOK, Running, Mounted, Stores
        <4>2. CASE m.job \notin {"open", "commit"} BY <4>2
        <4> QED BY <4>1, <4>2
      <3> QED BY <3>2, <3>3, <3>4
    <2> QED BY <1>3, <1>4, <2>1 DEF KeptSafe
  <1>5. CASE Running(q)
    <2>1. q # Failed BY <1>5 DEF Running, Mounted, Failed, Off
    <2>2. m.mode # "recovering"
      <3>1. ASSUME m.job = "repair" PROVE RecoveryStep(m).job = "scan"
        BY <1>1, <3>1 DEF RecoveryStep, RepairDone, Stores
      <3> QED BY <1>5, <2>1, <3>1 DEF RecoveryStep, Running
    <2>3. q = RuntimeStep(m) /\ Running(m) BY <1>1, <1>2, <2>1, <2>2 DEF Running, JobOK
    <2>4. RunSafe(fl, m) /\ KeptInRam(m, s, r) /\ RunSafe(new, q)
      BY <1>5, <2>3 DEF AreaSafe, KeptSafe
    <2>5. \A id \in Kept(s, r) : s[id].id = id BY DEF KeptSafe, KeptOnFlash
    <2>6. CASE m.job \in {"open", "commit"}
      <3>1. /\ q.active /\ q.job = "none"
            /\ \A id \in Kept(s, r) : id # q.act.id => StoredIn(q.dir, s[id])
        BY <2>3, <2>4, <2>5, <2>6, OpenKeeps
      <3>2. KeptSafe(new, q, [s EXCEPT ![q.act.id] = q.act], r)
        BY <1>3, <1>5, <2>4, <3>1, VerifiedKept
      <3> QED BY <2>6, <3>1, <3>2
    <2>7. CASE m.job \notin {"open", "commit"}
      <3>1. KeptInRam(q, s, r) BY <1>5, <2>3, <2>4, <2>5, <2>7, RuntimeKeeps
      <3> QED BY <1>3, <2>7, <3>1 DEF KeptSafe
    <2> QED BY <2>6, <2>7
  <1> QED BY <1>4, <1>5

-----------------------------------------------------------------------------
(* What a call changes of it.                                                *)

LEMMA CallKeeps ==
  ASSUME NEW fl, NEW m, StoreOK(fl, m), Running(m), AreaSafe(fl, m),
         NEW s, NEW r, KeptSafe(fl, m, s, r), NEW q, Carries(m, q)
  PROVE  KeptSafe(fl, q, s, r)
  <1>1. RunSafe(fl, m) /\ KeptInRam(m, s, r) BY DEF AreaSafe, KeptSafe
  <1>2. \A id \in Kept(s, r) : s[id].id = id BY DEF KeptSafe, KeptOnFlash
  <1>3. KeptInRam(q, s, r) BY <1>1, <1>2, CarriedKept
  <1> QED BY <1>3 DEF KeptSafe

\* What is released in addition is no longer kept.
LEMMA ReleasedKeeps ==
  ASSUME NEW fl, NEW m, NEW s, NEW r, KeptSafe(fl, m, s, r), NEW X \in SUBSET Ids,
         NEW q, Running(q) => KeptInRam(q, s, r \cup X)
  PROVE  KeptSafe(fl, q, s, r \cup X)
  <1>1. Kept(s, r \cup X) \subseteq Kept(s, r) BY DEF Kept
  <1>2. KeptOnFlash(fl, s, r \cup X) BY <1>1 DEF KeptSafe, KeptOnFlash
  <1>3. Tells(fl) => Unlisted(Told(fl), s, r \cup X) BY <1>1 DEF KeptSafe, Unlisted
  <1> QED BY <1>2, <1>3 DEF KeptSafe

LEMMA ConfirmKeeps ==
  ASSUME NEW fl, NEW m, StoreOK(fl, m), Running(m), ~m.active,
         NEW s, NEW r, KeptSafe(fl, m, s, r), NEW d \in m.dir, NEW x, x = [d EXCEPT !.next = d.begin],
         NEW e, NEW q,
         q = Journal([m EXCEPT !.dir = Replace(@, x), !.foreign = FALSE, !.reclaim = x],
                     e, "confirm")
  PROVE  KeptSafe(fl, q, s, r \cup {x.id})
  <1>1. m \in Stores /\ d \in Finals BY StoreParts DEF Stores
  <1>2. x \in Finals /\ x.id = d.id
    <2>1. x \in Descriptions BY <1>1 DEF Finals, Descriptions
    <2>2. /\ x.id = d.id /\ x.owner = d.owner /\ x.begin = d.begin /\ x.end = d.end
          /\ x.next = d.begin
      BY <1>1 DEF Finals, Descriptions
    <2>3. d.begin <= d.end BY <1>1, Sizes DEF Finals, Descriptions
    <2> QED BY <1>1, <2>1, <2>2, <2>3 DEF Finals
  <1>3. PICK p : p = [m EXCEPT !.dir = Replace(@, x), !.foreign = FALSE, !.reclaim = x]
    OBVIOUS
  <1>4. /\ p \in Stores /\ p.dir = Replace(m.dir, x) /\ ~p.active /\ p.reclaim = x
        /\ p.purge = m.purge
    <2>1. Replace(m.dir, x) \in SUBSET Finals BY <1>1, <1>2 DEF Replace, Stores
    <2> QED BY <1>1, <1>2, <1>3, <2>1 DEF Stores
  <1>5. Holds(p, q) /\ q.reclaim = x
    <2>1. "confirm" \in JournalJobs BY DEF JournalJobs
    <2>2. q = Journal(p, e, "confirm") BY <1>3
    <2>3. p \in Stores /\ p.reclaim = x BY <1>4
    <2> QED BY ONLY <2>1, <2>2, <2>3, JournalHolds
  <1>6. Kept(s, r \cup {x.id}) = Kept(s, r) \ {x.id} BY DEF Kept
  <1>7. ASSUME NEW id \in Kept(s, r), id # x.id
        PROVE  StoredIn(q.dir, s[id]) /\ (q.purge \in Users => s[id].owner = q.purge)
    <2>1. s[id].id = id BY DEF KeptSafe, KeptOnFlash
    <2>2. StoredIn(m.dir, s[id]) /\ (m.purge \in Users => s[id].owner = m.purge)
      BY DEF KeptSafe, KeptInRam
    <2>3. PICK y \in m.dir :
               /\ y.id = s[id].id /\ y.owner = s[id].owner /\ y.begin = s[id].begin
               /\ y.count \in s[id].count .. s[id].count + 1 /\ ~y.confirmed
               /\ Slot(s[id].begin, s[id].count + 1) + 2 <= y.end
      BY <2>2 DEF StoredIn
    <2>4. y \in q.dir BY <1>4, <1>5, <1>7, <2>1, <2>3 DEF Holds, Replace
    <2>5. StoredIn(q.dir, s[id]) BY <2>3, <2>4 DEF StoredIn
    <2> QED BY <1>4, <1>5, <2>2, <2>5 DEF Holds
  <1>8. KeptInRam(q, s, r \cup {x.id})
    BY <1>4, <1>5, <1>6, <1>7 DEF KeptInRam, Holds
  <1>9. {x.id} \in SUBSET Ids BY <1>2 DEF Finals
  <1> QED BY <1>8, <1>9, ReleasedKeeps

LEMMA PurgeKeeps ==
  ASSUME NEW fl, NEW m, StoreOK(fl, m), Running(m), ~m.active,
         NEW s, NEW r, KeptSafe(fl, m, s, r), NEW u \in Users, NEW e, NEW q,
         q = Journal([m EXCEPT !.purge = u, !.mode = "busy"], e, "purge_begin")
  PROVE  KeptSafe(fl, q, s, r \cup {x.id : x \in Foreign(m.dir, u)})
  <1>1. m \in Stores BY StoreParts
  <1>2. PICK X : X = {x.id : x \in Foreign(m.dir, u)} OBVIOUS
  <1>3. X \in SUBSET Ids BY <1>1, <1>2 DEF Foreign, Stores, Finals
  <1>4. PICK p : p = [m EXCEPT !.purge = u, !.mode = "busy"] OBVIOUS
  <1>5. p \in Stores /\ p.dir = m.dir /\ ~p.active /\ p.purge = u
    BY <1>1, <1>4 DEF Stores, Owners
  <1>6. Holds(p, q) /\ Doing(q) = "purge_begin"
    <2>1. "purge_begin" \in JournalJobs BY DEF JournalJobs
    <2> QED BY <1>4, <1>5, <2>1, JournalHolds
  <1>7. ASSUME NEW id \in Kept(s, r \cup X)
        PROVE  StoredIn(q.dir, s[id]) /\ s[id].owner = u
    <2>1. id \in Kept(s, r) /\ id \notin X BY DEF Kept
    <2>2. s[id].id = id BY <2>1 DEF KeptSafe, KeptOnFlash
    <2>3. StoredIn(m.dir, s[id]) BY <2>1 DEF KeptSafe, KeptInRam
    <2>4. PICK y \in m.dir : y.id = s[id].id /\ y.owner = s[id].owner BY <2>3 DEF StoredIn
    <2>5. y.owner = u BY <1>2, <2>1, <2>2, <2>4 DEF Foreign
    <2> QED BY <1>5, <1>6, <2>3, <2>4, <2>5 DEF Holds
  <1>8. KeptInRam(q, s, r \cup X) BY <1>5, <1>6, <1>7 DEF KeptInRam, Holds
  <1>9. KeptSafe(fl, q, s, r \cup X) BY <1>3, <1>8, ReleasedKeeps
  <1> QED BY <1>2, <1>9

-----------------------------------------------------------------------------
(* What a boot finds of a session that is kept.                              *)

LEMMA SlotCovers ==
  ASSUME NEW b \in Nat, NEW n \in Nat, NEW p \in Nat, b < p, p < Slot(b, n)
  PROVE  \E i \in 0 .. n - 1 : p = Slot(b, i) \/ p = Slot(b, i) + 1
  <1>1. b < p /\ p < b + 1 + 2 * n BY DEF Slot
  <1>2. PICK i \in Int, q \in 0 .. 1 : p - b - 1 = 2 * i + q
    <2> DEFINE d == p - b - 1
    <2>1. d \in Nat BY <1>1
    <2>2. d \div 2 \in Int /\ d % 2 \in 0 .. 1 /\ d = 2 * (d \div 2) + (d % 2) BY <2>1
    <2> QED BY <2>2
  <1>3. i \in 0 .. n - 1 BY <1>1, <1>2
  <1>4. p = b + 1 + 2 * i \/ p = (b + 1 + 2 * i) + 1 BY <1>2
  <1> QED BY <1>3, <1>4 DEF Slot

\* Within what is accepted as one session no other begins, unless an event was cut short.
LEMMA FoundPages ==
  ASSUME NEW fl \in [Chip -> PageSet], NEW begin \in Nat, Sectored(begin), begin < Pages,
         fl[begin].kind = "begin", ReadSession(fl, begin).ok,
         NEW s, s = ReadSession(fl, begin).s
  PROVE  /\ Slot(begin, s.count) + SectorPages <= s.end
         /\ \A p \in Nat : begin < p /\ p < s.end /\ fl[p].kind = "begin"
                           => fl[p - 1].kind = "event"
         /\ fl[Slot(begin, s.count) + 2].kind # "event"
  <1> DEFINE id    == fl[begin].id
             n     == EventCount(fl, begin, id)
             a     == Slot(begin, n)
             dirty == DirtySpan(fl, a)
             final == AlignUp(a + dirty)
             last  == final + SectorPages - 1
             ends  == {p \in final .. last : fl[p] # Blank}
             whole == {p \in ends : fl[p].ok}
             free  == (final .. last) \ ends
             t     == [Session(id, fl[begin].owner, begin, last + 1, n) EXCEPT !.next = 0]
  <1>1. /\ \A p \in ends : Legible(fl[p], "end", id)
        /\ dirty > 0 => fl[a].kind = "event"
        /\ \A p \in a + dirty .. final - 1 : fl[p] = Blank
        /\ s = t
    BY DEF ReadSession, Legible
  <1>2. /\ n \in 0 .. Pages /\ \A k \in 0 .. n - 1 : EventAt(fl, begin, id, k)
    BY EventCountIs
  <1> HIDE DEF id, n
  <1>3. a \in Nat /\ begin < a BY <1>2 DEF Slot
  <1>4. dirty \in {0, 2} BY DEF DirtySpan
  <1>5. PICK c \in Nat, d \in {0, 2} : c = a /\ d = dirty /\ begin < c BY <1>3, <1>4
  <1> HIDE DEF a, dirty
  <1>6. c + d \in Nat BY <1>5
  <1>7. PICK f \in Nat : f = final /\ c + d <= f BY <1>5, <1>6, AlignUpIs
  <1> HIDE DEF final
  <1>8. PICK l \in Nat : l = last /\ l + 1 = last + 1 /\ l + 1 = f + SectorPages
    BY <1>7, Sizes
  <1>9. s.end = l + 1 /\ s.count = n
    <2>1. t.end = l + 1 /\ t.count = n BY <1>8 DEF Session
    <2> QED BY <1>1, <2>1
  <1>10. ASSUME NEW p \in Nat, begin < p, p < s.end, fl[p].kind = "begin"
         PROVE  fl[p - 1].kind = "event"
    <2>1. CASE p < c
      <3>1. n \in Nat /\ p < Slot(begin, n) BY <1>2, <1>5, <2>1, Sizes DEF a
      <3>2. PICK i \in 0 .. n - 1 : p = Slot(begin, i) \/ p = Slot(begin, i) + 1
        BY <1>10, <3>1, SlotCovers
      <3>3. EventAt(fl, begin, id, i) BY <1>2
      <3>4. fl[Slot(begin, i)].kind = "event" /\ fl[Slot(begin, i) + 1].kind = "tail"
        BY <3>3 DEF EventAt, EventHead, EventTail
      <3> QED BY <1>10, <3>2, <3>4
    <2>2. CASE c <= p /\ p < c + d
      <3>1. d > 0 /\ fl[c].kind = "event" BY <1>1, <1>5, <2>2
      <3>2. p # c BY <1>10, <3>1
      <3>3. p - 1 = c BY <1>5, <2>2, <3>2
      <3> QED BY <3>1, <3>3
    <2>3. CASE c + d <= p /\ p < f
      <3>1. p \in a + dirty .. final - 1 BY <1>5, <1>7, <2>3
      <3> QED BY <1>1, <1>10, <3>1 DEF Blank
    <2>4. CASE f <= p
      <3>1. p \in final .. last BY <1>7, <1>8, <1>9, <1>10, <2>4
      <3> QED BY <1>1, <1>10, <3>1 DEF Blank, Legible
    <2> QED BY <1>5, <1>7, <2>1, <2>2, <2>3, <2>4
  <1>11. Slot(begin, s.count) + SectorPages <= s.end
    <2>1. Slot(begin, s.count) = c BY <1>5, <1>9 DEF a
    <2>2. c <= f BY <1>5, <1>7
    <2> QED BY <1>5, <1>7, <1>8, <1>9, <2>1, <2>2, Sizes
  <1>12. fl[Slot(begin, s.count) + 2].kind # "event"
    <2>1. Slot(begin, s.count) + 2 = c + 2 BY <1>5, <1>9 DEF a
    <2>2. CASE c + 2 < f
      <3>1. c + 2 \in a + dirty .. final - 1 BY <1>5, <1>7, <2>2
      <3> QED BY <1>1, <2>1, <3>1 DEF Blank
    <2>3. CASE f <= c + 2
      <3>1. c + 2 \in final .. last BY <1>5, <1>7, <1>8, <2>3, Sizes
      <3> QED BY <1>1, <2>1, <3>1 DEF Blank, Legible
    <2> QED BY <1>5, <1>7, <2>2, <2>3
  <1> QED BY <1>10, <1>11, <1>12

\* The walk comes upon every session that is kept and that no entry names.
LEMMA FoundAgain ==
  ASSUME NEW fl \in [Chip -> PageSet], NEW k, Remembered(fl, k), NEW dir, ~Known(dir, k.id),
         NEW w \in WalkResults, WalkOK(fl, dir, 0, w), w.ok
  PROVE  StoredIn(ToSet(w.found), k)
  <1>1. /\ k.begin \in Nat /\ k.begin < Pages /\ k.count \in Nat /\ Sectored(k.begin)
        /\ Stands(fl, k) /\ Apart(fl, k.begin) /\ ~EventAt(fl, k.begin, k.id, k.count + 1)
    BY Sizes DEF Remembered, Descriptions
  <1>2. PICK p \in Nat, c \in Nat : p = k.begin /\ c = k.count BY <1>1
  <1>3. fl[p].kind = "begin" /\ fl[p].ok /\ fl[p].id = k.id /\ fl[p].owner = k.owner
    BY <1>1, <1>2 DEF Stands, BeginPage
  <1>4. p \in 0 * SectorPages .. Pages - 1 BY <1>1, <1>2, Sizes
  <1>5. Seen(fl, dir, ToSet(w.found), p) BY <1>4 DEF WalkOK
  <1>6. PICK x \in ToSet(w.found) : Within(p, x) BY <1>3, <1>5 DEF Seen, Known
  <1>7. x \in Found /\ FoundAt(fl, x)
    <2>1. w.found \in Seq(Found) BY DEF WalkResults
    <2> QED BY <2>1, ToSetIs DEF WalkOK
  <1>8. /\ x.begin \in Nat /\ Sectored(x.begin) /\ x.begin < Pages
        /\ fl[x.begin].kind = "begin" /\ ReadSession(fl, x.begin).ok
        /\ x = ReadSession(fl, x.begin).s
    BY <1>7 DEF FoundAt, Found, Finals, Descriptions
  <1>9. /\ Slot(x.begin, x.count) + SectorPages <= x.end
        /\ \A q \in Nat : x.begin < q /\ q < x.end /\ fl[q].kind = "begin"
                          => fl[q - 1].kind = "event"
    BY <1>8, FoundPages
  <1>10. x.begin = p
    <2> SUFFICES ASSUME x.begin # p PROVE FALSE OBVIOUS
    <2>1. x.begin < p /\ p < x.end BY <1>6, <1>8 DEF Within
    <2>2. p # 0 BY <1>8, <2>1
    <2>3. fl[p - 1].kind = "event" BY <1>3, <1>9, <2>1
    <2> QED BY <1>1, <1>2, <2>2, <2>3 DEF Apart
  <1>11. /\ x.id = k.id /\ x.owner = k.owner /\ ~x.confirmed
         /\ x.count = EventCount(fl, p, k.id)
    <2>1. /\ ~x.confirmed /\ x.id = fl[x.begin].id /\ x.owner = fl[x.begin].owner
          /\ x.count = EventCount(fl, x.begin, fl[x.begin].id)
      <3>1. LET y == ReadSession(fl, x.begin)
            IN  /\ ~y.s.confirmed
                /\ y.s.id = fl[x.begin].id /\ y.s.owner = fl[x.begin].owner
                /\ y.s.count = EventCount(fl, x.begin, fl[x.begin].id)
        BY <1>8, ReadSessionSays
      <3> QED BY <1>8, <3>1
    <2> QED BY <1>3, <1>10, <2>1
  <1>12. PICK n \in Nat : n = x.count BY <1>7 DEF Found, Finals, Descriptions
  <1>13. (\A j \in 0 .. n - 1 : EventAt(fl, p, k.id, j)) /\ ~EventAt(fl, p, k.id, n)
    BY <1>11, <1>12, EventCountIs
  <1>14. n \in c .. c + 1
    <2>1. ~(n < c)
      <3>1. \A j \in 0 .. c - 1 : EventAt(fl, p, k.id, j) BY <1>1, <1>2 DEF Stands
      <3>2. n < c => n \in 0 .. c - 1 OBVIOUS
      <3> QED BY <1>13, <3>1, <3>2
    <2>2. ~(c + 1 < n)
      <3>1. c + 1 < n => c + 1 \in 0 .. n - 1 OBVIOUS
      <3> QED BY <1>1, <1>2, <1>13, <3>1
    <2> QED BY <2>1, <2>2
  <1>15. Slot(p, c + 1) + 2 <= x.end
    <2>1. x.end \in Nat BY <1>7 DEF Found, Finals, Descriptions
    <2>2. Slot(p, n) + SectorPages <= x.end BY <1>9, <1>10, <1>12
    <2>3. Slot(p, c + 1) = p + 3 + 2 * c /\ Slot(p, n) = p + 1 + 2 * n BY DEF Slot
    <2> QED BY <1>14, <2>1, <2>2, <2>3, Sizes
  <1> QED BY <1>2, <1>10, <1>11, <1>12, <1>14, <1>15 DEF StoredIn

LEMMA CompleteHolds ==
  ASSUME NEW m \in Stores, m.pending => m.reclaim \in Finals, MaxEnd(m.dir) \in 0 .. Pages
  PROVE  Holds(m, RecoveryComplete(m)) /\ Doing(RecoveryComplete(m)) \notin {"confirm", "begin"}
  <1>1. PICK m1 : m1 = [m EXCEPT !.head = MaxEnd(m.dir)] OBVIOUS
  <1>2. PICK m2 : m2 = [m1 EXCEPT !.pending = FALSE] OBVIOUS
  <1>3. m1 \in Stores BY <1>1 DEF Stores
  <1>4. m2 \in Stores BY <1>2, <1>3 DEF Stores
  <1>5. Holds(m, m1) /\ m1.reclaim = m.reclaim BY <1>1 DEF Stores, Holds
  <1>6. Holds(m1, m2) BY <1>2, <1>3 DEF Stores, Holds
  <1>7. RecoveryComplete(m) = IF m.pending /\ m.foreign THEN StartReclaim(m1, m.reclaim)
                              ELSE IF m.purge # NoUser THEN StartNextPurge(m2)
                              ELSE Ready(m2)
    BY <1>1, <1>2 DEF RecoveryComplete
  <1>8. CASE m.pending /\ m.foreign
    <2>1. PICK q : q = StartReclaim(m1, m.reclaim) OBVIOUS
    <2>2. Holds(m1, q) /\ Doing(q) \notin {"confirm", "begin"} BY <1>3, <1>8, <2>1, ReclaimHolds
    <2> QED BY <1>5, <1>7, <1>8, <2>1, <2>2 DEF Holds
  <1>9. CASE ~(m.pending /\ m.foreign) /\ m.purge # NoUser
    <2>1. PICK q : q = StartNextPurge(m2) OBVIOUS
    <2>2. Holds(m2, q) /\ Doing(q) \notin {"confirm", "begin"} BY <1>4, <2>1, PurgeHolds
    <2> QED BY <1>5, <1>6, <1>7, <1>9, <2>1, <2>2 DEF Holds
  <1>10. CASE ~(m.pending /\ m.foreign) /\ m.purge = NoUser
    <2>1. PICK q : q = Ready(m2) OBVIOUS
    <2>2. Holds(m2, q) /\ q.job = "none" BY <1>4, <2>1 DEF Ready, Stores, Holds
    <2>3. Doing(q) \notin {"confirm", "begin"} BY <2>2 DEF Doing, RotationJobs
    <2> QED BY <1>5, <1>6, <1>7, <1>10, <2>1, <2>2, <2>3 DEF Holds
  <1> QED BY <1>8, <1>9, <1>10

LEMMA RecoverKeeps ==
  ASSUME NEW fl, FlashOK(fl), NEW m, StoreOK(fl, m), AreaSafe(fl, m), m.job = "scan",
         NEW s, NEW r, KeptSafe(fl, m, s, r),
         NEW w, w = Walk(fl, Claims(m)), NEW c, c = Scanned(m, w),
         NEW n, n = [m EXCEPT !.nextId = c.nextId],
         NEW q, q = IF ~c.ok THEN Failed
                    ELSE IF c.repair # <<>>
                    THEN [n EXCEPT !.op = Head(c.repair), !.job = "repair"]
                    ELSE RecoveryComplete([n EXCEPT !.dir = c.dir])
  PROVE  KeptSafe(fl, q, s, r)
  <1>1. /\ m \in Stores /\ Base(m) /\ PendingOK(m) /\ fl \in [Chip -> PageSet]
        /\ RecoverySafe(fl, m)
    BY StoreParts DEF FlashOK, StoreOK, AreaSafe
  <1>2. CASE ~c.ok
    <2>1. q = Failed BY <1>2
    <2>2. ~Running(q) BY <2>1 DEF Running, Mounted, Failed, Off
    <2> QED BY <2>2 DEF KeptSafe
  <1>3. CASE c.ok /\ c.repair # <<>>
    <2>1. q = [n EXCEPT !.op = Head(c.repair), !.job = "repair"] BY <1>3
    <2>2. q.job = "repair" BY <1>1, <2>1 DEF Stores
    <2>3. ~Running(q) BY <2>2 DEF Running
    <2> QED BY <2>3 DEF KeptSafe
  <1>4. CASE c.ok /\ c.repair = <<>>
    <2>1. /\ Claims(m) = m.dir /\ m.dir \in SUBSET Finals /\ ~m.active
      BY ClaimsAre
    <2>2. w \in WalkResults /\ WalkOK(fl, m.dir, 0, w) BY <1>1, <2>1, WalkGoes, WalkSays
    <2>3. w.ok /\ c.dir = m.dir \cup ToSet(w.found) BY <1>4 DEF Scanned
    <2>4. c.dir \in SUBSET Finals /\ IsFiniteSet(c.dir) /\ c.nextId \in 1 .. IdLimit
      BY <1>1, <1>4, <2>2, ScannedIs
    <2>5. PICK p : p = [n EXCEPT !.dir = c.dir] OBVIOUS
    <2>6. p \in Stores BY <1>1, <2>4, <2>5 DEF Stores
    <2>7. /\ p.dir = c.dir /\ ~p.active /\ p.purge = m.purge /\ p.reclaim = m.reclaim
          /\ p.pending = m.pending
      BY <1>1, <2>1, <2>5 DEF Stores
    <2>8. p.pending => p.reclaim \in Finals BY <1>1, <2>1, <2>7 DEF PendingOK
    <2>9. MaxEnd(p.dir) \in 0 .. Pages BY <2>4, <2>7, MaxEndIs
    <2>10. q = RecoveryComplete(p) BY <1>4, <2>5
    <2>11. Holds(p, q) /\ Doing(q) \notin {"confirm", "begin"} BY <2>6, <2>8, <2>9, <2>10, CompleteHolds
    <2>12. ASSUME NEW id \in Kept(s, r)
           PROVE  StoredIn(q.dir, s[id]) /\ (q.purge \in Users => s[id].owner = q.purge)
      <3>1. s[id].id = id /\ Remembered(fl, s[id]) BY DEF KeptSafe, KeptOnFlash
      <3>2. ~Known(m.dir, id) /\ (m.purge \in Users => s[id].owner = m.purge)
        BY <1>1 DEF RecoverySafe, KeptSafe, Unlisted
      <3>3. PICK k : k = s[id] OBVIOUS
      <3>4. Remembered(fl, k) /\ ~Known(m.dir, k.id) BY <3>1, <3>2, <3>3
      <3>5. StoredIn(ToSet(w.found), k) BY <1>1, <2>2, <2>3, <3>4, FoundAgain
      <3>6. StoredIn(c.dir, k) BY <2>3, <3>5 DEF StoredIn
      <3> QED BY <2>7, <2>11, <3>2, <3>3, <3>6 DEF Holds
    <2>13. KeptInRam(q, s, r) BY <2>7, <2>11, <2>12 DEF KeptInRam, Holds
    <2> QED BY <2>13 DEF KeptSafe
  <1> QED BY <1>2, <1>3, <1>4

-----------------------------------------------------------------------------
(* Nothing that is kept is lost.                                             *)

LEMMA ReplayRests ==
  ASSUME NEW fl, FlashOK(fl)
  PROVE  ~Running(Replay(fl))
  <1>1. PICK k \in 0 .. 1 : JournalOK(fl, k) /\ fl \in [Chip -> PageSet] BY DEF FlashOK
  <1>2. PICK next : Replay(fl) = Failed
                    \/ (Tells(fl) /\ Replay(fl) = [Told(fl) EXCEPT !.next = next])
    BY DEF Replay, Told, Tells
  <1>3. CASE Replay(fl) = Failed BY <1>3 DEF Running, Mounted, Failed, Off
  <1>4. CASE Tells(fl) /\ Replay(fl) = [Told(fl) EXCEPT !.next = next]
    <2>1. ScanOK(fl, k, Stop(fl, k), Told(fl)) BY <1>1, <1>4, ToldIs
    <2>2. PICK t : t = Told(fl) OBVIOUS
    <2>3. t \in Stores /\ t.job = "scan" BY <2>1, <2>2 DEF ScanOK
    <2>4. Replay(fl).job = "scan" BY <1>4, <2>2, <2>3 DEF Stores
    <2> QED BY <2>4 DEF Running
  <1> QED BY <1>2, <1>3, <1>4

LEMMA KeptInit == ASSUME Init PROVE KeptInv
  <1>1. AreaInv BY AreaInit
  <1>2. /\ store = Off /\ saved = [i \in Ids |-> NoSession] /\ released = {}
    BY DEF Init
  <1>3. saved \in [Ids -> Descriptions] BY <1>2, NothingOK
  <1>4. Kept(saved, released) = {} BY <1>2 DEF Kept
  <1>5. ~Running(store) BY <1>2 DEF Running, Mounted, Off
  <1>6. KeptSafe(flash, store, saved, released)
    BY <1>2, <1>3, <1>4, <1>5 DEF KeptSafe, KeptOnFlash, Unlisted
  <1> QED BY <1>1, <1>6 DEF KeptInv

LEMMA KeptNext == ASSUME KeptInv, [Next]_vars PROVE KeptInv'
  <1>1. /\ FlashOK(flash) /\ StoreOK(flash, store) /\ AreaSafe(flash, store) /\ AreaInv
        /\ KeptSafe(flash, store, saved, released)
    BY DEF KeptInv, AreaInv, StoreInv
  <1>2. store \in Stores /\ JobOK(store) BY <1>1, StoreParts
  <1>3. AreaInv' BY <1>1, AreaNext
  <1>4. ASSUME NEW new, NEW q, NEW s, NEW r, flash' = new, store' = q, saved' = s,
               released' = r, KeptSafe(new, q, s, r)
        PROVE  KeptInv'
    BY <1>3, <1>4 DEF KeptInv
  <1>5. ASSUME NEW q, store' = q, UNCHANGED <<flash, saved, released>>,
               KeptSafe(flash, q, saved, released)
        PROVE  KeptInv'
    <2>1. PICK fl, s, r : /\ fl = flash /\ s = saved /\ r = released /\ KeptSafe(fl, q, s, r)
      BY <1>5
    <2>2. flash' = fl /\ saved' = s /\ released' = r BY <1>5, <2>1
    <2> QED BY <1>4, <1>5, <2>1, <2>2
  <1>6. ASSUME NEW q, store' = q, UNCHANGED <<flash, saved, released>>, ~Running(q)
        PROVE  KeptInv'
    BY <1>1, <1>5, <1>6 DEF KeptSafe
  <1>7. ASSUME NEW q, store' = q, UNCHANGED <<flash, saved, released>>, Running(store),
               Carries(store, q)
        PROVE  KeptInv'
    BY <1>1, <1>5, <1>7, CallKeeps
  <1>8. store.active => store.mode \in {"ready", "busy"} BY <1>2 DEF JobOK, Stores
  <1>9. (store.active \/ store.mode = "ready") /\ store.job = "none" => Running(store)
    BY <1>8 DEF Running, Mounted
  <1>10. CASE OperationDone
    <2>1. PICK new, q, s : new = flash' /\ q = store' /\ s = saved' OBVIOUS
    <2> DEFINE m == IF ~Verified(new, store.op) THEN Failed
                    ELSE IF store.mode = "recovering" THEN RecoveryStep(store)
                    ELSE RuntimeStep(store)
    <2>2. /\ store.op # Idle /\ new = Completed(flash, store.op) /\ q = m
          /\ s = IF store.job \in {"open", "commit"} /\ q.active
                 THEN [saved EXCEPT ![q.act.id] = q.act] ELSE saved
          /\ UNCHANGED released
      BY <1>10, <2>1 DEF OperationDone, Do
    <2>3. new \in Interrupted(flash, store.op)
      BY <1>1, <2>2, StoreParts, CompletedMayHappen DEF FlashOK
    <2>4. StoreOK(new, q) /\ AreaSafe(new, q) BY <1>3, <2>1 DEF AreaInv, StoreInv
    <2>5. KeptSafe(new, q, s, released) BY <1>1, <2>2, <2>3, <2>4, StepKeeps
    <2>6. PICK r : r = released /\ r = released' BY <2>2
    <2> QED BY <1>4, <2>1, <2>5, <2>6
  <1>11. CASE Mount
    <2>1. PICK q : q = Replay(flash) /\ ~Running(q) BY <1>1, ReplayRests
    <2>2. store' = q /\ UNCHANGED <<flash, saved, released>> BY <1>11, <2>1 DEF Mount, Do
    <2> QED BY <1>6, <2>1, <2>2
  <1>12. CASE Recover
    <2>1. PICK w : /\ w = Walk(flash, Claims(store)) /\ store.job = "scan"
                   /\ UNCHANGED <<flash, saved, released>>
                   /\ LET c == Scanned(store, w)
                          m == [store EXCEPT !.nextId = c.nextId]
                      IN  store' = IF ~c.ok THEN Failed
                                   ELSE IF c.repair # <<>>
                                   THEN [m EXCEPT !.op = Head(c.repair), !.job = "repair"]
                                   ELSE RecoveryComplete([m EXCEPT !.dir = c.dir])
      BY <1>12 DEF Recover, Do
    <2>2. PICK c : c = Scanned(store, w) OBVIOUS
    <2>3. PICK m : m = [store EXCEPT !.nextId = c.nextId] OBVIOUS
    <2>4. PICK q : q = IF ~c.ok THEN Failed
                       ELSE IF c.repair # <<>>
                       THEN [m EXCEPT !.op = Head(c.repair), !.job = "repair"]
                       ELSE RecoveryComplete([m EXCEPT !.dir = c.dir])
      OBVIOUS
    <2>5. store' = q BY <2>1, <2>2, <2>3, <2>4
    <2>6. KeptSafe(flash, q, saved, released)
      BY ONLY <1>1, <2>1, <2>2, <2>3, <2>4, RecoverKeeps
    <2> QED BY <1>5, <2>1, <2>5, <2>6
  <1>13. ASSUME NEW u \in Users, BeginSession(u) PROVE KeptInv'
    <2>1. PICK a : a = Session(store.nextId, u, AlignUp(store.head), AlignUp(store.head), 0)
      OBVIOUS
    <2>2. PICK q : q = [store EXCEPT !.act = a, !.nextId = @ + 1, !.mode = "busy",
                                     !.job = "begin",
                                     !.op = Program(AlignUp(store.head), BeginPage(a.id, u))]
      OBVIOUS
    <2>3. /\ store.mode = "ready" /\ store.job = "none" /\ ~store.active
          /\ store' = q /\ UNCHANGED <<flash, saved, released>>
      BY <1>13, <2>1, <2>2 DEF BeginSession, Resting, Do
    <2>4. /\ q.dir = store.dir /\ ~q.active /\ q.purge = store.purge /\ q.job = "begin"
      BY <1>2, <2>2, <2>3 DEF Stores
    <2>5. Doing(q) = "begin" BY <2>4 DEF Doing, RotationJobs
    <2>6. KeptInRam(store, saved, released) BY <1>1, <1>9, <2>3 DEF KeptSafe
    <2>7. KeptInRam(q, saved, released) BY <2>3, <2>4, <2>5, <2>6 DEF KeptInRam
    <2>8. KeptSafe(flash, q, saved, released) BY <1>1, <2>7 DEF KeptSafe
    <2> QED BY <1>5, <2>3, <2>8
  <1>14. CASE AppendEvent
    <2>1. PICK q : q = [store EXCEPT !.job = "page0",
                          !.op = Program(Slot(store.act.begin, store.act.count),
                                         EventHead(store.act.id, store.act.count))]
      OBVIOUS
    <2>2. /\ store.active /\ store.job = "none" /\ store' = q
          /\ UNCHANGED <<flash, saved, released>>
      BY <1>14, <2>1 DEF AppendEvent, Do
    <2>3. Holds(store, q) /\ q.job = "page0" BY <1>2, <2>1 DEF Stores, Holds
    <2>4. Doing(q) \notin {"confirm", "begin"} BY <2>3 DEF Doing, RotationJobs
    <2> QED BY <1>7, <1>9, <2>2, <2>3, <2>4, HeldCarries
  <1>15. CASE Checkpoint
    <2>1. PICK e : e = Entry("checkpoint",
                         ActiveInfo(store.act, Slot(store.act.begin, store.act.count)))
      OBVIOUS
    <2>2. PICK q : q = Journal(store, e, "checkpoint") OBVIOUS
    <2>3. /\ store.active /\ store.job = "none" /\ store' = q
          /\ UNCHANGED <<flash, saved, released>>
      BY <1>15, <2>1, <2>2 DEF Checkpoint, Do
    <2>4. "checkpoint" \in JournalJobs BY DEF JournalJobs
    <2>5. Holds(store, q) /\ Doing(q) \notin {"confirm", "begin"} BY <1>2, <2>2, <2>4, JournalHolds
    <2> QED BY <1>7, <1>9, <2>3, <2>5, HeldCarries
  <1>16. CASE FinalizeSession
    <2>1. PICK q : q = [store EXCEPT !.mode = "busy", !.job = "end",
                          !.op = Program(FinalSector(store.act),
                                         EndPage(store.act.id, store.act.count))]
      OBVIOUS
    <2>2. /\ store.active /\ store.job = "none" /\ store' = q
          /\ UNCHANGED <<flash, saved, released>>
      BY <1>16, <2>1 DEF FinalizeSession, Do
    <2>3. Holds(store, q) /\ q.job = "end" BY <1>2, <2>1 DEF Stores, Holds
    <2>4. Doing(q) \notin {"confirm", "begin"} BY <2>3 DEF Doing, RotationJobs
    <2> QED BY <1>7, <1>9, <2>2, <2>3, <2>4, HeldCarries
  <1>17. \A u : OwnedBy(store.dir, u) \in SUBSET Finals /\ OwnedBy(store.dir, u) \subseteq store.dir
    BY <1>2 DEF OwnedBy, Stores
  <1>18. ASSUME NEW u \in Users, ConfirmSession(u) PROVE KeptInv'
    <2>1. PICK d : d = Latest(OwnedBy(store.dir, u)) OBVIOUS
    <2>2. PICK x : x = [d EXCEPT !.next = d.begin] OBVIOUS
    <2>3. PICK e : e = Entry("confirmed", x) OBVIOUS
    <2>4. PICK q : q = Journal([store EXCEPT !.dir = Replace(@, x), !.foreign = FALSE,
                                             !.reclaim = x], e, "confirm")
      OBVIOUS
    <2>5. /\ store.mode = "ready" /\ store.job = "none" /\ ~store.active
          /\ OwnedBy(store.dir, u) # {}
          /\ store' = q /\ released' = released \cup {x.id} /\ UNCHANGED <<flash, saved>>
      BY <1>18, <2>1, <2>2, <2>3, <2>4 DEF ConfirmSession, Resting, Do
    <2>6. d \in store.dir BY <1>17, <2>1, <2>5, LatestIs
    <2>7. KeptSafe(flash, q, saved, released \cup {x.id})
      BY <1>1, <1>9, <2>2, <2>4, <2>5, <2>6, ConfirmKeeps
    <2>8. PICK fl, s, r : fl = flash /\ s = saved /\ r = released \cup {x.id} OBVIOUS
    <2> QED BY <1>4, <2>5, <2>7, <2>8
  <1>19. ASSUME NEW u \in Purgers, PurgeRequest(u) PROVE KeptInv'
    <2>1. PICK e : e = Entry("purge_begin", [NoSession EXCEPT !.owner = u]) OBVIOUS
    <2>2. PICK q : q = Journal([store EXCEPT !.purge = u, !.mode = "busy"], e, "purge_begin")
      OBVIOUS
    <2>3. PICK r : r = released \cup {x.id : x \in Foreign(store.dir, u)} OBVIOUS
    <2>4. /\ store.mode = "ready" /\ store.job = "none" /\ ~store.active
          /\ store' = q /\ released' = r /\ UNCHANGED <<flash, saved>>
      BY <1>19, <2>1, <2>2, <2>3 DEF PurgeRequest, Resting, Do
    <2>5. u \in Users BY StorageAssumption
    <2>6. KeptSafe(flash, q, saved, r) BY <1>1, <1>9, <2>2, <2>3, <2>4, <2>5, PurgeKeeps
    <2>7. PICK fl, s : fl = flash /\ s = saved OBVIOUS
    <2> QED BY <1>4, <2>4, <2>6, <2>7
  <1>20. CASE PauseReclaim \/ ReleaseReclaim
    <2>1. PICK b \in BOOLEAN : store' = [store EXCEPT !.paused = b]
                               /\ UNCHANGED <<flash, saved, released>>
      BY <1>20 DEF PauseReclaim, ReleaseReclaim, Do
    <2>2. PICK q : q = [store EXCEPT !.paused = b] OBVIOUS
    <2>3. /\ Holds(store, q) /\ q.mode = store.mode /\ q.job = store.job
          /\ q.resume = store.resume /\ q.reclaim = store.reclaim
      BY <1>2, <2>2 DEF Stores, Holds
    <2>4. Running(q) => Running(store) BY <2>3 DEF Running, Mounted
    <2>5. Doing(store) # "begin"
      <3>1. store.job # "begin" /\ store.resume # "begin"
        BY <1>2, <1>20 DEF PauseReclaim, ReleaseReclaim, Resting, Stores, JournalJobs
      <3> QED BY <3>1 DEF Doing
    <2>6. Carries(store, q) BY <2>3, <2>5 DEF Carries, Holds, Doing, Known
    <2> QED BY <1>6, <1>7, <2>1, <2>2, <2>4, <2>6
  <1>21. ASSUME NEW u \in Users, ResumeReclaim(u) PROVE KeptInv'
    <2>1. PICK x : x = Latest(OwnedBy(store.dir, u)) OBVIOUS
    <2>2. PICK p : p = [store EXCEPT !.foreign = FALSE] OBVIOUS
    <2>3. PICK q : q = StartReclaim(p, x) OBVIOUS
    <2>4. /\ store.mode = "ready" /\ store.job = "none" /\ ~store.active
          /\ OwnedBy(store.dir, u) # {}
          /\ store' = q /\ UNCHANGED <<flash, saved, released>>
      BY <1>21, <2>1, <2>2, <2>3 DEF ResumeReclaim, Resting, Do
    <2>5. x \in Finals BY <1>17, <2>1, <2>4, LatestIs
    <2>6. p \in Stores /\ Holds(store, p) BY <1>2, <2>2 DEF Stores, Holds
    <2>7. Holds(p, q) /\ Doing(q) \notin {"confirm", "begin"} BY <2>3, <2>5, <2>6, ReclaimHolds
    <2>8. Carries(store, q) BY <2>6, <2>7, HeldCarries DEF Holds
    <2> QED BY <1>7, <1>9, <2>4, <2>8
  <1>22. CASE PowerLoss \/ FlashFault
    <2>1. PICK new, q : /\ new \in Interrupted(flash, store.op) /\ q \in {Off, Failed}
                        /\ flash' = new /\ store' = q /\ UNCHANGED <<saved, released>>
      BY <1>22 DEF PowerLoss, FlashFault, Do
    <2>2. ~Running(q) BY <2>1 DEF Running, Mounted, Failed, Off
    <2>3. KeptSafe(new, q, saved, released) BY <1>1, <2>1, <2>2, KeptCut DEF KeptSafe
    <2>4. PICK s, r : s = saved /\ r = released OBVIOUS
    <2> QED BY <1>4, <2>1, <2>3, <2>4
  <1>23. CASE UNCHANGED vars
    <2>1. PICK q : q = store OBVIOUS
    <2>2. store' = q /\ UNCHANGED <<flash, saved, released>> BY <1>23, <2>1 DEF vars
    <2> QED BY <1>1, <1>5, <2>1, <2>2
  <1> QED
    BY <1>10, <1>11, <1>12, <1>13, <1>14, <1>15, <1>16, <1>18, <1>19, <1>20, <1>21, <1>22, <1>23
    DEF Next

(* A session whose opening was verified, until a phone confirms it or a     *)
(* purge names it: its pages stand on Flash, no entry of the journal names  *)
(* it, and RAM lists it or is recording it.                                 *)
THEOREM KeptInvariant == Spec => []KeptInv
  <1>1. Init => KeptInv BY KeptInit
  <1>2. KeptInv /\ [Next]_vars => KeptInv' BY KeptNext
  <1> QED BY <1>1, <1>2, PTL DEF Spec

LEMMA KeptSurvives == ASSUME KeptInv PROVE SavedSurvives
  <1>1. /\ StoreOK(flash, store) /\ AreaSafe(flash, store)
        /\ KeptSafe(flash, store, saved, released)
    BY DEF KeptInv, AreaInv, StoreInv
  <1> SUFFICES ASSUME NEW id \in Ids \ released, saved[id] # NoSession
               PROVE  LET k == saved[id]
                      IN  /\ flash[k.begin] = BeginPage(id, k.owner)
                          /\ \A n \in 0 .. k.count - 1 : EventAt(flash, k.begin, id, n)
                          /\ store.mode \in {"ready", "busy"} =>
                                \/ store.act = k /\ ~Known(store.dir, id)
                                \/ \E s \in store.dir :
                                      /\ s.id = id /\ s.owner = k.owner /\ s.begin = k.begin
                                      /\ s.count \in k.count .. k.count + 1 /\ ~s.confirmed
    BY DEF SavedSurvives
  <1>2. PICK k : k = saved[id] OBVIOUS
  <1>3. id \in Kept(saved, released) BY DEF Kept
  <1>4. k.id = id /\ Stands(flash, k)
    BY <1>1, <1>2, <1>3 DEF KeptSafe, KeptOnFlash, Remembered
  <1>5. ASSUME store.mode \in {"ready", "busy"}
        PROVE  \/ store.act = k /\ ~Known(store.dir, id)
               \/ \E s \in store.dir :
                     /\ s.id = id /\ s.owner = k.owner /\ s.begin = k.begin
                     /\ s.count \in k.count .. k.count + 1 /\ ~s.confirmed
    <2>1. JobOK(store) BY <1>1, StoreParts
    <2>2. Running(store) BY <1>5, <2>1 DEF JobOK, Running, Mounted
    <2>3. (store.active /\ store.act = k) \/ StoredIn(store.dir, k)
      BY <1>1, <1>2, <1>3, <2>2 DEF KeptSafe, KeptInRam
    <2>4. CASE store.active /\ store.act = k
      <3>1. OperationOK(flash, store) BY <1>1, <2>2 DEF AreaSafe, RunSafe
      <3>2. Records(store, store.job) BY <2>4 DEF Records
      <3>3. Behind(store) BY <1>1, <2>2, <2>4, <3>1, RunningParts DEF Records
      <3>4. \A d \in store.dir : d.id # id
        <4>1. id \in Nat BY Sizes DEF Ids
        <4> QED BY <1>4, <2>4, <3>3, <4>1 DEF Behind
      <3> QED BY <2>4, <3>4 DEF Known
    <2>5. CASE StoredIn(store.dir, k) BY <1>4, <2>5 DEF StoredIn
    <2> QED BY <2>3, <2>4, <2>5
  <1> QED BY <1>2, <1>4, <1>5 DEF Stands

(* Whatever is cut short or fails, a session that was opened and is neither *)
(* confirmed nor purged keeps every event the store has verified, and a     *)
(* store that has recovered lists it for its owner, or is recording it, for *)
(* every number of sessions, of events and of mishaps: for every chip that  *)
(* tears a write or an erase as the constant Tears allows.                  *)
THEOREM SavedKept == Spec => []SavedSurvives
  <1>1. KeptInv => SavedSurvives BY KeptSurvives
  <1> QED BY <1>1, KeptInvariant, PTL

-----------------------------------------------------------------------------
(* The sessions that were shown: each is known to the journal by an identity *)
(* that it exceeds, or the next boot finds it on Flash again.                *)

ShownThere(fl, m, id) ==
    \E k \in Descriptions :
        k.id = id /\ Remembered(fl, k) /\ (Running(m) => StoredIn(m.dir, k))
ShownTold(fl, m, h) ==
    Tells(fl) => \A id \in h : id < Told(fl).nextId \/ ShownThere(fl, m, id)

ShownSafe(fl, m, h) ==
    /\ h \in SUBSET Ids
    /\ \A x \in m.dir : x.id \in h
    /\ ShownTold(fl, m, h)
    /\ Running(m) => \A id \in h : id < m.nextId
    /\ m.job = "begin" => m.act.id \notin h
    /\ m.job \in {"scan", "repair"} => Told(fl).nextId <= m.nextId

ShownInv == AreaInv /\ ShownSafe(flash, store, shown)

\* What a boot finds on Flash it finds again, whatever the journal says of others.
LEMMA FoundStays ==
  ASSUME NEW fl \in [Chip -> PageSet], NEW dir \in SUBSET Finals, \A d \in dir : Closed(fl, d),
         NEW w \in WalkResults, WalkOK(fl, dir, 0, w), w.ok, w.repair = <<>>,
         \A s \in ToSet(w.found), d \in dir \cup ToSet(w.found) :
            s # d => s.id # d.id /\ ~Overlaps(s, d),
         NEW x \in ToSet(w.found)
  PROVE  x \in Descriptions /\ Remembered(fl, x) /\ StoredIn(ToSet(w.found), x)
  <1>1. ToSet(w.found) \subseteq Found /\ \A s \in ToSet(w.found) : FoundAt(fl, s)
    <2>1. w.found \in Seq(Found) BY DEF WalkResults
    <2> QED BY <2>1, ToSetIs DEF WalkOK
  <1>2. x \in Finals /\ x \in Descriptions /\ ~x.confirmed /\ FoundAt(fl, x)
    BY <1>1 DEF Found, Finals
  <1>3. PICK b \in Nat, n \in Nat, e \in Nat :
             b = x.begin /\ n = x.count /\ e = x.end /\ b < Pages /\ Sectored(b) /\ b < e
    BY <1>2, Sizes DEF Finals, Descriptions, FoundAt
  <1>4. fl[b].kind = "begin" /\ fl[b].ok /\ ReadSession(fl, b).ok /\ x = ReadSession(fl, b).s
    BY <1>2, <1>3 DEF FoundAt
  <1>5. x.id = fl[b].id /\ x.owner = fl[b].owner /\ n = EventCount(fl, b, x.id)
    <2>1. LET y == ReadSession(fl, b)
          IN  y.s.id = fl[b].id /\ y.s.owner = fl[b].owner
              /\ y.s.count = EventCount(fl, b, fl[b].id)
      <3>1. /\ fl \in [Chip -> PageSet] /\ b \in Nat /\ Sectored(b) /\ b < Pages
            /\ fl[b].kind = "begin" /\ ReadSession(fl, b).ok
        BY <1>3, <1>4
      <3> QED BY ONLY <3>1, ReadSessionSays
    <2> QED BY <1>3, <1>4, <2>1
  <1>6. fl[b] = BeginPage(x.id, x.owner)
    <2>1. b \in Chip
      <3>1. b \in 0 .. Pages - 1 BY <1>3, Sizes
      <3> QED BY <3>1, Sizes DEF Chip
    <2>2. fl[b] \in BeginPages BY <1>4, <2>1, PageKinds
    <2> QED BY <1>4, <1>5, <2>2 DEF BeginPages, BeginPage
  <1>7. \A j \in 0 .. n - 1 : EventAt(fl, b, x.id, j) BY <1>5, EventCountIs
  <1>8. Stands(fl, x) BY <1>3, <1>6, <1>7 DEF Stands
  <1>9. Slot(b, n) + SectorPages <= e /\ fl[Slot(b, n) + 2].kind # "event"
    BY <1>3, <1>4, FoundPages
  <1>10. Slot(b, n + 1) = Slot(b, n) + 2 /\ Slot(b, n) \in Nat BY <1>3, SlotIs
  <1>11. ~EventAt(fl, b, x.id, n + 1) BY <1>9, <1>10 DEF EventAt, EventHead
  <1>12. Apart(fl, b)
    <2> SUFFICES ASSUME b # 0 PROVE fl[b - 1].kind # "event" BY DEF Apart
    <2>1. b - 1 \in 0 * SectorPages .. Pages - 1 /\ b - 1 \in Nat /\ b - 1 < b
      BY <1>3, Sizes
    <2>2. fl[b - 1] = Blank \/ \E s \in dir \cup ToSet(w.found) : Within(b - 1, s)
      BY <2>1 DEF WalkOK
    <2>3. ASSUME NEW s \in dir \cup ToSet(w.found), Within(b - 1, s)
          PROVE  fl[b - 1].kind # "event"
      <3>1. PICK u \in Nat, v \in Nat : u = s.begin /\ v = s.end /\ u <= b - 1 /\ b - 1 < v
        BY <1>1, <2>3, Sizes DEF Found, Finals, Descriptions, Within
      <3>2. s # x BY <1>3, <2>1, <3>1
      <3>3. ~(b < v /\ u < e) BY <1>3, <3>1, <3>2 DEF Overlaps
      <3>4. v = b BY <1>3, <2>1, <3>1, <3>3
      <3>5. Closed(fl, s)
        <4>1. CASE s \in dir BY <4>1
        <4>2. CASE s \in ToSet(w.found) BY <1>1, <4>2, FoundIs
        <4> QED BY <2>3, <4>1, <4>2
      <3> QED BY <3>1, <3>4, <3>5 DEF Closed
    <2> QED BY <2>2, <2>3 DEF Blank
  <1>13. Remembered(fl, x)
    BY <1>2, <1>3, <1>8, <1>11, <1>12 DEF Remembered, Finals
  <1>14. StoredIn(ToSet(w.found), x)
    <2>1. n \in n .. n + 1 OBVIOUS
    <2>2. Slot(b, n + 1) + 2 <= e BY <1>9, <1>10, Sizes
    <2> QED BY <1>2, <1>3, <2>1, <2>2 DEF StoredIn
  <1> QED BY <1>2, <1>13, <1>14

\* What a cut makes of what a boot is told: nothing, the entry, or the new bank.
LEMMA CutTells ==
  ASSUME NEW fl, FlashOK(fl), NEW m, StoreOK(fl, m), AreaSafe(fl, m),
         NEW new \in Interrupted(fl, m.op), Tells(new)
  PROVE  /\ \/ Told(new) = Told(fl)
            \/ m.job \in JournalJobs /\ Tells(fl) /\ Grown(Told(fl), m.op.page, Told(new))
            \/ Running(m) /\ Restored(m, Told(new))
         /\ m.job \in JournalJobs /\ Verified(new, m.op) =>
              Tells(fl) /\ Grown(Told(fl), m.op.page, Told(new))
         /\ Told(new).nextId \in Nat
         /\ Tells(fl) => Told(fl).nextId \in Nat
  <1>1. /\ m.op \in Operations /\ m.job \in Jobs /\ JobOK(m) /\ m \in Stores
        /\ fl \in [Chip -> PageSet] /\ m.cur \in 0 .. 1 /\ FlashOK(new)
    BY StoreParts, CutKeepsFlash DEF FlashOK
  <1>2. /\ Told(new).nextId \in Nat
        /\ Tells(fl) => Told(fl).nextId \in Nat
    <2>1. Told(new) \in Stores BY <1>1, ToldDirectory
    <2>2. Tells(fl) => Told(fl) \in Stores BY ToldDirectory
    <2> QED BY <2>1, <2>2, Sizes DEF Stores
  <1>3. ASSUME m.op # Idle PROVE m.job \notin {"none", "scan"} /\ Mounted(m)
    BY <1>1, <1>3 DEF JobOK, Mounted, Stores
  <1>4. CASE m.op = Idle
    <2>1. Told(new) = Told(fl) BY <1>4, IdleChangesNothing
    <2>2. m.job \notin JournalJobs BY <1>1, <1>4 DEF JobOK, JournalJobs
    <2> QED BY <1>2, <2>1, <2>2
  <1>5. CASE m.job \in JournalJobs
    <2>1. ASSUME Tells(fl), Told(new) = Replayed(Told(fl), m.op.page)
          PROVE  Grown(Told(fl), m.op.page, Told(new))
      <3>1. m.op.page \in Entries BY <1>1, <1>5 DEF JobOK, Fits
      <3>2. Told(fl) \in Stores BY <2>1, ToldDirectory
      <3> QED BY <2>1, <3>1, <3>2, ReplayedIs DEF Tells
    <2>2. /\ Told(new) = Told(fl) \/ (Tells(fl) /\ Told(new) = Replayed(Told(fl), m.op.page))
          /\ Verified(new, m.op) =>
               Tells(fl) /\ Told(new) = Replayed(Told(fl), m.op.page)
      BY <1>5, ToldGrows
    <2> QED BY <1>2, <1>5, <2>1, <2>2
  <1>6. CASE m.op # Idle /\ m.job \in RotationJobs
    <2>1. m.job \notin JournalJobs BY <1>6 DEF RotationJobs, JournalJobs
    <2>2. CASE m.job # "header" \/ ~Verified(new, m.op)
      <3>1. Told(new) = Told(fl) BY <1>6, <2>2, RotationTold
      <3> QED BY <1>2, <2>1, <3>1
    <2>3. CASE m.job = "header" /\ Verified(new, m.op)
      <3>1. Running(m) /\ RunSafe(fl, m)
        BY <1>3, <1>6 DEF AreaSafe, Running, RotationJobs
      <3>2. Restored(m, Told(new)) BY <2>3, <3>1, HeaderTold DEF RunSafe
      <3> QED BY <1>2, <2>1, <3>1, <3>2
    <2> QED BY <2>2, <2>3
  <1>7. CASE m.op # Idle /\ m.job \in PageJobs \cup {"repair"}
    <2>1. /\ Mounted(m) /\ JournalOK(fl, m.cur) /\ Preserved(fl, new, m.cur)
      BY <1>3, <1>7, StoreParts, CutArea DEF CursorOK
    <2>2. Told(new) = Told(fl) BY <1>1, <2>1, ToldKept
    <2>3. m.job \notin JournalJobs BY <1>7 DEF PageJobs, JournalJobs
    <2> QED BY <1>2, <2>2, <2>3
  <1> QED BY <1>1, <1>3, <1>4, <1>5, <1>6, <1>7 DEF Jobs

\* Wherever an operation is cut short, what was shown is known or found.
LEMMA ShownCut ==
  ASSUME NEW fl, FlashOK(fl), NEW m, StoreOK(fl, m), AreaSafe(fl, m),
         NEW new \in Interrupted(fl, m.op), NEW h, ShownSafe(fl, m, h)
  PROVE  ShownTold(new, m, h)
  <1> SUFFICES ASSUME Tells(new), NEW id \in h
               PROVE  id < Told(new).nextId \/ ShownThere(new, m, id)
    BY DEF ShownTold
  <1>1. PICK t, u : t = Told(fl) /\ u = Told(new) OBVIOUS
  <1>2. /\ \/ u = t
           \/ Tells(fl) /\ Grown(t, m.op.page, u)
           \/ Running(m) /\ Restored(m, u)
        /\ u.nextId \in Nat
        /\ Tells(fl) => t.nextId \in Nat
    BY <1>1, CutTells
  <1>3. id \in Nat BY Sizes DEF ShownSafe, Ids
  <1>4. ASSUME id < t.nextId, Tells(fl), u = t \/ Grown(t, m.op.page, u)
        PROVE  id < u.nextId
    BY <1>2, <1>3, <1>4 DEF Grown
  <1>5. ASSUME ShownThere(fl, m, id) PROVE ShownThere(new, m, id)
    <2>1. PICK k \in Descriptions :
               k.id = id /\ Remembered(fl, k) /\ (Running(m) => StoredIn(m.dir, k))
      BY <1>5 DEF ShownThere
    <2>2. Remembered(new, k) BY <2>1, CutRemembers
    <2> QED BY <2>1, <2>2 DEF ShownThere
  <1>6. CASE Running(m) /\ Restored(m, u)
    <2>1. id < m.nextId BY <1>6 DEF ShownSafe
    <2>2. m.nextId \in Nat BY StoreParts, Sizes DEF Stores
    <2> QED BY <1>1, <1>2, <1>3, <1>6, <2>1, <2>2 DEF Restored
  <1>7. CASE u = t \/ (Tells(fl) /\ Grown(t, m.op.page, u))
    <2>1. Tells(fl) BY <1>1, <1>7 DEF Tells
    <2>2. id < t.nextId \/ ShownThere(fl, m, id) BY <1>1, <2>1 DEF ShownSafe, ShownTold
    <2> QED BY <1>1, <1>4, <1>5, <1>7, <2>1, <2>2
  <1> QED BY <1>2, <1>6, <1>7

\* An identity that a boot is told of, or a session that RAM lists as it stands.
LEMMA ShownStopped ==
  ASSUME NEW fl, NEW m, NEW h, ShownTold(fl, m, h), NEW q, ~Running(q)
  PROVE  ShownTold(fl, q, h)
  BY DEF ShownTold, ShownThere

\* What a job that goes on makes of the directory.
Follows(m, q) ==
    /\ q.nextId = m.nextId /\ q.job # "begin"
    /\ \A x \in m.dir : x \in q.dir \/ Leaving(m, x)
    /\ \A x \in q.dir : Known(m.dir, x.id) \/ (m.job = "final" /\ x.id = m.act.id)

LEMMA CarriesFollows ==
  ASSUME NEW m, NEW q, Carries(m, q)
  PROVE  Follows(m, q)
  <1>1. q.job # "begin" BY DEF Carries, Doing, RotationJobs
  <1> QED BY <1>1 DEF Carries, Follows

LEMMA FinalFollows ==
  ASSUME NEW fl, NEW m, StoreOK(fl, m), m.job = "final", NEW q, q = RuntimeStep(m), q # Failed
  PROVE  Follows(m, q)
  <1>1. m.job \in JournalJobs /\ m \in Stores BY StoreParts DEF JournalJobs
  <1>2. PICK l \in Stores : l = Logged(m) /\ Holds(m, l) BY <1>1, LoggedIs
  <1>3. PICK x : x = FinalInfo(m.act) OBVIOUS
  <1>4. x.id = m.act.id BY <1>3 DEF FinalInfo, ActiveInfo, Session
  <1>5. q = [Ready(l) EXCEPT !.dir = @ \cup {x}, !.head = x.end, !.active = FALSE]
    <2>1. q = FinalDone(m) BY DEF RuntimeStep
    <2> QED BY <1>2, <1>3, <2>1 DEF FinalDone
  <1>6. q.dir = m.dir \cup {x} /\ q.nextId = m.nextId /\ q.job = "none"
    BY <1>2, <1>5 DEF Ready, Stores, Holds
  <1> QED BY <1>4, <1>6 DEF Follows, Known

LEMMA OpenFollows ==
  ASSUME NEW fl, NEW m, StoreOK(fl, m), m.job \in {"open", "commit"}, NEW q, q = RuntimeStep(m)
  PROVE  Follows(m, q)
  <1>1. m \in Stores BY StoreParts
  <1>2. q.dir = m.dir /\ q.nextId = m.nextId /\ q.job = "none"
    <2>1. CASE m.job = "open"
      <3>1. PICK l \in Stores : l = Logged(m) /\ Holds(m, l)
        BY <2>1, LoggedIs DEF JournalJobs
      <3>2. q = [Ready(l) EXCEPT !.active = TRUE, !.checked = 0]
        BY <2>1, <3>1 DEF RuntimeStep, OpenDone
      <3> QED BY <3>1, <3>2 DEF Ready, Stores, Holds
    <2>2. CASE m.job = "commit"
      <3>1. q = [[m EXCEPT !.act.count = @ + 1] EXCEPT !.job = "none", !.op = Idle]
        BY <2>2 DEF RuntimeStep, CommitDone, Done
      <3> QED BY <1>1, <3>1 DEF Stores
    <2> QED BY <2>1, <2>2
  <1> QED BY <1>2 DEF Follows, Known

LEMMA RuntimeFollows ==
  ASSUME NEW fl, NEW m, StoreOK(fl, m), Running(m), RunSafe(fl, m), m.op # Idle,
         NEW q, q = RuntimeStep(m), q # Failed
  PROVE  Follows(m, q)
  <1>1. m.job \in Jobs \ {"none", "scan", "repair"} BY StoreParts DEF JobOK, Running
  <1>2. CASE m.job = "final" BY <1>2, FinalFollows
  <1>3. CASE m.job \in {"open", "commit"} BY <1>3, OpenFollows
  <1>4. CASE m.job \in {"begin", "page0", "page1", "checkpoint", "end"}
    BY <1>4, CarriesFollows, PlainCarries
  <1>5. CASE m.job \in {"progress", "purge_begin", "purge_done"}
    BY <1>5, CarriesFollows, NoticeCarries
  <1>6. CASE m.job \in RotationJobs BY <1>6, CarriesFollows, RotationCarries
  <1>7. CASE m.job \in {"confirm", "discard"} BY <1>7, CarriesFollows, ConfirmCarries
  <1>8. CASE m.job = "reclaimed" BY <1>8, CarriesFollows, ReclaimedCarries
  <1>9. CASE m.job = "reclaim" BY <1>9, CarriesFollows, SectorCarries
  <1> QED BY <1>1, <1>2, <1>3, <1>4, <1>5, <1>6, <1>7, <1>8, <1>9
          DEF Jobs, JournalJobs, RotationJobs, PageJobs

\* A session that a job lets go is one the journal names by then.
LEMMA LeavingTold ==
  ASSUME NEW fl, FlashOK(fl), NEW m, StoreOK(fl, m), AreaSafe(fl, m), Running(m),
         NEW new \in Interrupted(fl, m.op), Verified(new, m.op), Tells(new),
         NEW x \in m.dir, ~x.confirmed, Leaving(m, x)
  PROVE  x.id < Told(new).nextId
  <1>1. m.job \in JournalJobs =>
          Grown(Told(fl), m.op.page, Told(new)) /\ Fits(m, m.job, m.op.page)
    BY CutTells, StoreParts DEF JobOK
  <1>2. CASE m.job \in {"confirm", "discard"}
    <2>1. m.job \in JournalJobs BY <1>2 DEF JournalJobs
    <2>2. m.op.page.s.id = m.reclaim.id /\ m.op.page.type \in Counted
      BY <1>1, <1>2, <2>1 DEF Fits, Releases
    <2> QED BY <1>1, <2>1, <2>2 DEF Grown, Leaving
  <1>3. CASE m.job \in {"reclaim", "reclaimed"}
    <2>1. Doing(m) = m.job BY <1>3 DEF Doing, RotationJobs
    <2>2. Marked(m.dir, m.reclaim) BY <1>3, <2>1 DEF AreaSafe, RunSafe, CoreOK, NoteOK
    <2>3. PICK d \in m.dir : d.id = x.id /\ d.confirmed
      BY <2>2 DEF Marked, SamePlace, Leaving
    <2> QED BY <2>3, StoreParts DEF DirectoryOK, Separate
  <1> QED BY <1>2, <1>3 DEF Leaving

LEMMA FollowsShown ==
  ASSUME NEW fl, FlashOK(fl), NEW m, StoreOK(fl, m), AreaSafe(fl, m), Running(m),
         NEW new \in Interrupted(fl, m.op), Verified(new, m.op), NEW h, ShownSafe(fl, m, h),
         NEW q, Follows(m, q), q.dir \in SUBSET Finals, q.job \notin {"scan", "repair"}
  PROVE  ShownSafe(new, q, h \cup {x.id : x \in q.dir})
  <1>1. PICK g : g = h \cup {x.id : x \in q.dir} OBVIOUS
  <1>2. m \in Stores /\ m.nextId \in Nat BY StoreParts, Sizes DEF Stores
  <1>3. m.job = "final" =>
          /\ m.job \in JournalJobs /\ m.act.id \in Ids /\ m.act.id < m.nextId
          /\ m.op.page.type = "final" /\ m.op.page.s.id = m.act.id
    <2> SUFFICES ASSUME m.job = "final"
                 PROVE  /\ m.job \in JournalJobs /\ m.act.id \in Ids /\ m.act.id < m.nextId
                        /\ m.op.page.type = "final" /\ m.op.page.s.id = m.act.id
      OBVIOUS
    <2>1. m.job \in JournalJobs BY DEF JournalJobs
    <2>2. m.active BY <2>1, StoreParts DEF JobOK, Purposes
    <2>3. Behind(m) BY <2>2, StoreParts DEF RecordingOK, Recording
    <2>4. Doing(m) = "final" /\ Note(m) = m.op.page BY DEF Doing, Note, RotationJobs
    <2>5. NoteOK(fl, m, "final", m.op.page) BY <2>4 DEF AreaSafe, RunSafe, CoreOK
    <2> QED BY <2>1, <2>3, <2>5 DEF Behind, NoteOK
  <1>4. \A id \in g : id \in h \/ (m.job = "final" /\ id = m.act.id)
    <2>1. \A x \in m.dir : x.id \in h BY DEF ShownSafe
    <2> QED BY <1>1, <2>1 DEF Follows, Known
  <1>5. g \in SUBSET Ids BY <1>3, <1>4 DEF ShownSafe
  <1>6. \A id \in g : id < q.nextId
    <2>1. \A id \in h : id < m.nextId BY DEF ShownSafe
    <2> QED BY <1>3, <1>4, <2>1 DEF Follows
  <1>7. ASSUME Tells(new), NEW id \in g
        PROVE  id < Told(new).nextId \/ ShownThere(new, q, id)
    <2>1. CASE m.job = "final" /\ id = m.act.id
      <3>1. Grown(Told(fl), m.op.page, Told(new)) BY <1>3, <1>7, <2>1, CutTells
      <3> QED BY <1>3, <2>1, <3>1 DEF Grown, Counted
    <2>2. CASE id \in h
      <3>1. ShownTold(new, m, h) BY ShownCut
      <3>2. CASE id < Told(new).nextId BY <3>2
      <3>3. CASE ShownThere(new, m, id)
        <4>1. PICK k \in Descriptions :
                   k.id = id /\ Remembered(new, k) /\ StoredIn(m.dir, k)
          BY <3>3 DEF ShownThere
        <4>2. PICK x \in m.dir :
                   /\ x.id = k.id /\ x.owner = k.owner /\ x.begin = k.begin
                   /\ x.count \in k.count .. k.count + 1 /\ ~x.confirmed
                   /\ Slot(k.begin, k.count + 1) + 2 <= x.end
          BY <4>1 DEF StoredIn
        <4>3. CASE x \in q.dir
          <5>1. StoredIn(q.dir, k) BY <4>2, <4>3 DEF StoredIn
          <5> QED BY <4>1, <5>1 DEF ShownThere
        <4>4. CASE Leaving(m, x)
          <5>1. x.id < Told(new).nextId BY <1>7, <4>2, <4>4, LeavingTold
          <5> QED BY <4>1, <4>2, <5>1
        <4> QED BY <4>3, <4>4 DEF Follows
      <3> QED BY <1>7, <2>2, <3>1, <3>2, <3>3 DEF ShownTold
    <2> QED BY <1>4, <1>7, <2>1, <2>2
  <1>8. ShownTold(new, q, g) BY <1>7 DEF ShownTold
  <1>9. \A x \in q.dir : x.id \in g BY <1>1
  <1>10. q.job \notin {"begin", "scan", "repair"} BY DEF Follows
  <1>11. ShownSafe(new, q, g) BY <1>5, <1>6, <1>8, <1>9, <1>10 DEF ShownSafe
  <1> QED BY <1>1, <1>11

\* A store that stops shows nothing.
LEMMA StoppedShows ==
  ASSUME NEW fl, NEW m, NEW h, h \in SUBSET Ids, ShownTold(fl, m, h), NEW q \in {Off, Failed}
  PROVE  ShownSafe(fl, q, h \cup {x.id : x \in q.dir})
  <1>1. q.dir = {} /\ q.job = "none" /\ ~Running(q) BY DEF Running, Mounted, Failed, Off
  <1>2. ShownTold(fl, q, h) BY <1>1, ShownStopped
  <1>3. PICK g : g = h \cup {x.id : x \in q.dir} OBVIOUS
  <1>4. g = h BY <1>1, <1>3
  <1> QED BY <1>1, <1>2, <1>3, <1>4 DEF ShownSafe

LEMMA StepShows ==
  ASSUME NEW fl, FlashOK(fl), NEW m, StoreOK(fl, m), AreaSafe(fl, m), m.op # Idle,
         NEW h, ShownSafe(fl, m, h), NEW new \in Interrupted(fl, m.op), NEW q,
         q = IF ~Verified(new, m.op) THEN Failed
             ELSE IF m.mode = "recovering" THEN RecoveryStep(m) ELSE RuntimeStep(m),
         StoreOK(new, q), AreaSafe(new, q)
  PROVE  ShownSafe(new, q, h \cup {x.id : x \in q.dir})
  <1>1. m.job \in Jobs /\ JobOK(m) /\ m \in Stores BY StoreParts
  <1>2. m.job \notin {"none", "scan"} /\ Mounted(m) BY <1>1 DEF JobOK, Mounted, Stores
  <1>3. ShownTold(new, m, h) /\ h \in SUBSET Ids BY ShownCut DEF ShownSafe
  <1>4. CASE q = Failed BY <1>3, <1>4, StoppedShows
  <1>5. CASE q # Failed /\ m.mode = "recovering"
    <2>1. m.job = "repair" /\ q = RepairDone(m) BY <1>5 DEF RecoveryStep
    <2>2. q.dir = m.dir /\ q.nextId = m.nextId /\ q.job = "scan"
      BY <1>1, <2>1 DEF RepairDone, Stores
    <2>3. PICK g : g = h \cup {x.id : x \in q.dir} OBVIOUS
    <2>4. g = h BY <2>2, <2>3 DEF ShownSafe
    <2>5. ~Running(q) /\ ~Running(m) BY <2>1, <2>2 DEF Running
    <2>6. ShownTold(new, q, h) BY <1>3, <2>5, ShownStopped
    <2>7. Tells(new) BY <2>2 DEF AreaSafe, RecoverySafe
    <2>8. m.job \notin JournalJobs BY <2>1 DEF JournalJobs
    <2>9. Told(new) = Told(fl) BY <2>5, <2>7, <2>8, CutTells
    <2>10. Told(fl).nextId <= m.nextId BY <2>1 DEF ShownSafe
    <2>11. ShownSafe(new, q, h)
      BY <1>3, <2>2, <2>5, <2>6, <2>9, <2>10 DEF ShownSafe
    <2> QED BY <2>3, <2>4, <2>11
  <1>6. CASE q # Failed /\ m.mode # "recovering"
    <2>1. q = RuntimeStep(m) /\ Verified(new, m.op) /\ Running(m)
      BY <1>1, <1>2, <1>6 DEF Running, JobOK
    <2>2. RunSafe(fl, m) BY <2>1 DEF AreaSafe
    <2>3. q.job \notin {"scan", "repair"}
      <3>1. Goes(new, q) BY <2>1, <2>2, RuntimeRuns DEF AreaSafe
      <3> QED BY <3>1 DEF Goes
    <2>4. Follows(m, q) BY <1>6, <2>1, <2>2, RuntimeFollows
    <2>5. q.dir \in SUBSET Finals BY StoreParts DEF Stores
    <2> QED BY <2>1, <2>3, <2>4, <2>5, FollowsShown
  <1> QED BY <1>4, <1>5, <1>6

\* A boot is told of no session whose identity it is not told to exceed.
LEMMA ToldBelow ==
  ASSUME NEW fl, FlashOK(fl), Tells(fl)
  PROVE  /\ Told(fl).nextId \in Nat /\ Told(fl).job = "scan" /\ Told(fl) \in Stores
         /\ \A d \in Told(fl).dir : d \in Finals /\ d.id < Told(fl).nextId
  <1>1. PICK k \in 0 .. 1 : JournalOK(fl, k) /\ fl \in [Chip -> PageSet] BY DEF FlashOK
  <1>2. ScanOK(fl, k, Stop(fl, k), Told(fl)) BY <1>1, ToldIs
  <1>3. PICK t : t = Told(fl) OBVIOUS
  <1>4. t \in Stores /\ DirectoryOK(t) /\ t.job = "scan" BY <1>2, <1>3 DEF ScanOK
  <1>5. t.nextId \in Nat /\ t.dir \in SUBSET Finals BY <1>4, Sizes DEF Stores
  <1> QED BY <1>3, <1>4, <1>5 DEF DirectoryOK

LEMMA MountShows ==
  ASSUME NEW fl, FlashOK(fl), NEW m, NEW h, ShownSafe(fl, m, h), NEW q, q = Replay(fl)
  PROVE  ShownSafe(fl, q, h \cup {x.id : x \in q.dir})
  <1>1. PICK next : q = Failed \/ (Tells(fl) /\ q = [Told(fl) EXCEPT !.next = next])
    BY DEF Replay, Told, Tells
  <1>2. h \in SUBSET Ids /\ ShownTold(fl, m, h) BY DEF ShownSafe
  <1>3. CASE q = Failed BY <1>2, <1>3, StoppedShows
  <1>4. CASE Tells(fl) /\ q = [Told(fl) EXCEPT !.next = next]
    <2>1. PICK t : t = Told(fl) OBVIOUS
    <2>2. /\ t.nextId \in Nat /\ t.job = "scan" /\ t \in Stores
          /\ \A d \in t.dir : d \in Finals /\ d.id < t.nextId
      BY <1>4, <2>1, ToldBelow
    <2>3. q.dir = t.dir /\ q.nextId = t.nextId /\ q.job = "scan"
      BY <1>4, <2>1, <2>2 DEF Stores
    <2>4. PICK g : g = h \cup {x.id : x \in q.dir} OBVIOUS
    <2>5. g \in SUBSET Ids BY <1>2, <2>2, <2>3, <2>4 DEF Finals
    <2>6. ~Running(q) BY <2>3 DEF Running
    <2>7. ASSUME NEW id \in g PROVE id < t.nextId \/ ShownThere(fl, q, id)
      <3>1. CASE id \in h
        <4>1. ShownTold(fl, q, h) BY <1>2, <2>6, ShownStopped
        <4> QED BY <1>4, <2>1, <3>1, <4>1 DEF ShownTold
      <3>2. CASE id \notin h BY <2>2, <2>3, <2>4, <2>7, <3>2
      <3> QED BY <3>1, <3>2
    <2>8. ShownTold(fl, q, g) BY <2>1, <2>7 DEF ShownTold
    <2>9. \A x \in q.dir : x.id \in g BY <2>4
    <2>10. t.nextId <= q.nextId BY <2>2, <2>3
    <2>11. ShownSafe(fl, q, g)
      BY <2>1, <2>3, <2>5, <2>6, <2>8, <2>9, <2>10 DEF ShownSafe
    <2> QED BY <2>4, <2>11
  <1> QED BY <1>1, <1>3, <1>4

\* A scan that ends finds again what the journal does not exceed.
LEMMA RecoverShows ==
  ASSUME NEW fl, FlashOK(fl), NEW m, StoreOK(fl, m), AreaSafe(fl, m), m.job = "scan",
         NEW h, ShownSafe(fl, m, h),
         NEW w, w = Walk(fl, Claims(m)), NEW c, c = Scanned(m, w),
         NEW n, n = [m EXCEPT !.nextId = c.nextId],
         NEW q, q = IF ~c.ok THEN Failed
                    ELSE IF c.repair # <<>>
                    THEN [n EXCEPT !.op = Head(c.repair), !.job = "repair"]
                    ELSE RecoveryComplete([n EXCEPT !.dir = c.dir])
  PROVE  ShownSafe(fl, q, h \cup {x.id : x \in q.dir})
  <1>1. /\ m \in Stores /\ Base(m) /\ PendingOK(m) /\ fl \in [Chip -> PageSet]
        /\ RecoverySafe(fl, m) /\ ~Running(m)
    BY StoreParts DEF FlashOK, StoreOK, AreaSafe, Running
  <1>2. /\ h \in SUBSET Ids /\ ShownTold(fl, m, h) /\ Told(fl).nextId <= m.nextId
        /\ \A x \in m.dir : x.id \in h
    BY DEF ShownSafe
  <1>3. CASE ~c.ok
    <2>1. q = Failed BY <1>3
    <2> QED BY <1>2, <2>1, StoppedShows
  <1>4. PICK t : t = Told(fl) OBVIOUS
  <1>5. /\ Tells(fl) /\ t.nextId \in Nat /\ m.nextId \in Nat /\ t.nextId <= m.nextId
        /\ m.dir = t.dir /\ \A d \in t.dir : d.id < t.nextId
    <2>1. Tells(fl) /\ m.dir = t.dir BY <1>1, <1>4 DEF RecoverySafe
    <2>2. t.nextId \in Nat /\ \A d \in t.dir : d.id < t.nextId
      BY <1>4, <2>1, ToldBelow
    <2>3. m.nextId \in Nat BY <1>1, Sizes DEF Stores
    <2> QED BY <1>2, <1>4, <2>1, <2>2, <2>3
  <1>6. /\ Claims(m) = m.dir /\ m.dir \in SUBSET Finals /\ ~m.active
    BY ClaimsAre
  <1>7. w \in WalkResults /\ WalkOK(fl, m.dir, 0, w) BY <1>1, <1>6, WalkGoes, WalkSays
  <1>8. ASSUME c.ok
        PROVE  /\ c.dir \in SUBSET Finals /\ IsFiniteSet(c.dir)
               /\ c.nextId \in 1 .. IdLimit /\ c.nextId \in Nat /\ m.nextId <= c.nextId
               /\ \A s \in c.dir : s.id < c.nextId
    <2>1. /\ c.dir \in SUBSET Finals /\ IsFiniteSet(c.dir)
          /\ c.nextId \in 1 .. IdLimit /\ m.nextId <= c.nextId
          /\ \A s \in c.dir : s.id < c.nextId
      BY <1>1, <1>7, <1>8, ScannedIs
    <2> QED BY <2>1, Sizes
  <1>9. CASE c.ok /\ c.repair # <<>>
    <2>1. q = [n EXCEPT !.op = Head(c.repair), !.job = "repair"] BY <1>9
    <2>2. q.job = "repair" /\ q.dir = m.dir /\ q.nextId = c.nextId
      BY <1>1, <2>1 DEF Stores
    <2>3. ~Running(q) BY <2>2 DEF Running
    <2>4. ShownTold(fl, q, h) BY <1>2, <2>3, ShownStopped
    <2>5. t.nextId <= q.nextId BY <1>5, <1>8, <1>9, <2>2
    <2>6. ShownSafe(fl, q, h) BY <1>2, <1>4, <2>2, <2>3, <2>4, <2>5 DEF ShownSafe
    <2>7. PICK g : g = h \cup {x.id : x \in q.dir} OBVIOUS
    <2>8. g = h BY <1>2, <2>2, <2>7
    <2> QED BY <2>6, <2>7, <2>8
  <1>10. CASE c.ok /\ c.repair = <<>>
    <2>1. /\ w.ok /\ w.repair = <<>> /\ c.dir = m.dir \cup ToSet(w.found)
          /\ \A s \in ToSet(w.found), d \in m.dir \cup ToSet(w.found) :
                s # d => s.id # d.id /\ ~Overlaps(s, d)
      BY <1>10 DEF Scanned
    <2>2. PICK p : p = [n EXCEPT !.dir = c.dir] OBVIOUS
    <2>3. p \in Stores BY <1>1, <1>8, <1>10, <2>2 DEF Stores
    <2>4. /\ p.dir = c.dir /\ p.nextId = c.nextId /\ p.reclaim = m.reclaim
          /\ p.pending = m.pending
      BY <1>1, <2>2 DEF Stores
    <2>5. p.pending => p.reclaim \in Finals BY <1>1, <1>6, <2>4 DEF PendingOK
    <2>6. MaxEnd(p.dir) \in 0 .. Pages BY <1>8, <1>10, <2>4, MaxEndIs
    <2>7. q = RecoveryComplete(p) BY <1>10, <2>2
    <2>8. Holds(p, q) /\ Doing(q) \notin {"confirm", "begin"}
      BY <2>3, <2>5, <2>6, <2>7, CompleteHolds
    <2>9. q.dir = c.dir /\ q.nextId = c.nextId BY <2>4, <2>8 DEF Holds
    <2>10. PICK g : g = h \cup {x.id : x \in q.dir} OBVIOUS
    <2>11. g \in SUBSET Ids BY <1>2, <1>8, <1>10, <2>9, <2>10 DEF Finals
    <2>12. \A d \in m.dir : Closed(fl, d)
      <3>1. LedgerOK(fl, t) BY <1>4, <1>5 DEF AreaSafe, FlashSafe
      <3> QED BY <1>5, <3>1 DEF LedgerOK, SessionsOK
    <2>13. ASSUME NEW x \in ToSet(w.found)
           PROVE  x \in Descriptions /\ Remembered(fl, x) /\ StoredIn(ToSet(w.found), x)
      <3>1. /\ fl \in [Chip -> PageSet] /\ m.dir \in SUBSET Finals
            /\ w \in WalkResults /\ WalkOK(fl, m.dir, 0, w) /\ x \in ToSet(w.found)
        BY <1>1, <1>6, <1>7, <2>13
      <3> QED BY ONLY <2>1, <2>12, <3>1, FoundStays
    <2>14. \A k : StoredIn(ToSet(w.found), k) => StoredIn(q.dir, k)
      BY <2>1, <2>9 DEF StoredIn
    <2>15. ASSUME NEW id \in g
           PROVE  id < c.nextId /\ (id < t.nextId \/ ShownThere(fl, q, id))
      <3>1. id \in Nat BY <2>11, <2>15, Sizes DEF Ids
      <3>2. CASE id < t.nextId BY <1>5, <1>8, <1>10, <3>1, <3>2
      <3>3. ASSUME NEW k \in Descriptions, k.id = id, Remembered(fl, k),
                   StoredIn(ToSet(w.found), k)
            PROVE  id < c.nextId /\ ShownThere(fl, q, id)
        <4>1. StoredIn(q.dir, k) BY <2>14, <3>3
        <4>2. Known(c.dir, id) BY <2>9, <3>3, <4>1 DEF StoredIn, Known
        <4> QED BY <1>8, <1>10, <3>3, <4>1, <4>2 DEF ShownThere, Known
      <3>4. CASE id \in h /\ ~(id < t.nextId)
        <4>1. ShownThere(fl, m, id) BY <1>2, <1>4, <1>5, <3>4 DEF ShownTold
        <4>2. PICK k \in Descriptions : k.id = id /\ Remembered(fl, k)
          BY <4>1 DEF ShownThere
        <4>3. ~Known(m.dir, id) BY <1>5, <3>4 DEF Known
        <4>4. StoredIn(ToSet(w.found), k) BY <1>1, <1>7, <2>1, <4>2, <4>3, FoundAgain
        <4> QED BY <3>3, <4>2, <4>4
      <3>5. CASE id \notin h
        <4>1. PICK x \in ToSet(w.found) : x.id = id
          BY <1>2, <2>1, <2>9, <2>10, <2>15, <3>5
        <4> QED BY <2>13, <3>3, <4>1
      <3> QED BY <3>2, <3>4, <3>5
    <2>16. ShownTold(fl, q, g) BY <1>4, <2>15 DEF ShownTold
    <2>17. \A x \in q.dir : x.id \in g BY <2>10
    <2>18. q.job # "begin" BY <2>8 DEF Doing, RotationJobs
    <2>19. q.job \notin {"scan", "repair"}
      <3>1. Goes(fl, q)
        <4>1. p = [m EXCEPT !.nextId = Scanned(m, w).nextId, !.dir = Scanned(m, w).dir]
          BY <1>1, <2>2 DEF Stores
        <4>2. Scanned(m, w).ok /\ Scanned(m, w).repair = <<>> BY <1>10
        <4>3. Goes(fl, RecoveryComplete([m EXCEPT !.nextId = Scanned(m, w).nextId,
                                                  !.dir = Scanned(m, w).dir]))
          BY <4>2, CompleteSafe
        <4> QED BY <2>7, <4>1, <4>3
      <3> QED BY <3>1 DEF Goes
    <2>20. ShownSafe(fl, q, g)
      BY <2>9, <2>11, <2>15, <2>16, <2>17, <2>18, <2>19 DEF ShownSafe
    <2> QED BY <2>10, <2>20
  <1> QED BY <1>3, <1>9, <1>10

-----------------------------------------------------------------------------
(* No identity that was shown begins a session again.                        *)

LEMMA CallShows ==
  ASSUME NEW fl, NEW m, NEW h, ShownSafe(fl, m, h), NEW q, Running(q) => Running(m),
         \A x \in q.dir : Known(m.dir, x.id), \A k : StoredIn(m.dir, k) => StoredIn(q.dir, k),
         \A id \in h : id < m.nextId => id < q.nextId,
         q.job \notin {"scan", "repair"}, q.job = "begin" => q.act.id \notin h
  PROVE  ShownSafe(fl, q, h \cup {x.id : x \in q.dir})
  <1>1. PICK g : g = h \cup {x.id : x \in q.dir} OBVIOUS
  <1>2. g = h BY <1>1 DEF ShownSafe, Known
  <1>3. \A id : ShownThere(fl, m, id) => ShownThere(fl, q, id) BY DEF ShownThere
  <1>4. ShownTold(fl, q, h) BY <1>3 DEF ShownSafe, ShownTold
  <1>5. \A x \in q.dir : x.id \in h BY <1>1, <1>2
  <1> QED BY <1>1, <1>2, <1>4, <1>5 DEF ShownSafe

LEMMA HeldShows ==
  ASSUME NEW fl, NEW m, NEW h, ShownSafe(fl, m, h), NEW q, Running(q) => Running(m),
         Holds(m, q), Doing(q) \notin {"begin", "scan", "repair"}
  PROVE  ShownSafe(fl, q, h \cup {x.id : x \in q.dir})
  <1>1. q.job \notin {"begin", "scan", "repair"} BY DEF Doing, RotationJobs
  <1> QED BY <1>1, CallShows DEF Holds, Known

LEMMA ConfirmShows ==
  ASSUME NEW fl, NEW m, StoreOK(fl, m), Running(m), NEW h, ShownSafe(fl, m, h),
         NEW d \in m.dir, NEW x, x = [d EXCEPT !.next = d.begin], NEW e, NEW q,
         q = Journal([m EXCEPT !.dir = Replace(@, x), !.foreign = FALSE, !.reclaim = x],
                     e, "confirm")
  PROVE  ShownSafe(fl, q, h \cup {y.id : y \in q.dir})
  <1>1. m \in Stores /\ d \in Finals /\ DirectoryOK(m) BY StoreParts DEF Stores
  <1>2. /\ x.id = d.id /\ x.owner = d.owner /\ x.begin = d.begin /\ x.end = d.end
        /\ x.next = d.begin /\ x.count = d.count /\ x.confirmed = d.confirmed
        /\ x \in Descriptions
    BY <1>1 DEF Finals, Descriptions
  <1>3. x \in Finals
    <2>1. d.begin <= d.end BY <1>1, Sizes DEF Finals, Descriptions
    <2> QED BY <1>1, <1>2, <2>1 DEF Finals
  <1>4. PICK p : p = [m EXCEPT !.dir = Replace(@, x), !.foreign = FALSE, !.reclaim = x]
    OBVIOUS
  <1>5. p \in Stores /\ p.dir = Replace(m.dir, x) /\ p.nextId = m.nextId
    <2>1. Replace(m.dir, x) \in SUBSET Finals BY <1>1, <1>3 DEF Replace, Stores
    <2> QED BY <1>1, <1>3, <1>4, <2>1 DEF Stores
  <1>6. Holds(p, q) /\ Doing(q) = "confirm"
    <2>1. "confirm" \in JournalJobs BY DEF JournalJobs
    <2>2. q = Journal(p, e, "confirm") BY <1>4
    <2>3. p \in Stores BY <1>5
    <2> QED BY ONLY <2>1, <2>2, <2>3, JournalHolds
  <1>7. q.dir = Replace(m.dir, x) /\ q.nextId = m.nextId BY <1>5, <1>6 DEF Holds
  <1>8. \A y \in q.dir : Known(m.dir, y.id) BY <1>2, <1>7 DEF Replace, Known
  <1>9. ASSUME NEW k, StoredIn(m.dir, k) PROVE StoredIn(q.dir, k)
    <2>1. PICK y \in m.dir :
               /\ y.id = k.id /\ y.owner = k.owner /\ y.begin = k.begin
               /\ y.count \in k.count .. k.count + 1 /\ ~y.confirmed
               /\ Slot(k.begin, k.count + 1) + 2 <= y.end
      BY <1>9 DEF StoredIn
    <2>2. CASE y.id = x.id
      <3>1. y = d BY <1>1, <1>2, <2>2 DEF DirectoryOK, Separate
      <3>2. x \in q.dir BY <1>7 DEF Replace
      <3> QED BY <1>2, <2>1, <3>1, <3>2 DEF StoredIn
    <2>3. CASE y.id # x.id
      <3>1. y \in q.dir BY <1>7, <2>3 DEF Replace
      <3> QED BY <2>1, <3>1 DEF StoredIn
    <2> QED BY <2>2, <2>3
  <1>10. q.job \notin {"begin", "scan", "repair"} BY <1>6 DEF Doing, RotationJobs
  <1> QED BY <1>7, <1>8, <1>9, <1>10, CallShows

LEMMA BeginShows ==
  ASSUME NEW fl, NEW m, StoreOK(fl, m), Running(m), NEW h, ShownSafe(fl, m, h), NEW a, NEW o,
         a.id = m.nextId, NEW q,
         q = [m EXCEPT !.act = a, !.nextId = @ + 1, !.mode = "busy", !.job = "begin", !.op = o]
  PROVE  ShownSafe(fl, q, h \cup {x.id : x \in q.dir})
  <1>1. m \in Stores /\ m.nextId \in Nat BY StoreParts, Sizes DEF Stores
  <1>2. q.dir = m.dir /\ q.nextId = m.nextId + 1 /\ q.job = "begin" /\ q.act = a
    BY <1>1 DEF Stores
  <1>3. h \in SUBSET Ids /\ \A id \in h : id < m.nextId BY DEF ShownSafe
  <1>4. \A id \in h : id \in Nat BY <1>3, Sizes DEF Ids
  <1>5. \A id \in h : id < m.nextId => id < q.nextId BY <1>1, <1>2, <1>4
  <1>6. q.act.id \notin h BY <1>1, <1>2, <1>3
  <1> QED BY <1>2, <1>5, <1>6, CallShows DEF Known

LEMMA ShownInit == ASSUME Init PROVE ShownInv
  <1>1. AreaInv BY AreaInit
  <1>2. store = Off /\ shown = {} BY DEF Init
  <1>3. ShownTold(flash, store, {}) BY DEF ShownTold
  <1>4. ShownSafe(flash, store, shown \cup {x.id : x \in store.dir})
    BY <1>2, <1>3, StoppedShows
  <1>5. store.dir = {} BY <1>2 DEF Off
  <1>6. shown \cup {x.id : x \in store.dir} = shown BY <1>5
  <1> QED BY <1>1, <1>4, <1>6 DEF ShownInv

LEMMA ShownNext == ASSUME ShownInv, [Next]_vars PROVE ShownInv'
  <1>1. /\ FlashOK(flash) /\ StoreOK(flash, store) /\ AreaSafe(flash, store) /\ AreaInv
        /\ ShownSafe(flash, store, shown)
    BY DEF ShownInv, AreaInv, StoreInv
  <1>2. store \in Stores /\ JobOK(store) BY <1>1, StoreParts
  <1>3. AreaInv' BY <1>1, AreaNext
  <1>4. ASSUME NEW new, NEW q, flash' = new, Do(q),
               ShownSafe(new, q, shown \cup {x.id : x \in q.dir})
        PROVE  ShownInv'
    <2>1. store' = q /\ shown' = shown \cup {x.id : x \in store'.dir} BY <1>4 DEF Do
    <2>2. PICK g : g = shown \cup {x.id : x \in q.dir} OBVIOUS
    <2>3. shown' = g BY <2>1, <2>2
    <2> QED BY <1>3, <1>4, <2>1, <2>2, <2>3 DEF ShownInv
  <1>5. ASSUME NEW q, Do(q), UNCHANGED flash,
               ShownSafe(flash, q, shown \cup {x.id : x \in q.dir})
        PROVE  ShownInv'
    <2>1. PICK new : new = flash OBVIOUS
    <2>2. flash' = new BY <1>5, <2>1
    <2> QED BY <1>4, <1>5, <2>1, <2>2
  <1>6. ASSUME NEW q, Do(q), UNCHANGED flash, Running(q) => Running(store),
               Holds(store, q), Doing(q) \notin {"begin", "scan", "repair"}
        PROVE  ShownInv'
    BY <1>1, <1>5, <1>6, HeldShows
  <1>7. store.active => store.mode \in {"ready", "busy"} BY <1>2 DEF JobOK, Stores
  <1>8. (store.active \/ store.mode = "ready") /\ store.job = "none" => Running(store)
    BY <1>7 DEF Running, Mounted
  <1>9. CASE OperationDone
    <2>1. PICK new : new = flash' OBVIOUS
    <2> DEFINE m == IF ~Verified(new, store.op) THEN Failed
                    ELSE IF store.mode = "recovering" THEN RecoveryStep(store)
                    ELSE RuntimeStep(store)
    <2>2. store.op # Idle /\ new = Completed(flash, store.op) /\ Do(m)
      BY <1>9, <2>1 DEF OperationDone
    <2>3. PICK q : q = m OBVIOUS
    <2>4. new \in Interrupted(flash, store.op)
      BY <1>1, <2>2, StoreParts, CompletedMayHappen DEF FlashOK
    <2>5. StoreOK(new, q) /\ AreaSafe(new, q)
      BY <1>3, <2>1, <2>2, <2>3 DEF AreaInv, StoreInv, Do
    <2>6. ShownSafe(new, q, shown \cup {x.id : x \in q.dir})
      BY <1>1, <2>2, <2>3, <2>4, <2>5, StepShows
    <2>7. Do(q) BY <2>2, <2>3
    <2> QED BY <1>4, <2>1, <2>6, <2>7
  <1>10. CASE Mount
    <2>1. PICK q : q = Replay(flash) OBVIOUS
    <2>2. Do(q) /\ UNCHANGED flash BY <1>10, <2>1 DEF Mount
    <2> QED BY <1>1, <1>5, <2>1, <2>2, MountShows
  <1>11. CASE Recover
    <2>1. PICK w : /\ w = Walk(flash, Claims(store)) /\ store.job = "scan"
                   /\ UNCHANGED flash
                   /\ LET c == Scanned(store, w)
                          m == [store EXCEPT !.nextId = c.nextId]
                      IN  Do(IF ~c.ok THEN Failed
                             ELSE IF c.repair # <<>>
                             THEN [m EXCEPT !.op = Head(c.repair), !.job = "repair"]
                             ELSE RecoveryComplete([m EXCEPT !.dir = c.dir]))
      BY <1>11 DEF Recover
    <2>2. PICK c : c = Scanned(store, w) OBVIOUS
    <2>3. PICK m : m = [store EXCEPT !.nextId = c.nextId] OBVIOUS
    <2>4. PICK q : q = IF ~c.ok THEN Failed
                       ELSE IF c.repair # <<>>
                       THEN [m EXCEPT !.op = Head(c.repair), !.job = "repair"]
                       ELSE RecoveryComplete([m EXCEPT !.dir = c.dir])
      OBVIOUS
    <2>5. Do(q) BY <2>1, <2>2, <2>3, <2>4
    <2>6. ShownSafe(flash, q, shown \cup {x.id : x \in q.dir})
      BY ONLY <1>1, <2>1, <2>2, <2>3, <2>4, RecoverShows
    <2> QED BY <1>5, <2>1, <2>5, <2>6
  <1>12. ASSUME NEW u \in Users, BeginSession(u) PROVE ShownInv'
    <2>1. PICK b : b = AlignUp(store.head) OBVIOUS
    <2>2. PICK a : a = Session(store.nextId, u, b, b, 0) OBVIOUS
    <2>3. PICK o : o = Program(b, BeginPage(a.id, u)) OBVIOUS
    <2>4. PICK q : q = [store EXCEPT !.act = a, !.nextId = @ + 1, !.mode = "busy",
                                     !.job = "begin", !.op = o]
      OBVIOUS
    <2>5. store.mode = "ready" /\ store.job = "none" /\ Do(q) /\ UNCHANGED flash
      BY <1>12, <2>1, <2>2, <2>3, <2>4 DEF BeginSession, Resting
    <2>6. a.id = store.nextId BY <2>2 DEF Session
    <2>7. ShownSafe(flash, q, shown \cup {x.id : x \in q.dir})
      BY <1>1, <1>8, <2>4, <2>5, <2>6, BeginShows
    <2> QED BY <1>5, <2>5, <2>7
  <1>13. CASE AppendEvent
    <2>1. PICK q : q = [store EXCEPT !.job = "page0",
                          !.op = Program(Slot(store.act.begin, store.act.count),
                                         EventHead(store.act.id, store.act.count))]
      OBVIOUS
    <2>2. store.active /\ store.job = "none" /\ Do(q) /\ UNCHANGED flash
      BY <1>13, <2>1 DEF AppendEvent
    <2>3. Holds(store, q) /\ q.job = "page0" BY <1>2, <2>1 DEF Stores, Holds
    <2>4. Doing(q) = "page0" BY <2>3 DEF Doing, RotationJobs
    <2> QED BY <1>6, <1>8, <2>2, <2>3, <2>4
  <1>14. CASE Checkpoint
    <2>1. PICK e : e = Entry("checkpoint",
                         ActiveInfo(store.act, Slot(store.act.begin, store.act.count)))
      OBVIOUS
    <2>2. PICK q : q = Journal(store, e, "checkpoint") OBVIOUS
    <2>3. store.active /\ store.job = "none" /\ Do(q) /\ UNCHANGED flash
      BY <1>14, <2>1, <2>2 DEF Checkpoint
    <2>4. "checkpoint" \in JournalJobs BY DEF JournalJobs
    <2>5. Holds(store, q) /\ Doing(q) = "checkpoint" BY <1>2, <2>2, <2>4, JournalHolds
    <2> QED BY <1>6, <1>8, <2>3, <2>5
  <1>15. CASE FinalizeSession
    <2>1. PICK q : q = [store EXCEPT !.mode = "busy", !.job = "end",
                          !.op = Program(FinalSector(store.act),
                                         EndPage(store.act.id, store.act.count))]
      OBVIOUS
    <2>2. store.active /\ store.job = "none" /\ Do(q) /\ UNCHANGED flash
      BY <1>15, <2>1 DEF FinalizeSession
    <2>3. Holds(store, q) /\ q.job = "end" BY <1>2, <2>1 DEF Stores, Holds
    <2>4. Doing(q) = "end" BY <2>3 DEF Doing, RotationJobs
    <2> QED BY <1>6, <1>8, <2>2, <2>3, <2>4
  <1>16. \A u : OwnedBy(store.dir, u) \in SUBSET Finals /\ OwnedBy(store.dir, u) \subseteq store.dir
    BY <1>2 DEF OwnedBy, Stores
  <1>17. ASSUME NEW u \in Users, ConfirmSession(u) PROVE ShownInv'
    <2>1. PICK d : d = Latest(OwnedBy(store.dir, u)) OBVIOUS
    <2>2. PICK x : x = [d EXCEPT !.next = d.begin] OBVIOUS
    <2>3. PICK e : e = Entry("confirmed", x) OBVIOUS
    <2>4. PICK q : q = Journal([store EXCEPT !.dir = Replace(@, x), !.foreign = FALSE,
                                             !.reclaim = x], e, "confirm")
      OBVIOUS
    <2>5. /\ store.mode = "ready" /\ store.job = "none" /\ OwnedBy(store.dir, u) # {}
          /\ Do(q) /\ UNCHANGED flash
      BY <1>17, <2>1, <2>2, <2>3, <2>4 DEF ConfirmSession, Resting
    <2>6. d \in store.dir BY <1>16, <2>1, <2>5, LatestIs
    <2>7. ShownSafe(flash, q, shown \cup {y.id : y \in q.dir})
      BY <1>1, <1>8, <2>2, <2>4, <2>5, <2>6, ConfirmShows
    <2> QED BY <1>5, <2>5, <2>7
  <1>18. ASSUME NEW u \in Purgers, PurgeRequest(u) PROVE ShownInv'
    <2>1. PICK e : e = Entry("purge_begin", [NoSession EXCEPT !.owner = u]) OBVIOUS
    <2>2. PICK p : p = [store EXCEPT !.purge = u, !.mode = "busy"] OBVIOUS
    <2>3. PICK q : q = Journal(p, e, "purge_begin") OBVIOUS
    <2>4. store.mode = "ready" /\ store.job = "none" /\ Do(q) /\ UNCHANGED flash
      BY <1>18, <2>1, <2>2, <2>3 DEF PurgeRequest, Resting
    <2>5. u \in Users BY StorageAssumption
    <2>6. p \in Stores /\ p.dir = store.dir /\ p.nextId = store.nextId
      BY <1>2, <2>2, <2>5 DEF Stores, Owners
    <2>7. Holds(p, q) /\ Doing(q) = "purge_begin"
      <3>1. "purge_begin" \in JournalJobs BY DEF JournalJobs
      <3> QED BY <2>3, <2>6, <3>1, JournalHolds
    <2>8. q.dir = store.dir /\ q.nextId = store.nextId BY <2>6, <2>7 DEF Holds
    <2>9. q.job \notin {"begin", "scan", "repair"} BY <2>7 DEF Doing, RotationJobs
    <2>10. ShownSafe(flash, q, shown \cup {x.id : x \in q.dir})
      BY <1>1, <1>8, <2>4, <2>8, <2>9, CallShows DEF Known
    <2> QED BY <1>5, <2>4, <2>10
  <1>19. CASE PauseReclaim \/ ReleaseReclaim
    <2>1. PICK b \in BOOLEAN : Do([store EXCEPT !.paused = b]) /\ UNCHANGED flash
      BY <1>19 DEF PauseReclaim, ReleaseReclaim
    <2>2. PICK q : q = [store EXCEPT !.paused = b] OBVIOUS
    <2>3. /\ Holds(store, q) /\ q.mode = store.mode /\ q.job = store.job
          /\ q.resume = store.resume
      BY <1>2, <2>2 DEF Stores, Holds
    <2>4. Running(q) => Running(store) BY <2>3 DEF Running, Mounted
    <2>5. Doing(store) \notin {"begin", "scan", "repair"}
      <3>1. store.job # "begin" /\ store.resume # "begin"
        BY <1>2, <1>19 DEF PauseReclaim, ReleaseReclaim, Resting, Stores, JournalJobs
      <3>2. store.job \notin {"scan", "repair"}
        BY <1>2, <1>19 DEF PauseReclaim, ReleaseReclaim, Resting, JobOK
      <3>3. store.resume \notin {"scan", "repair"} BY <1>2 DEF Stores, JournalJobs
      <3> QED BY <3>1, <3>2, <3>3 DEF Doing
    <2>6. Doing(q) = Doing(store) BY <2>3 DEF Doing
    <2> QED BY <1>6, <2>1, <2>2, <2>3, <2>4, <2>5, <2>6
  <1>20. ASSUME NEW u \in Users, ResumeReclaim(u) PROVE ShownInv'
    <2>1. PICK x : x = Latest(OwnedBy(store.dir, u)) OBVIOUS
    <2>2. PICK p : p = [store EXCEPT !.foreign = FALSE] OBVIOUS
    <2>3. PICK q : q = StartReclaim(p, x) OBVIOUS
    <2>4. /\ store.mode = "ready" /\ store.job = "none" /\ ~store.active
          /\ OwnedBy(store.dir, u) # {} /\ x.confirmed
          /\ Do(q) /\ UNCHANGED flash
      BY <1>20, <2>1, <2>2, <2>3 DEF ResumeReclaim, Resting
    <2>5. x \in Finals /\ x \in store.dir BY <1>16, <2>1, <2>4, LatestIs
    <2>6. p \in Stores /\ Holds(store, p) BY <1>2, <2>2 DEF Stores, Holds
    <2>7. Holds(p, q) /\ Doing(q) \notin {"confirm", "begin"} BY <2>3, <2>5, <2>6, ReclaimHolds
    <2>8. Goes(flash, q) BY <1>1, <2>2, <2>3, <2>4, <2>5, ResumeSafe
    <2>9. q.job \notin {"begin", "scan", "repair"}
      BY <2>7, <2>8 DEF Goes, Doing, RotationJobs
    <2>10. q.dir = store.dir /\ q.nextId = store.nextId BY <2>6, <2>7 DEF Holds
    <2>11. ShownSafe(flash, q, shown \cup {y.id : y \in q.dir})
      BY <1>1, <1>8, <2>4, <2>9, <2>10, CallShows DEF Known
    <2> QED BY <1>5, <2>4, <2>11
  <1>21. CASE PowerLoss \/ FlashFault
    <2>1. PICK new, q : /\ new \in Interrupted(flash, store.op) /\ q \in {Off, Failed}
                        /\ flash' = new /\ Do(q)
      BY <1>21 DEF PowerLoss, FlashFault
    <2>2. ShownTold(new, store, shown) /\ shown \in SUBSET Ids
      BY <1>1, <2>1, ShownCut DEF ShownSafe
    <2>3. ShownSafe(new, q, shown \cup {x.id : x \in q.dir})
      BY <2>1, <2>2, StoppedShows
    <2> QED BY <1>4, <2>1, <2>3
  <1>22. CASE UNCHANGED vars
    BY <1>1, <1>3, <1>22 DEF ShownInv, vars
  <1> QED
    BY <1>9, <1>10, <1>11, <1>12, <1>13, <1>14, <1>15, <1>17, <1>18, <1>19, <1>20, <1>21, <1>22
    DEF Next

(* Every identity that the directory has shown is below the one a boot      *)
(* would be told comes next, or the pages of its session stand on Flash,    *)
(* where the scan of a boot finds them and counts past them.                *)
THEOREM ShownInvariant == Spec => []ShownInv
  <1>1. Init => ShownInv BY ShownInit
  <1>2. ShownInv /\ [Next]_vars => ShownInv' BY ShownNext
  <1> QED BY <1>1, <1>2, PTL DEF Spec

(* No session begins under an identity that the directory has ever shown,   *)
(* however often the journal changed banks, what they named was erased and  *)
(* the power went: for every size of the area, the banks and the directory. *)
THEOREM IdentityNotReused == Spec => []IdentityNeverReused
  <1>1. ShownInv => IdentityNeverReused BY DEF ShownInv, ShownSafe, IdentityNeverReused
  <1> QED BY <1>1, ShownInvariant, PTL

=============================================================================
