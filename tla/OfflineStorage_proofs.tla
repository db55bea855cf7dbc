----------------------- MODULE OfflineStorage_proofs -----------------------
(***************************************************************************)
(* Proofs about OfflineStorage.                                            *)
(*                                                                         *)
(* The invariant has four parts: what the Flash and the store may hold     *)
(* (Shapes), what a job has under way (Jobs), where the session being      *)
(* recorded and the one being erased stand to the directory (Extents), and *)
(* what the current journal bank recalls (Journal).                        *)
(***************************************************************************)
EXTENDS OfflineStorage, DivModLemmas, FiniteSetTheorems, SequenceTheorems,
        WellFoundedInduction, TLAPS

-----------------------------------------------------------------------------
(* Shapes *)

Owners == Users \cup {NoUser}
Sectored(p) == \E k \in 0 .. Sectors : p = k * SectorPages

Descriptions ==
    [id : 0 .. IdLimit - 1, owner : Owners, begin : 0 .. Pages, end : 0 .. Pages,
     count : Nat, next : 0 .. Pages, confirmed : BOOLEAN, discard : BOOLEAN]

\* Sessions that have their END: whole sectors of the area.
Finals ==
    {s \in Descriptions :
        /\ s.id \in Ids /\ s.owner \in Users
        /\ Sectored(s.begin) /\ Sectored(s.end) /\ Sectored(s.next)
        /\ s.begin < s.end /\ s.next <= s.end}

Counted == {"open", "checkpoint", "final", "confirmed", "discard", "reclaimed"}
OfFinals == {"confirmed", "progress", "discard", "reclaimed"}
EntryTypes == Counted \cup {"progress", "purge_begin", "purge_done"}

BeginPages == [kind : {"begin"}, ok : BOOLEAN, id : Ids, owner : Users]
SlotPages  == [kind : {"event", "tail"}, ok : BOOLEAN, id : Ids, seq : Nat]
EndPages   == [kind : {"end"}, ok : BOOLEAN, id : Ids, count : Nat]
EntryPages ==
    {e \in [kind : {"entry"}, ok : BOOLEAN, type : EntryTypes, s : Descriptions] :
        e.type \in OfFinals => e.s \in Finals}
HeaderPages ==
    [kind : {"header"}, ok : BOOLEAN, gen : Nat, nextId : 1 .. IdLimit,
     purge : Owners, snap : 0 .. MaxSessions + 1, runtime : BOOLEAN]
PageSet ==
    {Blank, Scrap} \cup BeginPages \cup SlotPages \cup EndPages
      \cup EntryPages \cup HeaderPages

Operations ==
    {Idle} \cup [do : {"program"}, at : Chip, page : PageSet]
      \cup {o \in [do : {"erase"}, at : Nat, upto : Nat] : o.at <= o.upto}

JournalJobs == {"open", "checkpoint", "final", "confirm", "purge_begin", "discard",
                "progress", "reclaimed", "purge_done"}
RotationJobs == {"rotate", "snapshot", "header"}
PageJobs == {"begin", "page0", "page1", "commit", "end", "reclaim"}
Jobs == {"none", "scan", "repair"} \cup JournalJobs \cup RotationJobs \cup PageJobs

Stores ==
    [mode : {"off", "recovering", "ready", "busy", "error"}, job : Jobs,
     op : Operations, dir : SUBSET Finals, head : 0 .. Pages, nextId : 1 .. IdLimit,
     active : BOOLEAN, act : Descriptions, checked : Nat,
     cur : 0 .. 1, next : 1 .. BankPages, gen : Nat, snap : 0 .. MaxSessions + 1,
     runtime : BOOLEAN, held : PageSet, resume : {"none"} \cup JournalJobs,
     purge : Owners, pending : BOOLEAN, foreign : BOOLEAN,
     reclaim : Finals \cup {NoSession}, tomb : Finals \cup {NoSession},
     paused : BOOLEAN]

Separate(dir) ==
    \A s, d \in dir : s # d => s.id # d.id /\ ~Overlaps(s, d)
DirectoryOK(m) ==
    /\ IsFiniteSet(m.dir) /\ Cardinality(m.dir) <= MaxSessions
    /\ Separate(m.dir)
    /\ \A s \in m.dir : s.id < m.nextId

Base(m) == m \in Stores /\ DirectoryOK(m)

-----------------------------------------------------------------------------
(* Jobs *)

Entries == {e \in EntryPages : e.ok}

Releases == {"confirm", "discard", "progress"}

\* What a job that writes an entry relies on when the entry is on Flash.
Purposes(m, job) ==
    /\ job \in Releases \cup {"reclaimed"} =>
          m.reclaim \in Finals /\ m.reclaim.id < m.nextId
    /\ job \in {"checkpoint", "final"} => m.active
    /\ job \notin {"open", "checkpoint", "final"} => ~m.active
    /\ job = "open" => ~m.active

\* The entry that a job writes.
Fits(m, job, page) ==
    /\ page \in Entries
    /\ page.type = "progress" <=> job = "progress"
    /\ job \in Releases => page.s.id = m.reclaim.id
    /\ job \in Releases \ {"progress"} => page.type \in Counted

JobOK(m) ==
    /\ m.op = Idle <=> m.job \in {"none", "scan"}
    /\ m.mode \in {"off", "error"} => m.job = "none" /\ ~m.active
    /\ m.job \in {"scan", "repair"} => m.mode = "recovering"
    /\ m.mode = "recovering" => ~m.active /\ m.job # "none"
    /\ m.job \in JournalJobs =>
          /\ m.next < BankPages /\ Purposes(m, m.job)
          /\ m.op.do = "program" /\ m.op.at = Bank(m.cur) + m.next
          /\ Fits(m, m.job, m.op.page)
    /\ m.job \in RotationJobs =>
          /\ m.resume \in JournalJobs /\ Purposes(m, m.resume)
          /\ Fits(m, m.resume, m.held)
    /\ m.job \notin RotationJobs => m.resume = "none"
    /\ m.job \in {"page0", "page1", "commit", "end"} => m.active
    /\ m.job \in {"begin", "reclaim"} => ~m.active
    /\ m.job \in {"page0", "page1", "commit"} => m.op.do = "program"
    /\ m.job = "page0" => m.op.at = Slot(m.act.begin, m.act.count)
    /\ m.job \in {"page1", "commit"} => m.op.at = Slot(m.act.begin, m.act.count) + 1
    /\ m.job = "repair" \/ m.job \in PageJobs =>
          /\ m.op.do = "program" => m.op.at < Pages
          /\ m.op.do = "erase" => m.op.upto < Pages

-----------------------------------------------------------------------------
(* Extents *)

Recording(m) == m.active \/ m.job \in {"begin", "open"} \/ m.resume = "open"

\* The session being recorded lies behind the others, with room for its END.
Behind(m) ==
    /\ m.act.id \in Ids /\ m.act.owner \in Users /\ m.act.id < m.nextId
    /\ Sectored(m.act.begin) /\ m.head <= m.act.begin
    /\ \A s \in m.dir : s.id < m.act.id
    /\ FinalSector(m.act) + SectorPages <= Pages

RecordingOK(m) ==
    /\ Recording(m) => Behind(m)
    /\ m.job \in {"page0", "page1", "commit"} =>
          FinalSector([m.act EXCEPT !.count = @ + 1]) + SectorPages <= Pages

Covered(m) == \A s \in m.dir : s.end <= m.head
HeadOK(m) == m.mode \in {"ready", "busy"} \/ m.job \in JournalJobs \cup RotationJobs => Covered(m)

\* What is being erased is what the directory shows of it.
ReclaimOK(m) ==
    m.job = "reclaim" =>
        /\ m.reclaim \in Finals /\ m.reclaim.id < m.nextId
        /\ m.reclaim.begin <= m.reclaim.next /\ m.reclaim.next < m.reclaim.end
        /\ \A d \in m.dir : d.id = m.reclaim.id =>
              d.begin = m.reclaim.begin /\ d.end = m.reclaim.end

\* A reclaim that the journal left pending is in the directory.
PendingOK(m) ==
    m.job \in {"scan", "repair"} =>
        /\ m.pending => m.reclaim \in m.dir
        /\ \A s \in m.dir : s.confirmed

ExtentsOK(m) == RecordingOK(m) /\ HeadOK(m) /\ ReclaimOK(m) /\ PendingOK(m)

-----------------------------------------------------------------------------
(* Journal *)

\* The header of bank k or an entry before page n names an id of at least `id`.
Recalled(fl, k, n, id) ==
    \/ id < fl[Bank(k)].nextId
    \/ \E j \in 1 .. n - 1 :
          fl[Bank(k) + j].type \in Counted /\ id <= fl[Bank(k) + j].s.id

JournalOK(fl, k) ==
    /\ IsHeader(fl[Bank(k)])
    /\ IsHeader(fl[Bank(1 - k)]) => Generation(fl, 1 - k) < Generation(fl, k)
    /\ \A i \in Stop(fl, k) + 1 .. BankPages - 1 : fl[Bank(k) + i] = Blank
    /\ \A i \in 1 .. Stop(fl, k) - 1 :
          fl[Bank(k) + i].type = "progress" => Recalled(fl, k, i, fl[Bank(k) + i].s.id)

\* A progress entry that is on its way, or held until the banks have changed.
Writing(m) == "progress" \in {m.job, m.resume}

CursorOK(fl, m) ==
    LET recalled(id) == Recalled(fl, m.cur, Stop(fl, m.cur), id)
    IN  /\ JournalOK(fl, m.cur)
        /\ m.next < BankPages =>
              m.next = Stop(fl, m.cur) /\ fl[Bank(m.cur) + m.next] = Blank
        /\ \A s \in m.dir : s.confirmed => recalled(s.id)
        /\ m.job = "reclaim" => recalled(m.reclaim.id)
        /\ Writing(m) => recalled(m.reclaim.id)

\* The other bank, while it is prepared: its header comes last.
RotationOK(fl, m) ==
    LET other == Bank(1 - m.cur)
        size  == Len(SnapshotPages(m))
    IN  /\ m.job \notin {"snapshot", "header"} => m.gen = Generation(fl, m.cur)
        /\ m.job = "rotate" => m.op = Erase(other, BankPages)
        /\ m.job \in {"snapshot", "header"} =>
              /\ m.gen = Generation(fl, m.cur) + 1
              /\ fl[other] = Blank
              /\ \A i \in 1 .. m.snap :
                    fl[other + i] \in Entries /\ fl[other + i].type # "progress"
              /\ \A i \in m.snap + 1 .. BankPages - 1 : fl[other + i] = Blank
        /\ m.job = "snapshot" =>
              /\ m.snap < size
              /\ m.op = Program(other + 1 + m.snap, SnapshotPages(m)[m.snap + 1])
        /\ m.job = "header" => m.snap = size /\ m.op = Program(other, HeaderOf(m))

Mounted(m) == m.mode \in {"recovering", "ready", "busy"}
FlashOK(fl) == fl \in [Chip -> PageSet] /\ \E k \in 0 .. 1 : JournalOK(fl, k)
StoreOK(fl, m) ==
    /\ Base(m) /\ JobOK(m) /\ ExtentsOK(m)
    /\ Mounted(m) => CursorOK(fl, m) /\ RotationOK(fl, m)
StoreInv == FlashOK(flash) /\ StoreOK(flash, store)
-----------------------------------------------------------------------------
(* Pages and operations keep their shapes.                                   *)

LEMMA Sizes ==
  /\ Sectors \in Nat /\ SectorPages \in Nat /\ BankPages \in Nat /\ MaxSessions \in Nat
  /\ Sectors >= 1 /\ SectorPages >= 4 /\ MaxSessions >= 1 /\ BankPages >= MaxSessions + 3
  /\ Pages \in Nat /\ Pages >= SectorPages
  /\ IdLimit \in Nat /\ IdLimit > 1
  <1>1. Sectors * SectorPages >= SectorPages
    BY FlashAssumption, MulMono
  <1> QED BY <1>1, FlashAssumption, StorageAssumption DEF Pages

LEMMA TornPage ==
  ASSUME NEW page \in PageSet
  PROVE  Torn(page) \in PageSet /\ ~IsEntry(Torn(page)) /\ ~IsHeader(Torn(page))
  <1>1. CASE page \in {Blank, Scrap}
    <2>1. Torn(page) = page BY <1>1 DEF Torn, Blank, Scrap
    <2> QED BY <1>1, <2>1 DEF PageSet, Blank, Scrap, IsEntry, IsHeader
  <1>2. CASE page \in BeginPages BY <1>2 DEF Torn, PageSet, BeginPages, IsEntry, IsHeader
  <1>3. CASE page \in SlotPages BY <1>3 DEF Torn, PageSet, SlotPages, IsEntry, IsHeader
  <1>4. CASE page \in EndPages BY <1>4 DEF Torn, PageSet, EndPages, IsEntry, IsHeader
  <1>5. CASE page \in EntryPages
    <2>1. Torn(page) \in EntryPages BY <1>5 DEF Torn, EntryPages
    <2> QED BY <1>5, <2>1 DEF Torn, PageSet, EntryPages, IsEntry, IsHeader
  <1>6. CASE page \in HeaderPages BY <1>6 DEF Torn, PageSet, HeaderPages, IsEntry, IsHeader
  <1> QED BY <1>1, <1>2, <1>3, <1>4, <1>5, <1>6 DEF PageSet

LEMMA PageKinds ==
  ASSUME NEW page \in PageSet
  PROVE  /\ page.kind = "begin" => page \in BeginPages
         /\ page.kind = "header" => page \in HeaderPages
         /\ page.kind = "entry" => page \in EntryPages
  BY DEF PageSet, Blank, Scrap, BeginPages, SlotPages, EndPages, EntryPages, HeaderPages

LEMMA ProgrammedPage ==
  ASSUME NEW old, NEW new \in PageSet
  PROVE  Programmed(old, new) \in {new, Scrap}
  BY DEF Programmed

LEMMA CompletedShape ==
  ASSUME NEW fl \in [Chip -> PageSet], NEW op \in Operations
  PROVE  Completed(fl, op) \in [Chip -> PageSet]
  <1>1. CASE op = Idle BY <1>1 DEF Completed, Idle
  <1>2. CASE op \in [do : {"program"}, at : Chip, page : PageSet]
    <2>1. op.do = "program" /\ op.page \in PageSet /\ op.at \in Chip BY <1>2
    <2>2. Programmed(fl[op.at], op.page) \in PageSet BY <2>1, ProgrammedPage DEF PageSet
    <2>3. Completed(fl, op) = [fl EXCEPT ![op.at] = Programmed(@, op.page)]
      BY <2>1 DEF Completed
    <2> QED BY <2>2, <2>3
  <1>3. CASE op \in [do : {"erase"}, at : Nat, upto : Nat]
    <2>1. op.do = "erase" BY <1>3
    <2>2. Completed(fl, op) = [p \in Chip |-> IF p \in op.at .. op.upto THEN Blank ELSE fl[p]]
      BY <2>1 DEF Completed
    <2>3. Blank \in PageSet BY DEF PageSet
    <2> QED BY <2>2, <2>3
  <1> QED BY <1>1, <1>2, <1>3 DEF Operations

LEMMA ErasingPage ==
  ASSUME NEW how \in {"old", "blank", "scrap", "spoiled"}, NEW old
  PROVE  Erasing(how, old) \in {old, Blank, Scrap}
  BY DEF Erasing

\* What a cut leaves: the page as it was, or as meant, or torn, or nothing legible.
LEMMA CutProgram ==
  ASSUME NEW fl \in [Chip -> PageSet], NEW p \in Chip, NEW page \in PageSet,
         NEW cut \in Interrupted(fl, Program(p, page))
  PROVE  /\ cut \in [Chip -> PageSet]
         /\ \A q \in Chip \ {p} : cut[q] = fl[q]
         /\ cut[p] \in {fl[p], page, Torn(page), Scrap}
         /\ cut = fl \/ cut = [fl EXCEPT ![p] = cut[p]]
  <1>1. Interrupted(fl, Program(p, page)) =
          {fl, [fl EXCEPT ![p] = Programmed(@, page)]}
            \cup {[fl EXCEPT ![p] = IF how = "head" /\ @ = Blank THEN Torn(page) ELSE Scrap] :
                    how \in Tears \cap {"head", "garbled"}}
    BY DEF Interrupted, Program, Completed
  <1>2. PICK new \in {fl[p], page, Torn(page), Scrap} : cut = fl \/ cut = [fl EXCEPT ![p] = new]
    BY <1>1, ProgrammedPage
  <1>3. new \in PageSet BY TornPage DEF PageSet
  <1> QED BY <1>2, <1>3

LEMMA CutErase ==
  ASSUME NEW fl \in [Chip -> PageSet], NEW a \in Nat, NEW b \in Nat, a <= b,
         NEW cut \in Interrupted(fl, [do |-> "erase", at |-> a, upto |-> b])
  PROVE  /\ cut \in [Chip -> PageSet]
         /\ \A q \in Chip : q \notin a .. b => cut[q] = fl[q]
         /\ \A q \in Chip : cut[q] \in {fl[q], Blank, Scrap}
  <1> DEFINE ways == {"old", "blank"} \cup (Tears \cap {"scrap", "spoiled"})
  <1> DEFINE op == [do |-> "erase", at |-> a, upto |-> b]
  <1>1. PICK first \in ways, rest \in ways :
          cut = [q \in Chip |-> IF q = a THEN Erasing(first, fl[q])
                                ELSE IF q \in a .. b THEN Erasing(rest, fl[q]) ELSE fl[q]]
    <2>1. op.do = "erase" /\ op.at = a /\ op.upto = b OBVIOUS
    <2>2. cut \in Interrupted(fl, op) OBVIOUS
    <2> HIDE DEF op
    <2> QED BY <2>1, <2>2 DEF Interrupted
  <1>2. \A q \in Chip : cut[q] \in {fl[q], Blank, Scrap}
    BY <1>1, ErasingPage
  <1>3. {Blank, Scrap} \subseteq PageSet BY DEF PageSet
  <1>4. \A q \in Chip : cut[q] \in PageSet BY <1>2, <1>3
  <1>5. cut = [q \in Chip |-> cut[q]] BY <1>1
  <1>6. cut \in [Chip -> PageSet] BY <1>4, <1>5
  <1>7. ASSUME NEW q \in Chip, q \notin a .. b PROVE cut[q] = fl[q]
    BY <1>1, <1>7
  <1> QED BY <1>2, <1>6, <1>7

-----------------------------------------------------------------------------
(* The journal banks.                                                        *)

LEMMA MinIs ==
  ASSUME NEW S \in SUBSET Nat, S # {}
  PROVE  Min(S) \in S /\ \A y \in S : Min(S) <= y
  <1>1. PICK least \in S : \A y \in S : << y, least >> \notin OpToRel(<, Nat)
    BY WFMin, NatLessThanWellFounded
  <1>2. \A y \in S : ~(y < least) BY <1>1 DEF OpToRel
  <1>3. \A y \in S : least <= y BY <1>2
  <1> QED BY <1>3 DEF Min

LEMMA BankAddresses ==
  /\ Bank(0) = Pages /\ Bank(1) = Pages + BankPages
  /\ \A k \in 0 .. 1 : /\ Bank(k) \in Nat /\ 1 - k \in 0 .. 1 /\ 1 - k # k /\ 1 - (1 - k) = k
                       /\ \A i \in 0 .. BankPages - 1 : Bank(k) + i \in Chip \ (0 .. Pages - 1)
                       /\ \A i, j \in 0 .. BankPages - 1 : Bank(k) + i # Bank(1 - k) + j
  <1>1. 0 * BankPages = 0 /\ 1 * BankPages = BankPages BY Sizes
  <1>2. Bank(0) = Pages /\ Bank(1) = Pages + BankPages BY <1>1, Sizes DEF Bank
  <1>3. ASSUME NEW k \in 0 .. 1
        PROVE  /\ Bank(k) \in Nat /\ 1 - k \in 0 .. 1 /\ 1 - k # k /\ 1 - (1 - k) = k
               /\ \A i \in 0 .. BankPages - 1 : Bank(k) + i \in Chip \ (0 .. Pages - 1)
               /\ \A i, j \in 0 .. BankPages - 1 : Bank(k) + i # Bank(1 - k) + j
    <2>1. CASE k = 0 BY <1>2, <2>1, Sizes DEF Chip
    <2>2. CASE k = 1 BY <1>2, <2>2, Sizes DEF Chip
    <2> QED BY <2>1, <2>2
  <1> QED BY <1>2, <1>3

LEMMA StopIs ==
  ASSUME NEW fl, NEW k \in 0 .. 1
  PROVE  /\ Stop(fl, k) \in 1 .. BankPages
         /\ \A i \in 1 .. Stop(fl, k) - 1 : IsEntry(fl[Bank(k) + i])
         /\ Stop(fl, k) < BankPages => ~IsEntry(fl[Bank(k) + Stop(fl, k)])
  <1> DEFINE S == {i \in 1 .. BankPages - 1 : ~IsEntry(fl[Bank(k) + i])} \cup {BankPages}
  <1>1. S \in SUBSET Nat /\ S # {} /\ BankPages \in S /\ Stop(fl, k) = Min(S)
    BY Sizes DEF Stop
  <1>2. Min(S) \in S /\ \A y \in S : Min(S) <= y BY <1>1, MinIs
  <1>3. PICK n \in S : n = Stop(fl, k) /\ \A y \in S : n <= y BY <1>1, <1>2
  <1>4. n \in 1 .. BankPages BY <1>3, Sizes
  <1>5. \A i \in 1 .. n - 1 : IsEntry(fl[Bank(k) + i]) BY <1>3, <1>4, Sizes
  <1>6. n < BankPages => ~IsEntry(fl[Bank(k) + n]) BY <1>3, Sizes
  <1> QED BY <1>3, <1>4, <1>5, <1>6

LEMMA StopUnique ==
  ASSUME NEW fl, NEW k \in 0 .. 1, NEW n \in 1 .. BankPages,
         \A i \in 1 .. n - 1 : IsEntry(fl[Bank(k) + i]),
         n < BankPages => ~IsEntry(fl[Bank(k) + n])
  PROVE  Stop(fl, k) = n
  <1>1. PICK m \in 1 .. BankPages : /\ m = Stop(fl, k)
                                    /\ \A i \in 1 .. m - 1 : IsEntry(fl[Bank(k) + i])
                                    /\ m < BankPages => ~IsEntry(fl[Bank(k) + m])
    BY StopIs
  <1>2. ~(m < n)
    <2>1. SUFFICES ASSUME m < n PROVE FALSE OBVIOUS
    <2>2. m \in 1 .. n - 1 /\ m < BankPages BY <2>1, Sizes
    <2> QED BY <1>1, <2>2
  <1>3. ~(n < m)
    <2>1. SUFFICES ASSUME n < m PROVE FALSE OBVIOUS
    <2>2. n \in 1 .. m - 1 /\ n < BankPages BY <2>1, Sizes
    <2> QED BY <1>1, <2>2
  <1> QED BY <1>1, <1>2, <1>3

\* The other bank's header, if there is one, is older.
Older(fl, k) == IsHeader(fl[Bank(1 - k)]) => Generation(fl, 1 - k) < Generation(fl, k)

\* Nothing but the page at which the entries stop changes, and no entry goes there.
LEMMA BankKept ==
  ASSUME NEW fl, NEW new, NEW k \in 0 .. 1, JournalOK(fl, k), Older(new, k),
         \A i \in 0 .. BankPages - 1 : i # Stop(fl, k) => new[Bank(k) + i] = fl[Bank(k) + i],
         Stop(fl, k) < BankPages => ~IsEntry(new[Bank(k) + Stop(fl, k)])
  PROVE  /\ JournalOK(new, k)
         /\ Stop(new, k) = Stop(fl, k)
         /\ Generation(new, k) = Generation(fl, k)
         /\ \A id : Recalled(fl, k, Stop(fl, k), id) => Recalled(new, k, Stop(fl, k), id)
  <1>1. PICK n \in 1 .. BankPages : /\ n = Stop(fl, k)
                                    /\ \A i \in 1 .. n - 1 : IsEntry(fl[Bank(k) + i])
    BY StopIs
  <1>2. \A i \in 1 .. n - 1 : i \in 0 .. BankPages - 1 /\ i # n BY Sizes
  <1>3. \A i \in 1 .. n - 1 : new[Bank(k) + i] = fl[Bank(k) + i] BY <1>1, <1>2
  <1>4. Stop(new, k) = n BY <1>1, <1>3, StopUnique
  <1>5. new[Bank(k)] = fl[Bank(k)]
    <2>1. 0 \in 0 .. BankPages - 1 /\ 0 # n /\ Bank(k) + 0 = Bank(k) BY Sizes, BankAddresses
    <2> QED BY <1>1, <2>1
  <1>6. \A m \in 1 .. n : \A id : Recalled(fl, k, m, id) => Recalled(new, k, m, id)
    <2>1. ASSUME NEW m \in 1 .. n, NEW id, Recalled(fl, k, m, id) PROVE Recalled(new, k, m, id)
      <3>1. \A j \in 1 .. m - 1 : j \in 1 .. n - 1 OBVIOUS
      <3> QED BY <1>3, <1>5, <2>1, <3>1 DEF Recalled
    <2> QED BY <2>1
  <1>7. \A i \in n + 1 .. BankPages - 1 : new[Bank(k) + i] = Blank
    <2>1. \A i \in n + 1 .. BankPages - 1 : i \in 0 .. BankPages - 1 /\ i # n BY Sizes
    <2> QED BY <1>1, <2>1 DEF JournalOK
  <1>8. \A i \in 1 .. n - 1 : new[Bank(k) + i].type = "progress"
                                => Recalled(new, k, i, new[Bank(k) + i].s.id)
    <2>1. \A i \in 1 .. n - 1 : i \in 1 .. n OBVIOUS
    <2> QED BY <1>1, <1>3, <1>6, <2>1 DEF JournalOK
  <1>9. Generation(new, k) = Generation(fl, k) BY <1>5 DEF Generation
  <1>10. JournalOK(new, k) BY <1>4, <1>5, <1>7, <1>8, <1>9 DEF JournalOK, Older
  <1> QED BY <1>1, <1>4, <1>6, <1>9, <1>10

\* An entry is appended where the entries stop.
LEMMA BankAppended ==
  ASSUME NEW fl, NEW new, NEW k \in 0 .. 1, JournalOK(fl, k), Older(new, k),
         \A i \in 0 .. BankPages - 1 : i # Stop(fl, k) => new[Bank(k) + i] = fl[Bank(k) + i],
         Stop(fl, k) < BankPages,
         NEW entry \in Entries, new[Bank(k) + Stop(fl, k)] = entry,
         entry.type = "progress" => Recalled(fl, k, Stop(fl, k), entry.s.id)
  PROVE  /\ JournalOK(new, k)
         /\ Stop(new, k) = Stop(fl, k) + 1
         /\ Generation(new, k) = Generation(fl, k)
         /\ \A id : Recalled(fl, k, Stop(fl, k), id) => Recalled(new, k, Stop(new, k), id)
         /\ entry.type \in Counted => Recalled(new, k, Stop(new, k), entry.s.id)
         /\ Stop(new, k) < BankPages => new[Bank(k) + Stop(new, k)] = Blank
  <1>1. PICK n \in 1 .. BankPages : /\ n = Stop(fl, k)
                                    /\ \A i \in 1 .. n - 1 : IsEntry(fl[Bank(k) + i])
    BY StopIs
  <1>2. n < BankPages /\ n + 1 \in 1 .. BankPages BY <1>1, Sizes
  <1>3. \A i \in 1 .. n - 1 : new[Bank(k) + i] = fl[Bank(k) + i]
    <2>1. \A i \in 1 .. n - 1 : i \in 0 .. BankPages - 1 /\ i # n BY Sizes
    <2> QED BY <1>1, <2>1
  <1>4. \A i \in n + 1 .. BankPages - 1 : new[Bank(k) + i] = Blank
    <2>1. \A i \in n + 1 .. BankPages - 1 : i \in 0 .. BankPages - 1 /\ i # n BY Sizes
    <2> QED BY <1>1, <2>1 DEF JournalOK
  <1>5. new[Bank(k)] = fl[Bank(k)]
    <2>1. 0 \in 0 .. BankPages - 1 /\ 0 # n /\ Bank(k) + 0 = Bank(k) BY Sizes, BankAddresses
    <2> QED BY <1>1, <2>1
  <1>6. ~IsEntry(Blank) BY DEF Blank, IsEntry
  <1>7. IsEntry(entry) /\ new[Bank(k) + n] = entry BY <1>1 DEF Entries, EntryPages, IsEntry
  <1>8. \A i \in 1 .. n : IsEntry(new[Bank(k) + i]) BY <1>1, <1>3, <1>7
  <1>9. n + 1 < BankPages => new[Bank(k) + (n + 1)] = Blank BY <1>2, <1>4, Sizes
  <1>10. Stop(new, k) = n + 1
    <2>1. \A i \in 1 .. (n + 1) - 1 : IsEntry(new[Bank(k) + i]) BY <1>8
    <2> QED BY <1>2, <1>6, <1>9, <2>1, StopUnique
  <1>11. \A m \in 1 .. n : \A id : Recalled(fl, k, m, id) => Recalled(new, k, m, id)
    <2>1. ASSUME NEW m \in 1 .. n, NEW id, Recalled(fl, k, m, id) PROVE Recalled(new, k, m, id)
      <3>1. \A j \in 1 .. m - 1 : j \in 1 .. n - 1 OBVIOUS
      <3> QED BY <1>3, <1>5, <2>1, <3>1 DEF Recalled
    <2> QED BY <2>1
  <1>12. \A id : Recalled(new, k, n, id) => Recalled(new, k, n + 1, id)
    <2>1. \A j \in 1 .. n - 1 : j \in 1 .. (n + 1) - 1 OBVIOUS
    <2> QED BY <2>1 DEF Recalled
  <1>13. \A id : Recalled(fl, k, n, id) => Recalled(new, k, n + 1, id) BY <1>11, <1>12
  <1>14. entry.type \in Counted => Recalled(new, k, n + 1, entry.s.id)
    <2>1. entry.s.id \in Int BY DEF Entries, EntryPages, Descriptions
    <2>2. n \in 1 .. (n + 1) - 1 /\ entry.s.id <= entry.s.id BY <2>1
    <2> QED BY <1>7, <2>2 DEF Recalled
  <1>15. ASSUME NEW i \in 1 .. (n + 1) - 1, new[Bank(k) + i].type = "progress"
         PROVE  Recalled(new, k, i, new[Bank(k) + i].s.id)
    <2>1. CASE i = n BY <1>1, <1>7, <1>11, <1>15, <2>1
    <2>2. CASE i # n
      <3>1. i \in 1 .. n - 1 /\ i \in 1 .. n BY <2>2
      <3> QED BY <1>1, <1>3, <1>11, <1>15, <3>1 DEF JournalOK
    <2> QED BY <2>1, <2>2
  <1>16. Generation(new, k) = Generation(fl, k) BY <1>5 DEF Generation
  <1>17. \A i \in (n + 1) + 1 .. BankPages - 1 : new[Bank(k) + i] = Blank BY <1>4
  <1>18. JournalOK(new, k) BY <1>5, <1>10, <1>15, <1>16, <1>17 DEF JournalOK, Older
  <1> QED BY <1>1, <1>9, <1>10, <1>13, <1>14, <1>16, <1>18

LEMMA BankUntouched ==
  ASSUME NEW fl, NEW new, NEW k \in 0 .. 1, JournalOK(fl, k), Older(new, k),
         \A i \in 0 .. BankPages - 1 : new[Bank(k) + i] = fl[Bank(k) + i]
  PROVE  /\ JournalOK(new, k)
         /\ Stop(new, k) = Stop(fl, k)
         /\ Generation(new, k) = Generation(fl, k)
         /\ \A id : Recalled(fl, k, Stop(fl, k), id) => Recalled(new, k, Stop(fl, k), id)
  <1>1. /\ Stop(fl, k) \in 1 .. BankPages
        /\ Stop(fl, k) < BankPages => ~IsEntry(fl[Bank(k) + Stop(fl, k)])
    BY StopIs
  <1>2. Stop(fl, k) < BankPages => Stop(fl, k) \in 0 .. BankPages - 1 BY <1>1, Sizes
  <1>3. Stop(fl, k) < BankPages => ~IsEntry(new[Bank(k) + Stop(fl, k)]) BY <1>1, <1>2
  <1> QED BY <1>3, BankKept

\* A header of a later generation over a bank that holds a snapshot.
LEMMA BankChanges ==
  ASSUME NEW fl, NEW new, NEW k \in 0 .. 1, NEW snap \in 0 .. BankPages - 2,
         JournalOK(fl, k), new[Bank(k)] = fl[Bank(k)],
         IsHeader(new[Bank(1 - k)]), Generation(fl, k) < Generation(new, 1 - k),
         \A i \in 1 .. snap : new[Bank(1 - k) + i] \in Entries
                              /\ new[Bank(1 - k) + i].type # "progress",
         \A i \in snap + 1 .. BankPages - 1 : new[Bank(1 - k) + i] = Blank
  PROVE  /\ JournalOK(new, 1 - k)
         /\ Stop(new, 1 - k) = snap + 1
         /\ new[Bank(1 - k) + (snap + 1)] = Blank
         /\ \A id : id < new[Bank(1 - k)].nextId => Recalled(new, 1 - k, snap + 1, id)
  <1>1. 1 - k \in 0 .. 1 /\ 1 - (1 - k) = k BY BankAddresses
  <1>2. snap + 1 \in snap + 1 .. BankPages - 1 /\ snap + 1 \in 1 .. BankPages BY Sizes
  <1>3. new[Bank(1 - k) + (snap + 1)] = Blank BY <1>2
  <1>4. ~IsEntry(Blank) BY DEF Blank, IsEntry
  <1>5. \A i \in 1 .. (snap + 1) - 1 : IsEntry(new[Bank(1 - k) + i])
    BY DEF Entries, EntryPages, IsEntry
  <1>6. Stop(new, 1 - k) = snap + 1 BY <1>1, <1>2, <1>3, <1>4, <1>5, StopUnique
  <1>7. \A i \in (snap + 1) + 1 .. BankPages - 1 : new[Bank(1 - k) + i] = Blank OBVIOUS
  <1>8. \A i \in 1 .. (snap + 1) - 1 : new[Bank(1 - k) + i].type # "progress" OBVIOUS
  <1>9. Generation(new, 1 - (1 - k)) < Generation(new, 1 - k) BY <1>1 DEF Generation
  <1>10. JournalOK(new, 1 - k) BY <1>6, <1>7, <1>8, <1>9 DEF JournalOK
  <1>11. \A id : id < new[Bank(1 - k)].nextId => Recalled(new, 1 - k, snap + 1, id)
    BY DEF Recalled
  <1> QED BY <1>3, <1>6, <1>10, <1>11

-----------------------------------------------------------------------------
(* Power may go at any instant: the journal stays readable.                  *)

LEMMA OperationForms ==
  ASSUME NEW op \in Operations
  PROVE  \/ op = Idle
         \/ /\ op.do = "program" /\ op = Program(op.at, op.page)
            /\ op.at \in Chip /\ op.page \in PageSet
         \/ /\ op.do = "erase" /\ op = [do |-> "erase", at |-> op.at, upto |-> op.upto]
            /\ op.at \in Nat /\ op.upto \in Nat /\ op.at <= op.upto
  BY DEF Operations, Program

LEMMA IdleChangesNothing ==
  ASSUME NEW fl
  PROVE  Interrupted(fl, Idle) = {fl} /\ Completed(fl, Idle) = fl
  BY DEF Interrupted, Completed, Idle

\* An operation on the result area leaves the banks alone, and so does its cut.
LEMMA AreaChangesNoBank ==
  ASSUME NEW fl \in [Chip -> PageSet], NEW op \in Operations,
         op.do = "program" => op.at < Pages, op.do = "erase" => op.upto < Pages,
         NEW new \in Interrupted(fl, op) \cup {Completed(fl, op)}
  PROVE  /\ new \in [Chip -> PageSet]
         /\ \A k \in 0 .. 1 : \A i \in 0 .. BankPages - 1 : new[Bank(k) + i] = fl[Bank(k) + i]
  <1>1. \A k \in 0 .. 1 : \A i \in 0 .. BankPages - 1 :
           Bank(k) + i \in Chip /\ ~(Bank(k) + i < Pages)
    BY BankAddresses, Sizes
  <1>2. Completed(fl, op) \in [Chip -> PageSet] BY CompletedShape
  <1>3. CASE op = Idle BY <1>3, IdleChangesNothing
  <1>4. CASE op.do = "program" /\ op = Program(op.at, op.page)
             /\ op.at \in Chip /\ op.page \in PageSet
    <2>1. ASSUME NEW q \in Chip, ~(q < Pages) PROVE new[q] = fl[q]
      <3>1. q # op.at BY <1>4, <2>1, Sizes
      <3>2. CASE new = Completed(fl, op)
        BY <1>4, <2>1, <3>1, <3>2 DEF Completed
      <3>3. CASE new \in Interrupted(fl, op)
        <4>1. \A r \in Chip \ {op.at} : new[r] = fl[r] BY <1>4, <3>3, CutProgram
        <4> QED BY <2>1, <3>1, <4>1
      <3> QED BY <3>2, <3>3
    <2>2. new \in [Chip -> PageSet]
      <3>1. CASE new \in Interrupted(fl, op) BY <1>4, <3>1, CutProgram
      <3> QED BY <1>2, <3>1
    <2> QED BY <1>1, <2>1, <2>2
  <1>5. CASE op.do = "erase" /\ op = [do |-> "erase", at |-> op.at, upto |-> op.upto]
             /\ op.at \in Nat /\ op.upto \in Nat /\ op.at <= op.upto
    <2>1. ASSUME NEW q \in Chip, ~(q < Pages) PROVE new[q] = fl[q]
      <3>1. q \notin op.at .. op.upto BY <1>5, <2>1, Sizes DEF Chip
      <3>2. CASE new = Completed(fl, op)
        BY <1>5, <2>1, <3>1, <3>2 DEF Completed
      <3>3. CASE new \in Interrupted(fl, op)
        <4>1. \A r \in Chip : r \notin op.at .. op.upto => new[r] = fl[r] BY <1>5, <3>3, CutErase
        <4> QED BY <2>1, <3>1, <4>1
      <3> QED BY <3>2, <3>3
    <2>2. new \in [Chip -> PageSet]
      <3>1. CASE new \in Interrupted(fl, op) BY <1>5, <3>1, CutErase
      <3> QED BY <1>2, <3>1
    <2> QED BY <1>1, <2>1, <2>2
  <1> QED BY <1>3, <1>4, <1>5, OperationForms

LEMMA CompletedMayHappen ==
  ASSUME NEW fl \in [Chip -> PageSet], NEW op \in Operations
  PROVE  Completed(fl, op) \in Interrupted(fl, op)
  <1>1. CASE op = Idle BY <1>1, IdleChangesNothing
  <1>2. CASE op.do = "program" BY <1>2 DEF Interrupted
  <1>3. CASE op.do = "erase" /\ op.at \in Nat /\ op.upto \in Nat /\ op.at <= op.upto
    <2> DEFINE ways == {"old", "blank"} \cup (Tears \cap {"scrap", "spoiled"})
    <2>1. Interrupted(fl, op) =
            {[p \in Chip |-> IF p = op.at THEN Erasing(first, fl[p])
                             ELSE IF p \in op.at .. op.upto THEN Erasing(rest, fl[p])
                             ELSE fl[p]] : first \in ways, rest \in ways}
      BY <1>3 DEF Interrupted
    <2>2. "blank" \in ways OBVIOUS
    <2>3. [p \in Chip |-> IF p = op.at THEN Erasing("blank", fl[p])
                          ELSE IF p \in op.at .. op.upto THEN Erasing("blank", fl[p])
                          ELSE fl[p]] \in Interrupted(fl, op)
      BY <2>1, <2>2
    <2>4. Completed(fl, op) =
            [p \in Chip |-> IF p \in op.at .. op.upto THEN Blank ELSE fl[p]]
      BY <1>3 DEF Completed
    <2>5. op.at \in op.at .. op.upto BY <1>3
    <2>6. \A p \in Chip : (IF p = op.at THEN Erasing("blank", fl[p])
                           ELSE IF p \in op.at .. op.upto THEN Erasing("blank", fl[p])
                           ELSE fl[p]) = IF p \in op.at .. op.upto THEN Blank ELSE fl[p]
      BY <2>5 DEF Erasing
    <2> QED BY <2>3, <2>4, <2>6
  <1> QED BY <1>1, <1>2, <1>3, OperationForms

LEMMA StoreParts ==
  ASSUME NEW fl, NEW m, StoreOK(fl, m)
  PROVE  /\ m \in Stores /\ DirectoryOK(m) /\ JobOK(m) /\ m.op \in Operations
         /\ m.cur \in 0 .. 1 /\ m.next \in 1 .. BankPages /\ m.snap \in 0 .. MaxSessions + 1
         /\ m.gen \in Nat /\ m.job \in Jobs
         /\ RecordingOK(m) /\ HeadOK(m) /\ ReclaimOK(m) /\ PendingOK(m)
         /\ Mounted(m) => CursorOK(fl, m) /\ RotationOK(fl, m)
  BY DEF StoreOK, Base, ExtentsOK, Stores

LEMMA OlderStays ==
  ASSUME NEW fl, NEW new, NEW k \in 0 .. 1, JournalOK(fl, k), new[Bank(k)] = fl[Bank(k)],
         \/ new[Bank(1 - k)] = fl[Bank(1 - k)]
         \/ ~IsHeader(new[Bank(1 - k)])
  PROVE  Older(new, k)
  BY DEF JournalOK, Older, Generation

\* What an operation on the journal's own bank leaves, cut short or not.
LEMMA CutEntry ==
  ASSUME NEW fl, FlashOK(fl), NEW m, StoreOK(fl, m), m.job \in JournalJobs,
         NEW new \in Interrupted(fl, m.op)
  PROVE  /\ JournalOK(new, m.cur)
         /\ new \in [Chip -> PageSet]
         /\ Generation(new, m.cur) = Generation(fl, m.cur)
         /\ new[Bank(m.cur) + m.next] = m.op.page =>
              /\ Stop(new, m.cur) = m.next + 1
              /\ \A id : Recalled(fl, m.cur, m.next, id) => Recalled(new, m.cur, m.next + 1, id)
              /\ m.op.page.type \in Counted
                   => Recalled(new, m.cur, m.next + 1, m.op.page.s.id)
              /\ m.next + 1 < BankPages => new[Bank(m.cur) + (m.next + 1)] = Blank
  <1> DEFINE k == m.cur
  <1> DEFINE p == Bank(k) + m.next
  <1>1. /\ Mounted(m) /\ k \in 0 .. 1 /\ m.next \in 1 .. BankPages /\ m.next < BankPages
        /\ m.op.do = "program" /\ m.op.at = p /\ m.op.page \in Entries
        /\ m.op.page.type = "progress" <=> m.job = "progress"
        /\ m.job \in Releases => m.op.page.s.id = m.reclaim.id
        /\ m.op \in Operations
    BY StoreParts, SMTT(30) DEF JobOK, Mounted, Fits, Stores, JournalJobs
  <1>2. /\ JournalOK(fl, k) /\ m.next = Stop(fl, k) /\ fl[p] = Blank
        /\ m.job = "progress" => Recalled(fl, k, m.next, m.reclaim.id)
    BY <1>1, StoreParts DEF CursorOK, Writing
  <1>3. m.op.page.type = "progress" => Recalled(fl, k, m.next, m.op.page.s.id)
    BY <1>1, <1>2 DEF Releases
  <1>4. fl \in [Chip -> PageSet] BY DEF FlashOK
  <1>5. m.op = Program(p, m.op.page) /\ p \in Chip /\ m.op.page \in PageSet
    BY <1>1, OperationForms DEF Idle, Program
  <1>6. /\ new \in [Chip -> PageSet]
        /\ \A q \in Chip \ {p} : new[q] = fl[q]
        /\ new[p] \in {fl[p], m.op.page, Torn(m.op.page), Scrap}
    <2>1. new \in Interrupted(fl, Program(p, m.op.page)) BY <1>5
    <2> HIDE DEF p
    <2> QED BY <1>4, <1>5, <2>1, CutProgram
  <1>7. \A i \in 0 .. BankPages - 1 :
          /\ i # m.next => new[Bank(k) + i] = fl[Bank(k) + i]
          /\ new[Bank(1 - k) + i] = fl[Bank(1 - k) + i]
    <2>1. \A i \in 0 .. BankPages - 1 : i # m.next => Bank(k) + i \in Chip \ {p}
      BY <1>1, BankAddresses
    <2>2. \A i \in 0 .. BankPages - 1 : Bank(1 - k) + i \in Chip \ {p}
      <3>1. 1 - k \in 0 .. 1 /\ m.next \in 0 .. BankPages - 1 BY <1>1, BankAddresses, Sizes
      <3>2. \A i \in 0 .. BankPages - 1 : Bank(1 - k) + i \in Chip BY <3>1, BankAddresses
      <3>3. \A i \in 0 .. BankPages - 1 : Bank(k) + m.next # Bank(1 - k) + i
        BY <1>1, <3>1, BankAddresses
      <3> QED BY <3>2, <3>3
    <2> QED BY <1>6, <2>1, <2>2
  <1>8. Older(new, k)
    <2>1. 0 \in 0 .. BankPages - 1 /\ 0 # m.next BY <1>1, Sizes
    <2>2. Bank(k) + 0 = Bank(k) /\ Bank(1 - k) + 0 = Bank(1 - k) BY <1>1, BankAddresses
    <2>3. new[Bank(k)] = fl[Bank(k)] /\ new[Bank(1 - k)] = fl[Bank(1 - k)]
      BY <1>7, <2>1, <2>2
    <2> QED BY <1>1, <1>2, <2>3, OlderStays
  <1>9. CASE new[p] = m.op.page
    <2>1. m.op.page \in Entries /\ Stop(fl, k) < BankPages BY <1>1, <1>2
    <2>2. \A i \in 0 .. BankPages - 1 : i # Stop(fl, k) => new[Bank(k) + i] = fl[Bank(k) + i]
      BY <1>2, <1>7
    <2>3. new[Bank(k) + Stop(fl, k)] = m.op.page BY <1>2, <1>9
    <2>4. m.op.page.type = "progress" => Recalled(fl, k, Stop(fl, k), m.op.page.s.id)
      BY <1>2, <1>3
    <2>5. /\ JournalOK(new, k)
          /\ Stop(new, k) = Stop(fl, k) + 1
          /\ Generation(new, k) = Generation(fl, k)
          /\ \A id : Recalled(fl, k, Stop(fl, k), id) => Recalled(new, k, Stop(new, k), id)
          /\ m.op.page.type \in Counted => Recalled(new, k, Stop(new, k), m.op.page.s.id)
          /\ Stop(new, k) < BankPages => new[Bank(k) + Stop(new, k)] = Blank
      <3> HIDE DEF k
      <3> QED BY <1>1, <1>2, <1>8, <2>1, <2>2, <2>3, <2>4, BankAppended
    <2> QED BY <1>2, <1>6, <2>5
  <1>10. CASE new[p] # m.op.page
    <2>1. ~IsEntry(new[p])
      <3>1. ~IsEntry(Blank) /\ ~IsEntry(Scrap) BY DEF IsEntry, Blank, Scrap
      <3> QED BY <1>2, <1>5, <1>6, <1>10, <3>1, TornPage
    <2>2. \A i \in 0 .. BankPages - 1 : i # Stop(fl, k) => new[Bank(k) + i] = fl[Bank(k) + i]
      BY <1>2, <1>7
    <2>3. ~IsEntry(new[Bank(k) + Stop(fl, k)]) BY <1>2, <2>1
    <2>4. JournalOK(new, k) /\ Generation(new, k) = Generation(fl, k)
      <3> HIDE DEF k
      <3> QED BY <1>1, <1>2, <1>8, <2>2, <2>3, BankKept
    <2> QED BY <1>6, <1>10, <2>4
  <1> QED BY <1>9, <1>10

\* The journal bank is as it was.
Preserved(fl, new, k) ==
    /\ new \in [Chip -> PageSet]
    /\ JournalOK(new, k) /\ Stop(new, k) = Stop(fl, k)
    /\ Generation(new, k) = Generation(fl, k)
    /\ \A i \in 0 .. BankPages - 1 : new[Bank(k) + i] = fl[Bank(k) + i]
    /\ \A id : Recalled(fl, k, Stop(fl, k), id) => Recalled(new, k, Stop(fl, k), id)

LEMMA PreservedIs ==
  ASSUME NEW fl, NEW new \in [Chip -> PageSet], NEW k \in 0 .. 1, JournalOK(fl, k),
         \A i \in 0 .. BankPages - 1 : new[Bank(k) + i] = fl[Bank(k) + i],
         \/ new[Bank(1 - k)] = fl[Bank(1 - k)]
         \/ ~IsHeader(new[Bank(1 - k)])
  PROVE  Preserved(fl, new, k)
  <1>1. 0 \in 0 .. BankPages - 1 /\ Bank(k) + 0 = Bank(k) BY Sizes, BankAddresses
  <1>2. new[Bank(k)] = fl[Bank(k)] BY <1>1
  <1>3. Older(new, k) BY <1>2, OlderStays
  <1> QED BY <1>3, BankUntouched DEF Preserved

LEMMA CutArea ==
  ASSUME NEW fl, FlashOK(fl), NEW m, StoreOK(fl, m), m.job \in PageJobs \cup {"repair"},
         NEW new \in Interrupted(fl, m.op)
  PROVE  Preserved(fl, new, m.cur)
  <1>1. /\ Mounted(m) /\ m.cur \in 0 .. 1 /\ m.op \in Operations
        /\ m.op.do = "program" => m.op.at < Pages
        /\ m.op.do = "erase" => m.op.upto < Pages
    BY StoreParts DEF JobOK, Mounted, Stores, PageJobs
  <1>2. JournalOK(fl, m.cur) BY <1>1, StoreParts DEF CursorOK
  <1>3. fl \in [Chip -> PageSet] BY DEF FlashOK
  <1>4. /\ new \in [Chip -> PageSet]
        /\ \A k \in 0 .. 1 : \A i \in 0 .. BankPages - 1 : new[Bank(k) + i] = fl[Bank(k) + i]
    BY <1>1, <1>3, AreaChangesNoBank
  <1>5. new[Bank(1 - m.cur)] = fl[Bank(1 - m.cur)]
    <2>1. 1 - m.cur \in 0 .. 1 /\ 0 \in 0 .. BankPages - 1 BY <1>1, Sizes
    <2>2. Bank(1 - m.cur) + 0 = Bank(1 - m.cur) BY <2>1, BankAddresses
    <2> QED BY <1>4, <2>1, <2>2
  <1> QED BY <1>1, <1>2, <1>4, <1>5, PreservedIs

\* While the other bank is erased or its snapshot written, it has no header.
LEMMA CutSnapshot ==
  ASSUME NEW fl, FlashOK(fl), NEW m, StoreOK(fl, m), m.job \in {"rotate", "snapshot"},
         NEW new \in Interrupted(fl, m.op)
  PROVE  /\ Preserved(fl, new, m.cur)
         /\ m.job = "rotate" /\ Verified(new, m.op) =>
              \A i \in 0 .. BankPages - 1 : new[Bank(1 - m.cur) + i] = Blank
         /\ m.job = "snapshot" /\ Verified(new, m.op) =>
              \A i \in 0 .. BankPages - 1 :
                 new[Bank(1 - m.cur) + i] = IF i = m.snap + 1 THEN m.op.page
                                            ELSE fl[Bank(1 - m.cur) + i]
  <1> DEFINE k == m.cur
  <1> DEFINE b == Bank(1 - m.cur)
  <1>1. /\ Mounted(m) /\ k \in 0 .. 1 /\ m.op \in Operations
        /\ m.snap \in 0 .. MaxSessions + 1
    BY StoreParts DEF JobOK, Mounted, Stores
  <1>2. JournalOK(fl, k) /\ RotationOK(fl, m) BY <1>1, StoreParts
        DEF CursorOK
  <1>3. fl \in [Chip -> PageSet] BY DEF FlashOK
  <1>4. /\ 1 - k \in 0 .. 1 /\ b \in Nat /\ 0 \in 0 .. BankPages - 1 /\ b + 0 = b
        /\ \A i \in 0 .. BankPages - 1 : Bank(k) + i \in Chip /\ b + i \in Chip
        /\ \A i, j \in 0 .. BankPages - 1 : Bank(k) + i # b + j
    BY <1>1, BankAddresses, Sizes
  <1>5. CASE m.job = "rotate"
    <2>1. m.op = [do |-> "erase", at |-> b, upto |-> b + BankPages - 1]
      BY <1>2, <1>5 DEF RotationOK, Erase
    <2>2. b + BankPages - 1 \in Nat /\ b <= b + BankPages - 1 BY <1>4, Sizes
    <2>3. /\ new \in [Chip -> PageSet]
          /\ \A q \in Chip : q \notin b .. b + BankPages - 1 => new[q] = fl[q]
          /\ \A q \in Chip : new[q] \in {fl[q], Blank, Scrap}
      <3>1. new \in Interrupted(fl, [do |-> "erase", at |-> b, upto |-> b + BankPages - 1])
        BY <2>1
      <3> HIDE DEF b
      <3> QED BY <1>3, <1>4, <2>2, <3>1, CutErase
    <2>4. \A i \in 0 .. BankPages - 1 : Bank(k) + i \notin b .. b + BankPages - 1
      <3>1. SUFFICES ASSUME NEW i \in 0 .. BankPages - 1, Bank(k) + i \in b .. b + BankPages - 1
                     PROVE  FALSE
        OBVIOUS
      <3>2. PICK j \in 0 .. BankPages - 1 : Bank(k) + i = b + j
        <4>1. (Bank(k) + i) - b \in 0 .. BankPages - 1 /\ Bank(k) + i = b + ((Bank(k) + i) - b)
          <5>1. Bank(k) \in Nat BY <1>1, BankAddresses
          <5> HIDE DEF b, k
          <5> QED BY <1>4, <3>1, <5>1, Sizes
        <4> QED BY <4>1
      <3> QED BY <1>4, <3>2
    <2>5. \A i \in 0 .. BankPages - 1 : new[Bank(k) + i] = fl[Bank(k) + i] BY <1>4, <2>3, <2>4
    <2>6. new[b] = fl[b] \/ ~IsHeader(new[b])
      <3>1. ~IsHeader(Blank) /\ ~IsHeader(Scrap) BY DEF IsHeader, Blank, Scrap
      <3> QED BY <1>4, <2>3, <3>1
    <2>7. Preserved(fl, new, m.cur) BY <1>1, <1>2, <2>3, <2>5, <2>6, PreservedIs
    <2>8. Verified(new, m.op) => \A i \in 0 .. BankPages - 1 : new[b + i] = Blank
      <3>1. \A i \in 0 .. BankPages - 1 : b + i \in b .. b + BankPages - 1 BY <1>4, Sizes
      <3> QED BY <2>1, <3>1 DEF Verified
    <2> QED BY <1>5, <2>7, <2>8
  <1>6. CASE m.job = "snapshot"
    <2> DEFINE p == b + 1 + m.snap
    <2>1. m.op.do = "program" /\ m.op.at = p
      BY <1>2, <1>6 DEF RotationOK, Program
    <2>2. m.snap + 1 \in 0 .. BankPages - 1 /\ p = b + (m.snap + 1) BY <1>1, <1>4, Sizes
    <2>3. m.op = Program(p, m.op.page) /\ p \in Chip /\ m.op.page \in PageSet
      BY <1>1, <2>1, OperationForms DEF Idle, Program
    <2>4. /\ new \in [Chip -> PageSet]
          /\ \A q \in Chip \ {p} : new[q] = fl[q]
      <3>1. new \in Interrupted(fl, Program(p, m.op.page)) BY <2>3
      <3> HIDE DEF p
      <3> QED BY <1>3, <2>3, <3>1, CutProgram
    <2>5. \A i \in 0 .. BankPages - 1 : new[Bank(k) + i] = fl[Bank(k) + i]
      BY <1>4, <2>2, <2>4
    <2>6. new[b] = fl[b]
      <3>1. b # p /\ b \in Chip BY <1>1, <1>4, Sizes
      <3> QED BY <2>4, <3>1
    <2>7. Preserved(fl, new, m.cur) BY <1>1, <1>2, <2>4, <2>5, <2>6, PreservedIs
    <2>8. Verified(new, m.op) =>
            \A i \in 0 .. BankPages - 1 :
               new[b + i] = IF i = m.snap + 1 THEN m.op.page ELSE fl[b + i]
      <3>1. Verified(new, m.op) => new[b + (m.snap + 1)] = m.op.page
        BY <2>1, <2>2 DEF Verified
      <3>2. ASSUME NEW i \in 0 .. BankPages - 1, i # m.snap + 1 PROVE new[b + i] = fl[b + i]
        <4>1. b + i # p /\ b + i \in Chip BY <1>1, <1>4, <2>2, <3>2
        <4> QED BY <2>4, <4>1
      <3> QED BY <3>1, <3>2
    <2> QED BY <1>6, <2>7, <2>8
  <1> QED BY <1>5, <1>6

\* The header that makes the other bank count is there whole, or the old bank counts.
LEMMA CutHeader ==
  ASSUME NEW fl, FlashOK(fl), NEW m, StoreOK(fl, m), m.job = "header",
         NEW new \in Interrupted(fl, m.op)
  PROVE  /\ ~Verified(new, m.op) => Preserved(fl, new, m.cur)
         /\ Verified(new, m.op) =>
              /\ new \in [Chip -> PageSet]
              /\ JournalOK(new, 1 - m.cur)
              /\ Generation(new, 1 - m.cur) = m.gen
              /\ m.snap + 1 < BankPages
              /\ Stop(new, 1 - m.cur) = m.snap + 1
              /\ new[Bank(1 - m.cur) + (m.snap + 1)] = Blank
              /\ \A id : id < m.nextId => Recalled(new, 1 - m.cur, m.snap + 1, id)
  <1> DEFINE k == m.cur
  <1> DEFINE b == Bank(1 - m.cur)
  <1>1. /\ Mounted(m) /\ k \in 0 .. 1 /\ m.op \in Operations
        /\ m.snap \in 0 .. MaxSessions + 1 /\ m.snap \in 0 .. BankPages - 2
    BY StoreParts, Sizes DEF JobOK, Mounted, Stores
  <1>2. JournalOK(fl, k) /\ RotationOK(fl, m) BY <1>1, StoreParts DEF CursorOK
  <1>3. fl \in [Chip -> PageSet] BY DEF FlashOK
  <1>4. /\ 1 - k \in 0 .. 1 /\ b \in Chip /\ 0 \in 0 .. BankPages - 1 /\ b + 0 = b
        /\ \A i \in 0 .. BankPages - 1 : Bank(k) + i \in Chip /\ b + i \in Chip
        /\ \A i \in 0 .. BankPages - 1 : Bank(k) + i # b
        /\ \A i \in 1 .. BankPages - 1 : b + i # b
        /\ b \in Nat
    <2>1. 1 - k \in 0 .. 1 /\ b \in Nat /\ 0 \in 0 .. BankPages - 1 /\ b + 0 = b
      BY <1>1, BankAddresses, Sizes
    <2>2. \A i \in 0 .. BankPages - 1 : Bank(k) + i \in Chip /\ b + i \in Chip
      BY <1>1, <2>1, BankAddresses
    <2>3. \A i \in 0 .. BankPages - 1 : Bank(k) + i # b + 0 BY <1>1, <2>1, BankAddresses
    <2>4. b + 0 \in Chip BY <2>1, <2>2
    <2> QED BY <2>1, <2>2, <2>3, <2>4, Sizes
  <1>5. m.op = Program(b, HeaderOf(m)) /\ m.gen = Generation(fl, k) + 1 /\ fl[b] = Blank
    BY <1>2 DEF RotationOK
  <1>6. HeaderOf(m) \in PageSet
    BY <1>1, <1>5, OperationForms DEF Idle, Program
  <1>7. /\ new \in [Chip -> PageSet]
        /\ \A q \in Chip \ {b} : new[q] = fl[q]
        /\ new[b] \in {fl[b], HeaderOf(m), Torn(HeaderOf(m)), Scrap}
    <2>1. new \in Interrupted(fl, Program(b, HeaderOf(m))) BY <1>5
    <2> HIDE DEF b
    <2> QED BY <1>3, <1>4, <1>6, <2>1, CutProgram
  <1>8. \A i \in 0 .. BankPages - 1 : new[Bank(k) + i] = fl[Bank(k) + i] BY <1>4, <1>7
  <1>9. new[Bank(k)] = fl[Bank(k)]
    <2>1. Bank(k) + 0 = Bank(k) BY <1>1, BankAddresses
    <2> QED BY <1>4, <1>8, <2>1
  <1>10. Verified(new, m.op) <=> new[b] = HeaderOf(m)
    BY <1>5 DEF Verified, Program
  <1>11. ASSUME ~Verified(new, m.op) PROVE Preserved(fl, new, k)
    <2>1. ~IsHeader(new[b])
      <3>1. ~IsHeader(Blank) /\ ~IsHeader(Scrap) BY DEF IsHeader, Blank, Scrap
      <3> QED BY <1>5, <1>6, <1>7, <1>10, <1>11, <3>1, TornPage
    <2> QED BY <1>1, <1>2, <1>7, <1>8, <2>1, PreservedIs
  <1>12. ASSUME Verified(new, m.op)
         PROVE  /\ JournalOK(new, 1 - k)
                /\ Generation(new, 1 - k) = m.gen
                /\ Stop(new, 1 - k) = m.snap + 1
                /\ new[b + (m.snap + 1)] = Blank
                /\ \A id : id < m.nextId => Recalled(new, 1 - k, m.snap + 1, id)
    <2>1. /\ new[b] = HeaderOf(m) /\ IsHeader(new[b]) /\ new[b].gen = m.gen
          /\ new[b].nextId = m.nextId
      BY <1>10, <1>12 DEF HeaderOf, Header, IsHeader
    <2>2. Generation(new, 1 - k) = m.gen BY <2>1 DEF Generation
    <2>3. Generation(fl, k) < Generation(new, 1 - k)
      <3>1. Generation(fl, k) \in Nat
        <4>1. fl[Bank(k)] \in HeaderPages
          <5>1. Bank(k) \in Chip
            <6>1. Bank(k) + 0 = Bank(k) BY <1>1, BankAddresses
            <6> QED BY <1>4, <6>1
          <5>2. fl[Bank(k)].kind = "header" BY <1>2 DEF JournalOK, IsHeader
          <5> QED BY <1>3, <5>1, <5>2, PageKinds
        <4> QED BY <4>1 DEF Generation, HeaderPages
      <3> QED BY <1>5, <2>2, <3>1
    <2>4. \A i \in 1 .. m.snap : new[b + i] \in Entries /\ new[b + i].type # "progress"
      <3>1. \A i \in 1 .. m.snap : fl[b + i] \in Entries /\ fl[b + i].type # "progress"
        BY <1>2 DEF RotationOK
      <3>2. \A i \in 1 .. m.snap : i \in 1 .. BankPages - 1 /\ i \in 0 .. BankPages - 1
        BY <1>1, Sizes
      <3>3. \A i \in 1 .. m.snap : new[b + i] = fl[b + i] BY <1>4, <1>7, <3>2
      <3> QED BY <3>1, <3>3
    <2>5. \A i \in m.snap + 1 .. BankPages - 1 : new[b + i] = Blank
      <3>1. \A i \in m.snap + 1 .. BankPages - 1 : fl[b + i] = Blank
        BY <1>2 DEF RotationOK
      <3>2. \A i \in m.snap + 1 .. BankPages - 1 : i \in 1 .. BankPages - 1 /\ i \in 0 .. BankPages - 1
        BY <1>1, Sizes
      <3>3. \A i \in m.snap + 1 .. BankPages - 1 : new[b + i] = fl[b + i] BY <1>4, <1>7, <3>2
      <3> QED BY <3>1, <3>3
    <2>6. /\ JournalOK(new, 1 - k)
          /\ Stop(new, 1 - k) = m.snap + 1
          /\ new[b + (m.snap + 1)] = Blank
          /\ \A id : id < new[b].nextId => Recalled(new, 1 - k, m.snap + 1, id)
      <3>1. IsHeader(new[Bank(1 - k)]) BY <2>1
      <3>2. m.snap \in 0 .. BankPages - 2 /\ k \in 0 .. 1 BY <1>1
      <3> QED BY <1>2, <1>9, <2>3, <2>4, <2>5, <3>1, <3>2, BankChanges, Zenon
    <2> QED BY <2>1, <2>2, <2>6
  <1> QED BY <1>1, <1>7, <1>11, <1>12, Sizes

LEMMA CutKeepsFlash ==
  ASSUME NEW fl, FlashOK(fl), NEW m, StoreOK(fl, m), NEW new \in Interrupted(fl, m.op)
  PROVE  FlashOK(new)
  <1>1. m.job \in Jobs /\ m.cur \in 0 .. 1 /\ 1 - m.cur \in 0 .. 1
    BY StoreParts, BankAddresses
  <1>2. CASE m.job \in {"none", "scan"}
    <2>1. m.op = Idle BY <1>2, StoreParts DEF JobOK
    <2> QED BY <2>1, IdleChangesNothing
  <1>3. CASE m.job \in JournalJobs BY <1>1, <1>3, CutEntry DEF FlashOK
  <1>4. CASE m.job \in PageJobs \cup {"repair"}
    BY <1>1, <1>4, CutArea DEF FlashOK, Preserved
  <1>5. CASE m.job \in {"rotate", "snapshot"}
    BY <1>1, <1>5, CutSnapshot DEF FlashOK, Preserved
  <1>6. CASE m.job = "header"
    BY <1>1, <1>6, CutHeader DEF FlashOK, Preserved
  <1> QED BY <1>1, <1>2, <1>3, <1>4, <1>5, <1>6 DEF Jobs, RotationJobs

-----------------------------------------------------------------------------
(* The store at rest between two operations.                                 *)

LEMMA NothingOK == NoSession \in Descriptions /\ Blank \in PageSet /\ Idle \in Operations
  <1>1. 0 \in 0 .. IdLimit - 1 /\ 0 \in 0 .. Pages /\ 0 \in Nat BY Sizes
  <1>2. NoUser \in Owners BY DEF Owners
  <1>3. NoSession \in Descriptions BY <1>1, <1>2 DEF NoSession, Session, Descriptions
  <1> QED BY <1>3 DEF PageSet, Operations

LEMMA LostOrFailed ==
  ASSUME NEW fl
  PROVE  StoreOK(fl, Off) /\ StoreOK(fl, Failed)
  <1>1. /\ 0 \in 0 .. Pages /\ 1 \in 1 .. IdLimit /\ 1 \in 1 .. BankPages
        /\ 0 \in 0 .. MaxSessions + 1 /\ 0 \in Nat /\ 1 \in Nat /\ NoUser \in Owners
    BY Sizes DEF Owners
  <1>2. Off \in Stores BY <1>1, NothingOK DEF Off, Stores, Jobs
  <1>3. IsFiniteSet({}) /\ Cardinality({}) = 0 BY FS_EmptySet
  <1>4. DirectoryOK(Off) BY <1>3, Sizes DEF Off, DirectoryOK, Separate
  <1>5. Failed \in Stores BY <1>2 DEF Failed, Off, Stores
  <1>6. DirectoryOK(Failed) BY <1>3, Sizes DEF Off, Failed, DirectoryOK, Separate
  <1>7. JobOK(Off) /\ ExtentsOK(Off) /\ ~Mounted(Off)
    BY DEF Off, JobOK, ExtentsOK, Mounted, RecordingOK, HeadOK, ReclaimOK, PendingOK, Recording,
           JournalJobs, RotationJobs, PageJobs
  <1>8. JobOK(Failed) /\ ExtentsOK(Failed) /\ ~Mounted(Failed)
    BY DEF Off, Failed, JobOK, ExtentsOK, Mounted, RecordingOK, HeadOK, ReclaimOK, PendingOK,
           Recording, JournalJobs, RotationJobs, PageJobs
  <1> QED BY <1>2, <1>4, <1>5, <1>6, <1>7, <1>8 DEF StoreOK, Base

RecalledNow(fl, m, id) == Recalled(fl, m.cur, Stop(fl, m.cur), id)

\* Between two operations of the runtime: nothing is held, and the journal is as RAM has it.
Quiet(fl, m) ==
    /\ Base(m) /\ Mounted(m) /\ m.resume = "none" /\ Covered(m)
    /\ m.mode = "recovering" => ~m.active
    /\ JournalOK(fl, m.cur) /\ m.gen = Generation(fl, m.cur)
    /\ m.next < BankPages =>
          m.next = Stop(fl, m.cur) /\ fl[Bank(m.cur) + m.next] = Blank
    /\ \A s \in m.dir : s.confirmed => RecalledNow(fl, m, s.id)

\* The parts of the store that an operation set up does not touch.
Same(r, m) ==
    /\ r.dir = m.dir /\ r.head = m.head /\ r.nextId = m.nextId
    /\ r.active = m.active /\ r.act = m.act
    /\ r.cur = m.cur /\ r.next = m.next /\ r.gen = m.gen

LEMMA SameParts ==
  ASSUME NEW fl, NEW m, NEW r, Same(r, m), Base(m), r \in Stores
  PROVE  /\ Base(r)
         /\ Covered(m) => Covered(r)
         /\ Behind(m) => Behind(r)
         /\ \A id : RecalledNow(fl, m, id) <=> RecalledNow(fl, r, id)
         /\ \A job : r.reclaim = m.reclaim /\ Purposes(m, job) => Purposes(r, job)
         /\ \A job, page : r.reclaim.id = m.reclaim.id /\ Fits(m, job, page) => Fits(r, job, page)
  <1>1. Base(r) BY DEF Same, Base, DirectoryOK
  <1>2. Covered(m) => Covered(r) BY DEF Same, Covered
  <1>3. Behind(m) => Behind(r) BY DEF Same, Behind
  <1>4. \A id : RecalledNow(fl, m, id) <=> RecalledNow(fl, r, id) BY DEF Same, RecalledNow
  <1>5. \A job : r.reclaim = m.reclaim /\ Purposes(m, job) => Purposes(r, job)
    BY DEF Same, Purposes
  <1>6. \A job, page : r.reclaim.id = m.reclaim.id /\ Fits(m, job, page) => Fits(r, job, page)
    BY DEF Fits
  <1> QED BY <1>1, <1>2, <1>3, <1>4, <1>5, <1>6

\* An entry that fits its job can be written, into this bank or the other one.
LEMMA JournalGoes ==
  ASSUME NEW fl, NEW m, Quiet(fl, m), NEW job \in JournalJobs, NEW entry,
         Purposes(m, job), Fits(m, job, entry),
         m.active \/ job = "open" => Behind(m),
         job = "progress" => RecalledNow(fl, m, m.reclaim.id)
  PROVE  StoreOK(fl, Journal(m, entry, job))
  <1>1. /\ m \in Stores /\ DirectoryOK(m) /\ Mounted(m) /\ Covered(m) /\ m.resume = "none"
        /\ m.cur \in 0 .. 1 /\ m.next \in 1 .. BankPages /\ Base(m)
        /\ m.mode = "recovering" => ~m.active
    BY DEF Quiet, Base, Stores
  <1>2. /\ entry \in Entries /\ entry \in PageSet
    BY DEF Fits, Entries, PageSet
  <1>3. CASE m.runtime /\ m.next < BankPages
    <2>1. PICK r : r = [m EXCEPT !.op = Program(Bank(m.cur) + m.next, entry), !.job = job]
      OBVIOUS
    <2>2. Journal(m, entry, job) = r BY <1>3, <2>1 DEF Journal
    <2>3. Bank(m.cur) + m.next \in Chip
      <3>1. m.next \in 0 .. BankPages - 1 BY <1>1, <1>3, Sizes
      <3> QED BY <1>1, <3>1, BankAddresses
    <2>4. Program(Bank(m.cur) + m.next, entry) \in Operations /\ job \in Jobs
      BY <1>2, <2>3 DEF Operations, Program, Jobs
    <2>5. /\ r \in Stores /\ Same(r, m) /\ r.reclaim = m.reclaim /\ r.resume = "none"
          /\ r.job = job /\ r.mode = m.mode
          /\ r.op = Program(Bank(m.cur) + m.next, entry)
      BY <1>1, <2>1, <2>4 DEF Stores, Same
    <2>6. /\ r.op.do = "program" /\ r.op.at = Bank(r.cur) + r.next /\ r.op.page = entry
          /\ r.op # Idle /\ r.next < BankPages /\ r.active = m.active
      BY <1>3, <2>5 DEF Program, Idle, Same
    <2>7. /\ Base(r) /\ Covered(r) /\ Purposes(r, job) /\ Fits(r, job, entry)
          /\ Behind(m) => Behind(r)
          /\ \A id : RecalledNow(fl, m, id) <=> RecalledNow(fl, r, id)
      BY <1>1, <2>5, SameParts, Zenon
    <2>8. JobOK(r) /\ ReclaimOK(r) /\ PendingOK(r)
      BY <1>1, <2>5, <2>6, <2>7
      DEF JobOK, ReclaimOK, PendingOK, JournalJobs, RotationJobs, PageJobs, Mounted
    <2>9. RecordingOK(r) /\ HeadOK(r)
      BY <2>5, <2>6, <2>7 DEF RecordingOK, HeadOK, Recording, JournalJobs
    <2>10. CursorOK(fl, r)
      <3>1. JournalOK(fl, r.cur) /\ r.next = Stop(fl, r.cur) /\ fl[Bank(r.cur) + r.next] = Blank
        BY <1>3, <2>5 DEF Quiet, Same
      <3>2. \A s \in r.dir : s.confirmed => RecalledNow(fl, r, s.id)
        BY <2>5, <2>7 DEF Quiet, Same
      <3>3. Writing(r) => RecalledNow(fl, r, r.reclaim.id)
        BY <2>5, <2>7 DEF Writing
      <3>4. r.job # "reclaim" BY <2>5 DEF JournalJobs
      <3> QED BY <3>1, <3>2, <3>3, <3>4 DEF CursorOK, RecalledNow
    <2>11. RotationOK(fl, r)
      BY <2>5 DEF RotationOK, Quiet, Same, JournalJobs
    <2> QED BY <2>2, <2>7, <2>8, <2>9, <2>10, <2>11 DEF StoreOK, ExtentsOK
  <1>4. CASE ~(m.runtime /\ m.next < BankPages)
    <2>1. PICK r : r = [m EXCEPT !.op = Erase(Bank(1 - m.cur), BankPages), !.job = "rotate",
                                 !.held = entry, !.resume = job]
      OBVIOUS
    <2>2. Journal(m, entry, job) = r BY <1>4, <2>1 DEF Journal
    <2>3. Bank(1 - m.cur) \in Nat BY <1>1, BankAddresses
    <2>4. Erase(Bank(1 - m.cur), BankPages) \in Operations /\ "rotate" \in Jobs
      BY <2>3, Sizes DEF Operations, Erase, Jobs, RotationJobs
    <2>5. /\ r \in Stores /\ Same(r, m) /\ r.reclaim = m.reclaim /\ r.resume = job
          /\ r.job = "rotate" /\ r.mode = m.mode /\ r.held = entry
          /\ r.op = Erase(Bank(1 - m.cur), BankPages) /\ r.active = m.active /\ r.cur = m.cur
      BY <1>1, <1>2, <2>1, <2>4 DEF Stores, Same
    <2>6. r.op # Idle BY <2>5 DEF Erase, Idle
    <2>7. /\ Base(r) /\ Covered(r) /\ Purposes(r, job) /\ Fits(r, job, entry)
          /\ Behind(m) => Behind(r)
          /\ \A id : RecalledNow(fl, m, id) <=> RecalledNow(fl, r, id)
      BY <1>1, <2>5, SameParts, Zenon
    <2>8. JobOK(r) /\ ReclaimOK(r) /\ PendingOK(r)
      BY <1>1, <2>5, <2>6, <2>7
      DEF JobOK, ReclaimOK, PendingOK, JournalJobs, RotationJobs, PageJobs, Mounted
    <2>9. RecordingOK(r) /\ HeadOK(r)
      BY <2>5, <2>7 DEF RecordingOK, HeadOK, Recording, JournalJobs
    <2>10. CursorOK(fl, r)
      <3>1. /\ JournalOK(fl, r.cur)
            /\ r.next < BankPages => r.next = Stop(fl, r.cur) /\ fl[Bank(r.cur) + r.next] = Blank
        BY <2>5 DEF Quiet, Same
      <3>2. \A s \in r.dir : s.confirmed => RecalledNow(fl, r, s.id)
        BY <2>5, <2>7 DEF Quiet, Same
      <3>3. Writing(r) => RecalledNow(fl, r, r.reclaim.id)
        BY <2>5, <2>7 DEF Writing
      <3> QED BY <2>5, <3>1, <3>2, <3>3 DEF CursorOK, RecalledNow
    <2>11. RotationOK(fl, r)
      BY <2>5 DEF RotationOK, Quiet, Same
    <2> QED BY <2>2, <2>7, <2>8, <2>9, <2>10, <2>11 DEF StoreOK, ExtentsOK
  <1> QED BY <1>3, <1>4

LEMMA QuietSame ==
  ASSUME NEW fl, NEW m, Quiet(fl, m), NEW r \in Stores, Same(r, m), r.resume = "none",
         r.mode \in {"ready", "busy"} \/ r.mode = m.mode
  PROVE  Quiet(fl, r)
  <1>1. Base(r) /\ Covered(r) BY SameParts DEF Quiet
  <1>2. Mounted(r) /\ (r.mode = "recovering" => ~r.active) BY DEF Quiet, Same, Mounted
  <1>3. \A s \in r.dir : s.confirmed => RecalledNow(fl, r, s.id)
    BY DEF Quiet, Same, RecalledNow
  <1>4. /\ JournalOK(fl, r.cur) /\ r.gen = Generation(fl, r.cur)
        /\ r.next < BankPages =>
             r.next = Stop(fl, r.cur) /\ fl[Bank(r.cur) + r.next] = Blank
    BY DEF Quiet, Same
  <1> QED BY <1>1, <1>2, <1>3, <1>4 DEF Quiet

LEMMA QuietParts ==
  ASSUME NEW fl, NEW r, Quiet(fl, r),
         r.job \in {"none"} \cup PageJobs, ReclaimOK(r), JobOK(r), RecordingOK(r),
         r.job = "reclaim" => RecalledNow(fl, r, r.reclaim.id)
  PROVE  StoreOK(fl, r)
  <1>1. ~Writing(r) BY DEF Quiet, PageJobs, Writing
  <1>2. CursorOK(fl, r) BY <1>1 DEF CursorOK, Quiet, RecalledNow
  <1>3. RotationOK(fl, r) BY DEF RotationOK, Quiet, PageJobs
  <1>4. HeadOK(r) BY DEF HeadOK, Quiet
  <1>5. PendingOK(r) BY DEF PendingOK, PageJobs
  <1> QED BY <1>2, <1>3, <1>4, <1>5 DEF StoreOK, ExtentsOK, Quiet

LEMMA RestGoes ==
  ASSUME NEW fl, NEW r, Quiet(fl, r), r.job = "none", r.op = Idle, r.mode # "recovering",
         r.active => Behind(r)
  PROVE  StoreOK(fl, r)
  <1>1. JobOK(r) BY DEF JobOK, Quiet, Mounted, JournalJobs, RotationJobs, PageJobs, Idle
  <1>2. ReclaimOK(r) BY DEF ReclaimOK
  <1>3. RecordingOK(r) BY DEF RecordingOK, Recording, Quiet
  <1> QED BY <1>1, <1>2, <1>3, QuietParts

LEMMA EntryForms ==
  /\ \A s \in Finals, type \in EntryTypes : Entry(type, s) \in Entries
  /\ \A s \in Descriptions, type \in EntryTypes \ OfFinals : Entry(type, s) \in Entries
  /\ \A s, type : Entry(type, s).type = type /\ Entry(type, s).s = s
  BY DEF Entries, EntryPages, Entry, Finals

LEMMA SectorSteps ==
  /\ \A p : Sectored(p) => p \in 0 .. Pages
  /\ \A p, q : Sectored(p) /\ Sectored(q) /\ p < q => p + SectorPages <= q /\ Sectored(p + SectorPages)
  /\ Sectored(0) /\ Sectored(Pages)
  <1>1. ASSUME NEW k \in 0 .. Sectors
        PROVE  k * SectorPages \in 0 .. Pages
    <2>1. k * SectorPages <= Sectors * SectorPages BY Sizes, MulMono
    <2>2. 0 * SectorPages <= k * SectorPages BY Sizes, MulMono
    <2> QED BY <2>1, <2>2, Sizes DEF Pages
  <1>2. ASSUME NEW p, Sectored(p) PROVE p \in 0 .. Pages BY <1>1, <1>2 DEF Sectored
  <1>3. ASSUME NEW p, NEW q, Sectored(p), Sectored(q), p < q
        PROVE  p + SectorPages <= q /\ Sectored(p + SectorPages)
    <2>1. PICK k \in 0 .. Sectors : p = k * SectorPages BY <1>3 DEF Sectored
    <2>2. PICK l \in 0 .. Sectors : q = l * SectorPages BY <1>3 DEF Sectored
    <2>3. k < l
      <3>1. SUFFICES ASSUME l <= k PROVE FALSE BY <2>1, <2>2
      <3>2. l * SectorPages <= k * SectorPages BY <3>1, Sizes, MulMono
      <3> QED BY <1>2, <1>3, <2>1, <2>2, <3>2, Sizes
    <2>4. (k + 1) * SectorPages <= l * SectorPages BY <2>3, Sizes, MulMono
    <2>5. (k + 1) * SectorPages = k * SectorPages + SectorPages BY Sizes
    <2>6. k + 1 \in 0 .. Sectors BY <2>3, Sizes
    <2> QED BY <2>1, <2>2, <2>4, <2>5, <2>6 DEF Sectored
  <1>4. Sectored(0) /\ Sectored(Pages)
    <2>1. 0 = 0 * SectorPages /\ Pages = Sectors * SectorPages BY Sizes DEF Pages
    <2>2. 0 \in 0 .. Sectors /\ Sectors \in 0 .. Sectors BY Sizes
    <2> QED BY <2>1, <2>2 DEF Sectored
  <1> QED BY <1>2, <1>3, <1>4

\* The erasing of a final session begins, ends at once, or waits.
LEMMA StartReclaimGoes ==
  ASSUME NEW fl, NEW m, Quiet(fl, m), NEW s \in Finals, s.id < m.nextId,
         RecalledNow(fl, m, s.id), ~m.active,
         \A d \in m.dir : d.id = s.id => d.begin = s.begin /\ d.end = s.end
  PROVE  StoreOK(fl, StartReclaim(m, s))
  <1>1. m \in Stores /\ Base(m) BY DEF Quiet, Base
  <1>2. PICK from : from = IF s.next >= s.begin THEN s.next ELSE s.begin OBVIOUS
  <1>3. s.begin \in 0 .. Pages /\ s.end \in 0 .. Pages /\ s.next \in 0 .. Pages
    BY DEF Finals, Descriptions
  <1>4. from \in 0 .. Pages /\ Sectored(from) /\ s.begin <= from /\ from <= s.end
    BY <1>2, <1>3 DEF Finals
  <1>5. PICK t : t = [s EXCEPT !.next = from] OBVIOUS
  <1>6. /\ t \in Finals /\ t.id = s.id /\ t.begin = s.begin /\ t.end = s.end /\ t.next = from
    <2>1. t \in Descriptions /\ t.id = s.id /\ t.owner = s.owner /\ t.begin = s.begin
          /\ t.end = s.end /\ t.next = from
      BY <1>4, <1>5 DEF Finals, Descriptions
    <2> QED BY <1>4, <2>1 DEF Finals
  <1>7. CASE m.paused /\ ~m.foreign
    <2>1. PICK r : r = [m EXCEPT !.reclaim = t, !.pending = FALSE, !.mode = "ready",
                                 !.job = "none", !.op = Idle]
      OBVIOUS
    <2>2. StartReclaim(m, s) = r BY <1>1, <1>2, <1>5, <1>7, <2>1 DEF StartReclaim, Stores
    <2>3. /\ r \in Stores /\ Same(r, m) /\ r.resume = m.resume /\ r.mode = "ready"
          /\ r.job = "none" /\ r.op = Idle /\ r.active = m.active
      BY <1>1, <1>6, <2>1, NothingOK DEF Stores, Same, Jobs
    <2>4. Quiet(fl, r) BY <2>3, QuietSame DEF Quiet
    <2> QED BY <2>2, <2>3, <2>4, RestGoes
  <1>8. CASE ~(m.paused /\ ~m.foreign) /\ from = s.end
    <2>1. PICK r : r = [m EXCEPT !.reclaim = t, !.pending = TRUE] OBVIOUS
    <2>2. StartReclaim(m, s) = Journal(r, Entry("reclaimed", s), "reclaimed")
      BY <1>1, <1>2, <1>5, <1>8, <2>1 DEF StartReclaim, Stores
    <2>3. /\ r \in Stores /\ Same(r, m) /\ r.resume = m.resume /\ r.mode = m.mode
          /\ r.active = m.active /\ r.reclaim = t /\ r.nextId = m.nextId
      BY <1>1, <1>6, <2>1 DEF Stores, Same
    <2>4. Quiet(fl, r) BY <2>3, QuietSame DEF Quiet
    <2>5. Purposes(r, "reclaimed") BY <1>6, <2>3 DEF Purposes
    <2>6. Fits(r, "reclaimed", Entry("reclaimed", s))
      BY EntryForms DEF Fits, EntryTypes, Counted, Releases
    <2>7. "reclaimed" \in JournalJobs BY DEF JournalJobs
    <2>8. StoreOK(fl, Journal(r, Entry("reclaimed", s), "reclaimed"))
      BY <2>3, <2>4, <2>5, <2>6, <2>7, JournalGoes
    <2> QED BY <2>2, <2>8
  <1>9. CASE ~(m.paused /\ ~m.foreign) /\ from # s.end
    <2>1. PICK r : r = [m EXCEPT !.reclaim = t, !.pending = TRUE, !.mode = "busy",
                                 !.job = "reclaim", !.op = Erase(from, SectorPages)]
      OBVIOUS
    <2>2. StartReclaim(m, s) = r BY <1>1, <1>2, <1>5, <1>9, <2>1 DEF StartReclaim, Stores
    <2>3. from < s.end /\ from + SectorPages <= s.end
      <3>1. from < s.end BY <1>3, <1>4, <1>9
      <3> QED BY <1>4, <3>1, SectorSteps DEF Finals
    <2>4. /\ Erase(from, SectorPages) \in Operations
          /\ Erase(from, SectorPages).upto < Pages
          /\ Erase(from, SectorPages).do = "erase"
          /\ Erase(from, SectorPages) # Idle
      BY <1>3, <1>4, <2>3, Sizes DEF Operations, Erase, Idle
    <2>5. /\ r \in Stores /\ Same(r, m) /\ r.resume = m.resume /\ r.mode = "busy"
          /\ r.job = "reclaim" /\ r.op = Erase(from, SectorPages)
          /\ r.active = m.active /\ r.reclaim = t /\ r.nextId = m.nextId /\ r.dir = m.dir
      BY <1>1, <1>6, <2>1, <2>4 DEF Stores, Same, Jobs, PageJobs
    <2>6. Quiet(fl, r) BY <2>5, QuietSame DEF Quiet
    <2>7. JobOK(r)
      BY <2>4, <2>5, <2>6 DEF JobOK, Quiet, JournalJobs, RotationJobs, PageJobs
    <2>8. ReclaimOK(r) BY <1>4, <1>6, <2>3, <2>5 DEF ReclaimOK
    <2>9. RecordingOK(r) BY <2>5, <2>6 DEF RecordingOK, Recording, Quiet
    <2>10. RecalledNow(fl, r, r.reclaim.id)
      BY <1>1, <1>6, <2>5, SameParts
    <2>11. r.job \in {"none"} \cup PageJobs BY <2>5 DEF PageJobs
    <2> QED BY <2>2, <2>6, <2>7, <2>8, <2>9, <2>10, <2>11, QuietParts
  <1> QED BY <1>7, <1>8, <1>9

-----------------------------------------------------------------------------
(* The directory.                                                            *)

LEMMA MaxIs ==
  ASSUME NEW S, NEW B \in Nat, S \subseteq 0 .. B, S # {}
  PROVE  Max(S) \in S /\ \A y \in S : y <= Max(S)
  <1>1. PICK T : T = {B - y : y \in S} OBVIOUS
  <1>2. T \in SUBSET Nat /\ T # {}
    <2>1. \A y \in S : B - y \in Nat OBVIOUS
    <2> QED BY <1>1, <2>1
  <1>3. PICK n \in T : \A x \in T : n <= x BY <1>2, MinIs
  <1>4. PICK z \in S : n = B - z BY <1>1, <1>3
  <1>5. \A y \in S : y <= z
    <2>1. SUFFICES ASSUME NEW y \in S PROVE y <= z OBVIOUS
    <2>2. B - y \in T BY <1>1
    <2>3. B - z <= B - y BY <1>3, <1>4, <2>2
    <2> QED BY <2>3
  <1>6. \A y \in S : z >= y BY <1>5
  <1>7. Max(S) \in S /\ \A y \in S : Max(S) >= y BY <1>6 DEF Max
  <1>8. PICK w \in S : w = Max(S) /\ \A y \in S : w >= y BY <1>7
  <1>9. \A y \in S : y <= w BY <1>8
  <1> QED BY <1>8, <1>9

LEMMA FirstIs ==
  ASSUME NEW dir \in SUBSET Finals, dir # {}
  PROVE  First(dir) \in dir
  <1>1. \A s \in dir : s.id \in Nat BY Sizes DEF Finals, Ids
  <1>2. PICK T : T = {s.id : s \in dir} OBVIOUS
  <1>3. T \in SUBSET Nat /\ T # {} BY <1>1, <1>2
  <1>4. PICK n \in T : \A x \in T : n <= x BY <1>3, MinIs
  <1>5. PICK s \in dir : s.id = n BY <1>2, <1>4
  <1>6. \A d \in dir : s.id <= d.id BY <1>2, <1>4, <1>5
  <1> QED BY <1>6 DEF First

LEMMA LatestIs ==
  ASSUME NEW dir \in SUBSET Finals, dir # {}
  PROVE  Latest(dir) \in dir /\ \A d \in dir : d.id <= Latest(dir).id
  <1>1. \A s \in dir : s.id \in 0 .. IdLimit BY Sizes DEF Finals, Ids
  <1>2. PICK T : T = {s.id : s \in dir} OBVIOUS
  <1>3. T \subseteq 0 .. IdLimit /\ T # {} BY <1>1, <1>2
  <1>4. PICK n \in T : \A x \in T : x <= n BY <1>3, MaxIs, Sizes
  <1>5. PICK s \in dir : s.id = n BY <1>2, <1>4
  <1>6. \A d \in dir : s.id >= d.id
    <2>1. SUFFICES ASSUME NEW d \in dir PROVE s.id >= d.id OBVIOUS
    <2>2. d.id <= s.id BY <1>2, <1>4, <1>5
    <2> QED BY <1>1, <2>2
  <1>7. PICK l \in dir : l = Latest(dir) /\ \A d \in dir : l.id >= d.id BY <1>6 DEF Latest
  <1>8. \A d \in dir : d.id <= l.id BY <1>1, <1>7
  <1> QED BY <1>7, <1>8

LEMMA MaxEndIs ==
  ASSUME NEW dir \in SUBSET Finals
  PROVE  MaxEnd(dir) \in 0 .. Pages /\ \A s \in dir : s.end <= MaxEnd(dir)
  <1>1. PICK S : S = {s.end : s \in dir} \cup {0} OBVIOUS
  <1>2. S \subseteq 0 .. Pages /\ S # {} BY <1>1, Sizes DEF Finals, Descriptions
  <1>3. Max(S) \in S /\ \A y \in S : y <= Max(S) BY <1>2, MaxIs, Sizes
  <1>4. MaxEnd(dir) = Max(S) BY <1>1 DEF MaxEnd
  <1> QED BY <1>1, <1>2, <1>3, <1>4

LEMMA NamedIs ==
  ASSUME NEW dir, NEW id, Known(dir, id)
  PROVE  Named(dir, id) \in dir /\ Named(dir, id).id = id
  BY DEF Known, Named

\* A session is entered, or entered again with what has become of it.
LEMMA DirectoryPut ==
  ASSUME NEW dir \in SUBSET Finals, NEW s \in Finals,
         IsFiniteSet(dir), Cardinality(dir) <= MaxSessions, Separate(dir),
         Known(dir, s.id) \/ Cardinality(dir) < MaxSessions,
         \A d \in dir : d.id # s.id => ~Overlaps(d, s)
  PROVE  /\ Replace(dir, s) \in SUBSET Finals
         /\ IsFiniteSet(Replace(dir, s)) /\ Cardinality(Replace(dir, s)) <= MaxSessions
         /\ Separate(Replace(dir, s))
         /\ s \in Replace(dir, s)
         /\ \A d \in Replace(dir, s) : d = s \/ (d \in dir /\ d.id # s.id)
  <1>1. PICK rest : rest = {d \in dir : d.id # s.id} OBVIOUS
  <1>2. Replace(dir, s) = rest \cup {s} BY <1>1 DEF Replace
  <1>3. rest \subseteq dir /\ s \notin rest BY <1>1
  <1>4. IsFiniteSet(rest) /\ Cardinality(rest) <= Cardinality(dir) /\ Cardinality(rest) \in Nat
        /\ Cardinality(dir) \in Nat
    BY <1>3, FS_Subset, FS_CardinalityType
  <1>5. Cardinality(rest) + 1 <= MaxSessions
    <2>1. CASE Known(dir, s.id)
      <3>1. PICK d \in dir : d.id = s.id BY <2>1 DEF Known
      <3>2. rest \subseteq dir \ {d} BY <1>1, <3>1
      <3>3. IsFiniteSet(dir \ {d}) /\ Cardinality(dir \ {d}) = Cardinality(dir) - 1
        BY <3>1, FS_RemoveElement
      <3>4. Cardinality(rest) <= Cardinality(dir \ {d}) BY <3>2, <3>3, FS_Subset
      <3> QED BY <1>4, <3>3, <3>4, Sizes
    <2>2. CASE Cardinality(dir) < MaxSessions BY <1>4, <2>2, Sizes
    <2> QED BY <2>1, <2>2
  <1>6. IsFiniteSet(rest \cup {s}) /\ Cardinality(rest \cup {s}) = Cardinality(rest) + 1
    BY <1>3, <1>4, FS_AddElement
  <1>7. Separate(rest \cup {s})
    <2>1. SUFFICES ASSUME NEW a \in rest \cup {s}, NEW b \in rest \cup {s}, a # b
                   PROVE  a.id # b.id /\ ~Overlaps(a, b)
      BY DEF Separate
    <2>2. CASE a \in rest /\ b \in rest BY <1>3, <2>1, <2>2 DEF Separate
    <2>3. CASE a \in rest /\ b = s BY <1>1, <2>3
    <2>4. CASE a = s /\ b \in rest
      <3>1. ~Overlaps(b, a) /\ a.id # b.id BY <1>1, <2>4
      <3> QED BY <3>1 DEF Overlaps
    <2> QED BY <2>1, <2>2, <2>3, <2>4
  <1> QED BY <1>1, <1>2, <1>3, <1>5, <1>6, <1>7

\* The same session further on: its place is its own.
LEMMA DirectoryUpdate ==
  ASSUME NEW m, Base(m), NEW d \in m.dir, NEW s \in Finals,
         s.id = d.id, s.begin = d.begin, s.end = d.end
  PROVE  /\ Replace(m.dir, s) \in SUBSET Finals
         /\ IsFiniteSet(Replace(m.dir, s)) /\ Cardinality(Replace(m.dir, s)) <= MaxSessions
         /\ Separate(Replace(m.dir, s)) /\ s \in Replace(m.dir, s)
         /\ \A e \in Replace(m.dir, s) : e = s \/ (e \in m.dir /\ e.id # s.id)
         /\ \A e \in Replace(m.dir, s) : e.id < m.nextId
         /\ \A e \in Replace(m.dir, s) : e.id = s.id => e = s
         /\ Covered(m) => \A e \in Replace(m.dir, s) : e.end <= m.head
  <1>1. m.dir \in SUBSET Finals BY DEF Base, Stores
  <1>2. IsFiniteSet(m.dir) /\ Cardinality(m.dir) <= MaxSessions /\ Separate(m.dir)
        /\ \A e \in m.dir : e.id < m.nextId
    BY DEF Base, DirectoryOK
  <1>3. \A e \in m.dir : e.id # s.id => ~Overlaps(e, s)
    <2>1. SUFFICES ASSUME NEW e \in m.dir, e.id # s.id PROVE ~Overlaps(e, s) OBVIOUS
    <2>2. e # d /\ ~Overlaps(e, d) BY <1>2, <2>1 DEF Separate
    <2> QED BY <2>2 DEF Overlaps
  <1>4. Known(m.dir, s.id) BY DEF Known
  <1>5. /\ Replace(m.dir, s) \in SUBSET Finals
        /\ IsFiniteSet(Replace(m.dir, s)) /\ Cardinality(Replace(m.dir, s)) <= MaxSessions
        /\ Separate(Replace(m.dir, s)) /\ s \in Replace(m.dir, s)
        /\ \A e \in Replace(m.dir, s) : e = s \/ (e \in m.dir /\ e.id # s.id)
    BY <1>1, <1>2, <1>3, <1>4, DirectoryPut
  <1>6. \A e \in Replace(m.dir, s) : e.id < m.nextId BY <1>2, <1>5
  <1>7. Covered(m) => \A e \in Replace(m.dir, s) : e.end <= m.head BY <1>5 DEF Covered
  <1> QED BY <1>5, <1>6, <1>7

-----------------------------------------------------------------------------
(* Jobs go on.                                                               *)

LEMMA QuietDirectory ==
  ASSUME NEW fl, NEW m, Quiet(fl, m), NEW r \in Stores,
         r.cur = m.cur, r.next = m.next, r.gen = m.gen, r.resume = "none",
         r.mode \in {"ready", "busy"} \/ r.mode = m.mode,
         r.mode = "recovering" => ~r.active,
         DirectoryOK(r), Covered(r),
         \A s \in r.dir : s.confirmed => RecalledNow(fl, m, s.id)
  PROVE  Quiet(fl, r)
  <1>1. Base(r) /\ Mounted(r) BY DEF Quiet, Base, Mounted
  <1>2. /\ JournalOK(fl, r.cur) /\ r.gen = Generation(fl, r.cur)
        /\ r.next < BankPages =>
             r.next = Stop(fl, r.cur) /\ fl[Bank(r.cur) + r.next] = Blank
    BY DEF Quiet
  <1>3. \A s \in r.dir : s.confirmed => RecalledNow(fl, r, s.id) BY DEF RecalledNow
  <1> QED BY <1>1, <1>2, <1>3 DEF Quiet

\* The store of a runtime that waits for its next request.
LEMMA Waits ==
  ASSUME NEW fl, NEW m, StoreOK(fl, m), m.mode \in {"ready", "busy"}, m.job = "none"
  PROVE  Quiet(fl, m) /\ (m.active => Behind(m))
  <1>1. Mounted(m) /\ CursorOK(fl, m) /\ RotationOK(fl, m) /\ JobOK(m) /\ Base(m) /\ HeadOK(m)
        /\ RecordingOK(m)
    BY StoreParts DEF Mounted, StoreOK
  <1>2. m.resume = "none" /\ Covered(m) BY <1>1 DEF JobOK, RotationJobs, HeadOK
  <1>3. m.active => Behind(m) BY <1>1 DEF RecordingOK, Recording
  <1>4. /\ JournalOK(fl, m.cur) /\ m.gen = Generation(fl, m.cur)
        /\ m.next < BankPages => m.next = Stop(fl, m.cur) /\ fl[Bank(m.cur) + m.next] = Blank
        /\ \A s \in m.dir : s.confirmed => RecalledNow(fl, m, s.id)
    BY <1>1 DEF CursorOK, RotationOK, RecalledNow
  <1> QED BY <1>1, <1>2, <1>3, <1>4 DEF Quiet

LEMMA PageIsThere ==
  ASSUME NEW fl, FlashOK(fl), NEW m, StoreOK(fl, m), m.mode \in {"ready", "busy"},
         m.job \in PageJobs, NEW new \in Interrupted(fl, m.op)
  PROVE  /\ Quiet(new, m) /\ RecordingOK(m)
         /\ \A id : RecalledNow(fl, m, id) => RecalledNow(new, m, id)
  <1>1. Mounted(m) /\ CursorOK(fl, m) /\ RotationOK(fl, m) /\ JobOK(m) /\ Base(m) /\ HeadOK(m)
        /\ RecordingOK(m) /\ m.cur \in 0 .. 1 /\ m.next \in 1 .. BankPages
    BY StoreParts DEF Mounted, StoreOK
  <1>2. m.resume = "none" /\ Covered(m) BY <1>1 DEF JobOK, RotationJobs, HeadOK, PageJobs
  <1>3. Preserved(fl, new, m.cur) BY CutArea
  <1>4. m.gen = Generation(fl, m.cur) BY <1>1 DEF RotationOK, PageJobs
  <1>5. \A id : RecalledNow(fl, m, id) => RecalledNow(new, m, id)
    BY <1>3 DEF Preserved, RecalledNow
  <1>6. /\ JournalOK(new, m.cur) /\ m.gen = Generation(new, m.cur)
    BY <1>3, <1>4 DEF Preserved
  <1>7. m.next < BankPages => m.next = Stop(new, m.cur) /\ new[Bank(m.cur) + m.next] = Blank
    <2>1. SUFFICES ASSUME m.next < BankPages
                   PROVE  m.next = Stop(new, m.cur) /\ new[Bank(m.cur) + m.next] = Blank
      OBVIOUS
    <2>2. m.next \in 0 .. BankPages - 1 BY <1>1, <2>1, Sizes
    <2> QED BY <1>1, <1>3, <2>1, <2>2 DEF CursorOK, Preserved
  <1>8. \A s \in m.dir : s.confirmed => RecalledNow(new, m, s.id)
    BY <1>1, <1>5 DEF CursorOK, RecalledNow
  <1> QED BY <1>1, <1>2, <1>5, <1>6, <1>7, <1>8 DEF Quiet

LEMMA EntryIsThere ==
  ASSUME NEW fl, FlashOK(fl), NEW m, StoreOK(fl, m), m.mode \in {"ready", "busy"},
         m.job \in JournalJobs, NEW new \in Interrupted(fl, m.op),
         Verified(new, m.op)
  PROVE  /\ Quiet(new, Logged(m)) /\ RecordingOK(m) /\ Purposes(m, m.job)
         /\ Logged(m) = [m EXCEPT !.next = m.next + 1] /\ m.next + 1 \in 1 .. BankPages
         /\ \A id : RecalledNow(fl, m, id) => RecalledNow(new, m, id)
         /\ m.job \in Releases => RecalledNow(new, m, m.reclaim.id)
  <1>1. Mounted(m) /\ CursorOK(fl, m) /\ RotationOK(fl, m) /\ JobOK(m) /\ Base(m) /\ HeadOK(m)
        /\ RecordingOK(m) /\ m.cur \in 0 .. 1 /\ m.next \in 1 .. BankPages /\ m \in Stores
    BY StoreParts DEF Mounted, StoreOK
  <1>2. m.resume = "none" /\ Covered(m) BY <1>1 DEF JobOK, RotationJobs, HeadOK, JournalJobs
  <1>3. /\ m.next < BankPages /\ Purposes(m, m.job)
        /\ m.op.do = "program" /\ m.op.at = Bank(m.cur) + m.next
        /\ Fits(m, m.job, m.op.page)
    BY <1>1 DEF JobOK
  <1>4. new[Bank(m.cur) + m.next] = m.op.page BY <1>3 DEF Verified
  <1>5. /\ JournalOK(new, m.cur)
        /\ Generation(new, m.cur) = Generation(fl, m.cur)
        /\ Stop(new, m.cur) = m.next + 1
        /\ \A id : Recalled(fl, m.cur, m.next, id) => Recalled(new, m.cur, m.next + 1, id)
        /\ m.op.page.type \in Counted => Recalled(new, m.cur, m.next + 1, m.op.page.s.id)
        /\ m.next + 1 < BankPages => new[Bank(m.cur) + (m.next + 1)] = Blank
    BY <1>4, CutEntry
  <1>6. m.next = Stop(fl, m.cur) BY <1>1, <1>3 DEF CursorOK
  <1>7. \A id : RecalledNow(fl, m, id) => RecalledNow(new, m, id)
    BY <1>5, <1>6 DEF RecalledNow
  <1>8. m.job \in Releases => RecalledNow(new, m, m.reclaim.id)
    <2>1. CASE m.job = "progress"
      <3>1. RecalledNow(fl, m, m.reclaim.id) BY <1>1, <2>1 DEF CursorOK, Writing, RecalledNow
      <3> QED BY <1>7, <3>1
    <2>2. CASE m.job \in Releases \ {"progress"}
      BY <1>3, <1>5, <2>2 DEF Fits, RecalledNow
    <2> QED BY <2>1, <2>2
  <1>9. PICK r : r = [m EXCEPT !.next = m.next + 1] OBVIOUS
  <1>10. m.next + 1 \in 1 .. BankPages BY <1>1, <1>3, Sizes
  <1>11. /\ r \in Stores /\ r.cur = m.cur /\ r.next = m.next + 1 /\ r.gen = m.gen
         /\ r.resume = "none" /\ r.mode = m.mode /\ r.dir = m.dir /\ r.head = m.head
         /\ r.nextId = m.nextId
    BY <1>1, <1>2, <1>9, <1>10 DEF Stores
  <1>12. Logged(m) = r BY <1>1, <1>9 DEF Logged, Stores
  <1>13. Base(r) /\ Mounted(r) /\ Covered(r)
    BY <1>1, <1>2, <1>11 DEF Base, DirectoryOK, Mounted, Covered
  <1>14. JournalOK(new, r.cur) /\ r.gen = Generation(new, r.cur)
    BY <1>1, <1>5, <1>11 DEF RotationOK, JournalJobs
  <1>15. r.next < BankPages => r.next = Stop(new, r.cur) /\ new[Bank(r.cur) + r.next] = Blank
    BY <1>5, <1>11
  <1>16. \A s \in r.dir : s.confirmed => RecalledNow(new, r, s.id)
    BY <1>1, <1>7, <1>11 DEF CursorOK, RecalledNow
  <1>17. r.mode # "recovering" BY <1>11
  <1> QED BY <1>1, <1>3, <1>7, <1>8, <1>9, <1>10, <1>11, <1>12, <1>13, <1>14, <1>15, <1>16, <1>17
          DEF Quiet

LEMMA StartNextPurgeGoes ==
  ASSUME NEW fl, NEW m, Quiet(fl, m), ~m.active
  PROVE  StoreOK(fl, StartNextPurge(m))
  <1>1. m \in Stores /\ Base(m) BY DEF Quiet, Base
  <1>2. PICK left : left = Foreign(m.dir, m.purge) OBVIOUS
  <1>3. CASE left = {}
    <2>1. PICK r : r = [m EXCEPT !.mode = "busy"] OBVIOUS
    <2>2. PICK e : e = Entry("purge_done", [NoSession EXCEPT !.owner = m.purge]) OBVIOUS
    <2>3. StartNextPurge(m) = Journal(r, e, "purge_done")
      BY <1>2, <1>3, <2>1, <2>2 DEF StartNextPurge
    <2>4. /\ r \in Stores /\ Same(r, m) /\ r.resume = m.resume /\ r.mode = "busy"
          /\ r.active = m.active
      BY <1>1, <2>1 DEF Stores, Same
    <2>5. Quiet(fl, r) BY <2>4, QuietSame DEF Quiet
    <2>6. Purposes(r, "purge_done") BY <2>4 DEF Purposes, Releases
    <2>7. Fits(r, "purge_done", e)
      <3>1. [NoSession EXCEPT !.owner = m.purge] \in Descriptions
        <4>1. m.purge \in Owners BY <1>1 DEF Stores
        <4> QED BY <4>1, NothingOK DEF Descriptions
      <3> QED BY <2>2, <3>1, EntryForms DEF Fits, EntryTypes, OfFinals, Releases
    <2>8. "purge_done" \in JournalJobs BY DEF JournalJobs
    <2> QED BY <2>3, <2>4, <2>5, <2>6, <2>7, <2>8, JournalGoes
  <1>4. CASE left # {}
    <2>1. PICK s : s = First(left) OBVIOUS
    <2>2. s \in m.dir /\ s \in Finals /\ s.id < m.nextId
      <3>1. m.dir \in SUBSET Finals /\ left \subseteq m.dir BY <1>1, <1>2 DEF Stores, Foreign
      <3>2. s \in left BY <1>4, <2>1, <3>1, FirstIs
      <3> QED BY <3>1, <3>2 DEF Quiet, Base, DirectoryOK
    <2>3. PICK r : r = [m EXCEPT !.mode = "busy", !.reclaim = s, !.foreign = TRUE] OBVIOUS
    <2>4. StartNextPurge(m) = Journal(r, Entry("discard", s), "discard")
      <3>1. [[m EXCEPT !.mode = "busy"] EXCEPT !.reclaim = s, !.foreign = TRUE] = r
        BY <1>1, <2>3 DEF Stores
      <3> QED BY <1>2, <1>4, <2>1, <3>1 DEF StartNextPurge
    <2>5. /\ r \in Stores /\ Same(r, m) /\ r.resume = m.resume /\ r.mode = "busy"
          /\ r.active = m.active /\ r.reclaim = s /\ r.nextId = m.nextId
      BY <1>1, <2>2, <2>3 DEF Stores, Same
    <2>6. Quiet(fl, r) BY <2>5, QuietSame DEF Quiet
    <2>7. Purposes(r, "discard") BY <2>2, <2>5 DEF Purposes
    <2>8. Fits(r, "discard", Entry("discard", s))
      BY <2>2, <2>5, EntryForms DEF Fits, EntryTypes, Counted, Releases
    <2>9. "discard" \in JournalJobs BY DEF JournalJobs
    <2> QED BY <2>4, <2>5, <2>6, <2>7, <2>8, <2>9, JournalGoes
  <1> QED BY <1>3, <1>4

-----------------------------------------------------------------------------
(* Sectors.                                                                  *)

LEMMA AlignUpIs ==
  ASSUME NEW p \in Nat
  PROVE  /\ AlignUp(p) \in Nat /\ p <= AlignUp(p) /\ AlignUp(p) < p + SectorPages
         /\ \E j \in Nat : AlignUp(p) = j * SectorPages
  <1> DEFINE a == p + SectorPages - 1
  <1>1. a \in Nat BY Sizes
  <1>2. PICK q \in Int, r \in 0 .. SectorPages - 1 :
          q = a \div SectorPages /\ a = SectorPages * q + r
    BY <1>1, Sizes, DivModDef
  <1>3. AlignUp(p) = q * SectorPages BY <1>2 DEF AlignUp
  <1>4. q * SectorPages = a - r BY <1>2, Sizes
  <1>5. q \in Nat
    <2>1. a \div SectorPages \in Nat BY <1>1, Sizes, DivNat
    <2> QED BY <1>2, <2>1
  <1>6. AlignUp(p) = a - r BY <1>3, <1>4
  <1> HIDE DEF a
  <1>7. a - r \in Nat /\ p <= a - r /\ a - r < p + SectorPages
    <2>1. a = p + SectorPages - 1 BY DEF a
    <2> QED BY <2>1, Sizes
  <1> QED BY <1>3, <1>5, <1>6, <1>7

LEMMA AlignUpFits ==
  ASSUME NEW p \in Nat, NEW q, Sectored(q), p <= q
  PROVE  Sectored(AlignUp(p)) /\ AlignUp(p) <= q
  <1>1. PICK k \in 0 .. Sectors : q = k * SectorPages BY DEF Sectored
  <1>2. PICK j \in Nat : AlignUp(p) = j * SectorPages BY AlignUpIs
  <1>3. AlignUp(p) \in Nat /\ AlignUp(p) < p + SectorPages BY AlignUpIs
  <1>4. q \in Nat BY SectorSteps
  <1>5. j <= k
    <2>1. SUFFICES ASSUME k + 1 <= j PROVE FALSE BY <1>1, <1>2
    <2>2. (k + 1) * SectorPages <= j * SectorPages BY <2>1, Sizes, MulMono
    <2>3. (k + 1) * SectorPages = k * SectorPages + SectorPages BY Sizes
    <2>4. q + SectorPages <= AlignUp(p) BY <1>1, <1>2, <2>2, <2>3
    <2> QED BY <1>3, <1>4, <2>4, Sizes
  <1>6. j * SectorPages <= k * SectorPages BY <1>5, Sizes, MulMono
  <1>7. j \in 0 .. Sectors BY <1>5, Sizes
  <1> QED BY <1>1, <1>2, <1>6, <1>7 DEF Sectored

LEMMA AlignUpWithRoom ==
  ASSUME NEW p \in Nat, AlignUp(p) + SectorPages <= Pages
  PROVE  /\ Sectored(AlignUp(p)) /\ Sectored(AlignUp(p) + SectorPages)
         /\ p <= AlignUp(p) /\ AlignUp(p) \in Nat
  <1>1. AlignUp(p) \in Nat /\ p <= AlignUp(p) BY AlignUpIs
  <1>2. p <= Pages /\ AlignUp(p) < Pages BY <1>1, Sizes
  <1>3. Sectored(AlignUp(p)) BY <1>2, SectorSteps, AlignUpFits
  <1>4. Sectored(AlignUp(p) + SectorPages) BY <1>2, <1>3, SectorSteps
  <1> QED BY <1>1, <1>3, <1>4

\* Where the session being recorded and its END lie.
LEMMA RecordingPlace ==
  ASSUME NEW m, m \in Stores, Behind(m)
  PROVE  /\ m.act.begin \in 0 .. Pages /\ m.act.count \in Nat
         /\ Slot(m.act.begin, m.act.count) \in Nat
         /\ m.act.begin < Slot(m.act.begin, m.act.count)
         /\ Slot(m.act.begin, m.act.count) <= FinalSector(m.act)
         /\ FinalSector(m.act) \in Nat /\ FinalSector(m.act) + SectorPages <= Pages
         /\ FinalInfo(m.act) \in Finals
         /\ FinalInfo(m.act).id = m.act.id /\ FinalInfo(m.act).begin = m.act.begin
         /\ FinalInfo(m.act).end = FinalSector(m.act) + SectorPages
         /\ ~FinalInfo(m.act).confirmed
         /\ \A end \in 0 .. Pages : ActiveInfo(m.act, end) \in Descriptions
  <1>1. /\ m.act \in Descriptions /\ m.act.begin \in 0 .. Pages /\ m.act.count \in Nat
        /\ m.act.id \in Ids /\ m.act.owner \in Users
        /\ Sectored(m.act.begin) /\ FinalSector(m.act) + SectorPages <= Pages
    BY DEF Stores, Behind, Descriptions
  <1>2. PICK b, n, f : b = m.act.begin /\ n = m.act.count /\ f = FinalSector(m.act) OBVIOUS
  <1>3. b \in Nat /\ n \in Nat BY <1>1, <1>2
  <1>4. Slot(b, n) \in Nat /\ b < Slot(b, n) BY <1>3 DEF Slot
  <1>5. f = AlignUp(Slot(b, n)) BY <1>2 DEF FinalSector
  <1>6. Sectored(f) /\ Sectored(f + SectorPages) /\ Slot(b, n) <= f /\ f \in Nat
    BY <1>1, <1>2, <1>4, <1>5, AlignUpWithRoom
  <1>7. f + SectorPages \in 0 .. Pages BY <1>6, SectorSteps
  <1>8. \A end \in 0 .. Pages : ActiveInfo(m.act, end) \in Descriptions
    BY <1>1, Sizes DEF ActiveInfo, Session, Descriptions, Ids, Owners
  <1>9. b < f + SectorPages BY <1>3, <1>4, <1>6, Sizes
  <1>10. FinalInfo(m.act) = ActiveInfo(m.act, f + SectorPages) BY <1>2 DEF FinalInfo
  <1>11. FinalInfo(m.act) \in Descriptions BY <1>7, <1>8, <1>10
  <1>12. /\ FinalInfo(m.act).id = m.act.id /\ FinalInfo(m.act).begin = b
         /\ FinalInfo(m.act).end = f + SectorPages /\ FinalInfo(m.act).next = b
         /\ FinalInfo(m.act).owner = m.act.owner /\ ~FinalInfo(m.act).confirmed
    BY <1>2, <1>10 DEF ActiveInfo, Session
  <1>13. FinalInfo(m.act) \in Finals
    BY <1>1, <1>2, <1>3, <1>6, <1>9, <1>11, <1>12, Sizes DEF Finals
  <1> QED BY <1>1, <1>2, <1>4, <1>6, <1>8, <1>12, <1>13

-----------------------------------------------------------------------------
(* One step of each job.                                                     *)

LEMMA BeginGoes ==
  ASSUME NEW fl, FlashOK(fl), NEW m, StoreOK(fl, m), m.mode \in {"ready", "busy"},
         NEW new \in Interrupted(fl, m.op), Verified(new, m.op), m.job = "begin"
  PROVE  StoreOK(new, BeginDone(m))
  <1>1. Quiet(new, m) /\ RecordingOK(m) BY PageIsThere DEF PageJobs
  <1>2. Behind(m) /\ m \in Stores /\ ~m.active
    BY <1>1, StoreParts DEF RecordingOK, Recording, JobOK
  <1>3. m.act.begin + 1 \in 0 .. Pages BY <1>2, RecordingPlace, Sizes
  <1>4. ActiveInfo(m.act, m.act.begin + 1) \in Descriptions BY <1>2, <1>3, RecordingPlace
  <1>5. Purposes(m, "open") BY <1>2 DEF Purposes, Releases
  <1>6. Fits(m, "open", Entry("open", ActiveInfo(m.act, m.act.begin + 1)))
    BY <1>4, EntryForms DEF Fits, EntryTypes, Counted, OfFinals, Releases
  <1>7. "open" \in JournalJobs BY DEF JournalJobs
  <1> QED BY <1>1, <1>2, <1>5, <1>6, <1>7, JournalGoes DEF BeginDone

LEMMA OpenGoes ==
  ASSUME NEW fl, FlashOK(fl), NEW m, StoreOK(fl, m), m.mode \in {"ready", "busy"},
         NEW new \in Interrupted(fl, m.op), Verified(new, m.op), m.job = "open"
  PROVE  StoreOK(new, OpenDone(m))
  <1>1. /\ Quiet(new, Logged(m)) /\ RecordingOK(m)
        /\ Logged(m) = [m EXCEPT !.next = m.next + 1] /\ m.next + 1 \in 1 .. BankPages
    BY EntryIsThere DEF JournalJobs
  <1>2. Behind(m) /\ m \in Stores BY <1>1, StoreParts DEF RecordingOK, Recording
  <1>3. PICK r : r = [m EXCEPT !.next = m.next + 1, !.mode = "ready", !.job = "none",
                               !.op = Idle, !.active = TRUE, !.checked = 0]
    OBVIOUS
  <1>4. OpenDone(m) = r BY <1>1, <1>2, <1>3 DEF OpenDone, Ready, Stores
  <1>5. PICK l : l = Logged(m) OBVIOUS
  <1>6. /\ l \in Stores /\ l.resume = "none" /\ l.dir = m.dir /\ l.head = m.head
        /\ l.nextId = m.nextId /\ l.cur = m.cur /\ l.next = m.next + 1 /\ l.gen = m.gen
    BY <1>1, <1>2, <1>5 DEF Quiet, Base, Stores
  <1>7. m.resume = "none" BY <1>1, <1>2, <1>5 DEF Quiet, Stores
  <1>8. /\ r \in Stores /\ r.resume = "none" /\ r.mode = "ready" /\ r.job = "none"
        /\ r.op = Idle /\ r.dir = m.dir /\ r.head = m.head /\ r.nextId = m.nextId
        /\ r.cur = m.cur /\ r.next = m.next + 1 /\ r.gen = m.gen /\ r.act = m.act
    BY <1>1, <1>2, <1>3, <1>7, NothingOK DEF Stores, Jobs
  <1>9. DirectoryOK(r) /\ Covered(r)
    BY <1>1, <1>5, <1>6, <1>8 DEF Quiet, Base, DirectoryOK, Covered
  <1>10. \A s \in r.dir : s.confirmed => RecalledNow(new, l, s.id)
    BY <1>1, <1>5, <1>6, <1>8 DEF Quiet
  <1>11. Quiet(new, r) BY <1>1, <1>5, <1>6, <1>8, <1>9, <1>10, QuietDirectory
  <1>12. Behind(r) BY <1>2, <1>8 DEF Behind
  <1> QED BY <1>4, <1>8, <1>11, <1>12, RestGoes

LEMMA HeadGoes ==
  ASSUME NEW fl, FlashOK(fl), NEW m, StoreOK(fl, m), m.mode \in {"ready", "busy"},
         NEW new \in Interrupted(fl, m.op), Verified(new, m.op), m.job \in {"page0", "page1"}
  PROVE  StoreOK(new, IF m.job = "page0" THEN HeadDone(m) ELSE TailDone(m))
  <1>1. Quiet(new, m) /\ RecordingOK(m) BY PageIsThere DEF PageJobs
  <1>2. /\ m \in Stores /\ Base(m) /\ JobOK(m) /\ m.active /\ Behind(m)
        /\ FinalSector([m.act EXCEPT !.count = @ + 1]) + SectorPages <= Pages
    BY <1>1, StoreParts DEF RecordingOK, Recording, JobOK, StoreOK
  <1>3. PICK a, n, p : a = m.act /\ n = m.act.count /\ p = Slot(m.act.begin, m.act.count) + 1
    OBVIOUS
  <1>4. a.id \in Ids /\ n \in Nat /\ a.begin \in Nat /\ a \in Descriptions /\ p \in Nat
    BY <1>2, <1>3, RecordingPlace DEF Behind, Stores
  <1>5. m.op.at = IF m.job = "page0" THEN p - 1 ELSE p
    BY <1>2, <1>3, <1>4 DEF JobOK, Slot
  <1>6. p < Pages
    <2>1. PICK q : q = Slot(a.begin, n + 1) OBVIOUS
    <2>2. q \in Nat /\ q = p + 1 BY <1>3, <1>4, <2>1 DEF Slot
    <2>3. FinalSector([a EXCEPT !.count = @ + 1]) = AlignUp(q)
      BY <1>3, <1>4, <2>1 DEF FinalSector, Descriptions
    <2>4. q <= AlignUp(q) /\ AlignUp(q) \in Nat BY <2>2, AlignUpIs
    <2> QED BY <1>2, <1>3, <1>4, <2>2, <2>3, <2>4, Sizes
  <1>7. p \in Chip BY <1>4, <1>6, Sizes DEF Chip
  <1>8. PICK page, job : /\ page = IF m.job = "page0" THEN Torn(EventTail(a.id, n)) ELSE EventTail(a.id, n)
                         /\ job = IF m.job = "page0" THEN "page1" ELSE "commit"
    OBVIOUS
  <1>9. page \in PageSet
    <2>1. EventTail(a.id, n) \in SlotPages BY <1>4 DEF EventTail, SlotPages
    <2>2. EventTail(a.id, n) \in PageSet BY <2>1 DEF PageSet
    <2> QED BY <1>8, <2>2, TornPage
  <1>10. PICK r : r = [m EXCEPT !.job = job, !.op = Program(p, page)] OBVIOUS
  <1>11. (IF m.job = "page0" THEN HeadDone(m) ELSE TailDone(m)) = r
    <2>1. CASE m.job = "page0"
      <3>1. (p - 1) + 1 = p BY <1>4
      <3> QED BY <1>2, <1>3, <1>5, <1>8, <1>10, <2>1, <3>1 DEF HeadDone, Stores
    <2>2. CASE m.job # "page0"
      BY <1>2, <1>3, <1>5, <1>8, <1>10, <2>2 DEF TailDone, Stores
    <2> QED BY <2>1, <2>2
  <1>12. Program(p, page) \in Operations BY <1>7, <1>9 DEF Program, Operations
  <1>13. /\ r \in Stores /\ Same(r, m) /\ r.resume = m.resume /\ r.mode = m.mode
         /\ r.job = job /\ r.op = Program(p, page) /\ r.active = m.active /\ r.act = m.act
    <2>1. job \in Jobs BY <1>8 DEF Jobs, PageJobs
    <2>2. r \in Stores BY <1>2, <1>10, <1>12, <2>1 DEF Stores
    <2> QED BY <1>2, <1>10, <2>2 DEF Stores, Same
  <1>14. Quiet(new, r) BY <1>1, <1>13, QuietSame DEF Quiet
  <1>15. r.op.do = "program" /\ r.op.at = p /\ r.op # Idle BY <1>13 DEF Program, Idle
  <1>16. job \in {"page1", "commit"} BY <1>8
  <1>17. JobOK(r)
    BY <1>2, <1>3, <1>6, <1>13, <1>14, <1>15, <1>16
    DEF JobOK, Quiet, JournalJobs, RotationJobs, PageJobs
  <1>18. RecordingOK(r)
    <2>1. Behind(r) BY <1>2, <1>13, SameParts
    <2> QED BY <1>2, <1>13, <2>1 DEF RecordingOK
  <1>19. ReclaimOK(r) /\ r.job # "reclaim" /\ r.job \in PageJobs
    BY <1>13, <1>16 DEF ReclaimOK, PageJobs
  <1> QED BY <1>11, <1>14, <1>17, <1>18, <1>19, QuietParts

LEMMA CommitGoes ==
  ASSUME NEW fl, FlashOK(fl), NEW m, StoreOK(fl, m), m.mode \in {"ready", "busy"},
         NEW new \in Interrupted(fl, m.op), Verified(new, m.op), m.job = "commit"
  PROVE  StoreOK(new, CommitDone(m))
  <1>1. Quiet(new, m) /\ RecordingOK(m) BY PageIsThere DEF PageJobs
  <1>2. PICK a : a = [m.act EXCEPT !.count = @ + 1] OBVIOUS
  <1>3. /\ m \in Stores /\ m.active /\ Behind(m) /\ m.act \in Descriptions
        /\ FinalSector(a) + SectorPages <= Pages
    BY <1>1, <1>2, StoreParts DEF RecordingOK, Recording, JobOK, Stores
  <1>4. /\ a \in Descriptions /\ a.id = m.act.id /\ a.owner = m.act.owner
        /\ a.begin = m.act.begin
    BY <1>2, <1>3 DEF Descriptions
  <1>5. PICK r : r = [m EXCEPT !.act = a, !.job = "none", !.op = Idle] OBVIOUS
  <1>6. CommitDone(m) = r
    BY <1>2, <1>3, <1>5 DEF CommitDone, Done, Stores
  <1>7. /\ r \in Stores /\ r.resume = m.resume /\ r.mode = m.mode /\ r.job = "none"
        /\ r.op = Idle /\ r.dir = m.dir /\ r.head = m.head /\ r.nextId = m.nextId
        /\ r.cur = m.cur /\ r.next = m.next /\ r.gen = m.gen /\ r.act = a
    BY <1>3, <1>4, <1>5, NothingOK DEF Stores, Jobs
  <1>8. DirectoryOK(r) /\ Covered(r) BY <1>1, <1>7 DEF Quiet, Base, DirectoryOK, Covered
  <1>9. Quiet(new, r) BY <1>1, <1>7, <1>8, QuietDirectory DEF Quiet
  <1>10. Behind(r) BY <1>3, <1>4, <1>7 DEF Behind
  <1> QED BY <1>6, <1>7, <1>9, <1>10, RestGoes

LEMMA CheckpointGoes ==
  ASSUME NEW fl, FlashOK(fl), NEW m, StoreOK(fl, m), m.mode \in {"ready", "busy"},
         NEW new \in Interrupted(fl, m.op), Verified(new, m.op), m.job = "checkpoint"
  PROVE  StoreOK(new, CheckpointDone(m))
  <1>1. /\ Quiet(new, Logged(m)) /\ RecordingOK(m) /\ Purposes(m, m.job)
        /\ Logged(m) = [m EXCEPT !.next = m.next + 1] /\ m.next + 1 \in 1 .. BankPages
    BY EntryIsThere DEF JournalJobs
  <1>2. m.active /\ Behind(m) /\ m \in Stores /\ m.act.count \in Nat
    BY <1>1, StoreParts, RecordingPlace DEF RecordingOK, Recording, Purposes
  <1>3. PICK r : r = [m EXCEPT !.next = m.next + 1, !.checked = m.act.count, !.job = "none",
                               !.op = Idle]
    OBVIOUS
  <1>4. CheckpointDone(m) = r BY <1>2, <1>3 DEF CheckpointDone, Done, Logged, Stores
  <1>5. PICK l : l = Logged(m) OBVIOUS
  <1>6. /\ l \in Stores /\ l.resume = m.resume /\ l.mode = m.mode /\ l.act = m.act
        /\ l.dir = m.dir /\ l.head = m.head /\ l.active = m.active
        /\ l.nextId = m.nextId /\ l.cur = m.cur /\ l.next = m.next + 1 /\ l.gen = m.gen
    BY <1>1, <1>2, <1>5 DEF Quiet, Base, Stores
  <1>7. r \in Stores BY <1>1, <1>2, <1>3, NothingOK DEF Stores, Jobs
  <1>8. Same(r, l) /\ r.resume = m.resume /\ r.mode = m.mode /\ r.job = "none" /\ r.op = Idle
    BY <1>2, <1>3, <1>6, <1>7 DEF Same, Stores
  <1>9. Quiet(new, r) BY <1>1, <1>5, <1>6, <1>7, <1>8, QuietSame DEF Quiet
  <1>10. Behind(r) BY <1>2, <1>6, <1>8 DEF Behind, Same
  <1> QED BY <1>4, <1>8, <1>9, <1>10, RestGoes

LEMMA EndGoes ==
  ASSUME NEW fl, FlashOK(fl), NEW m, StoreOK(fl, m), m.mode \in {"ready", "busy"},
         NEW new \in Interrupted(fl, m.op), Verified(new, m.op), m.job = "end"
  PROVE  StoreOK(new, EndDone(m))
  <1>1. Quiet(new, m) /\ RecordingOK(m) BY PageIsThere DEF PageJobs
  <1>2. Behind(m) /\ m \in Stores /\ m.active
    BY <1>1, StoreParts DEF RecordingOK, Recording, JobOK
  <1>3. FinalInfo(m.act) \in Finals BY <1>2, RecordingPlace
  <1>4. Purposes(m, "final") BY <1>2 DEF Purposes, Releases
  <1>5. Fits(m, "final", Entry("final", FinalInfo(m.act)))
    BY <1>3, EntryForms DEF Fits, EntryTypes, Counted, Releases
  <1>6. "final" \in JournalJobs BY DEF JournalJobs
  <1> QED BY <1>1, <1>2, <1>4, <1>5, <1>6, JournalGoes DEF EndDone

LEMMA FinalGoes ==
  ASSUME NEW fl, FlashOK(fl), NEW m, StoreOK(fl, m), m.mode \in {"ready", "busy"},
         NEW new \in Interrupted(fl, m.op), Verified(new, m.op), m.job = "final"
  PROVE  StoreOK(new, FinalDone(m))
  <1>1. /\ Quiet(new, Logged(m)) /\ RecordingOK(m) /\ Purposes(m, m.job)
        /\ Logged(m) = [m EXCEPT !.next = m.next + 1] /\ m.next + 1 \in 1 .. BankPages
    BY EntryIsThere DEF JournalJobs
  <1>2. m.active /\ Behind(m) /\ m \in Stores /\ Base(m)
    BY <1>1, StoreParts DEF RecordingOK, Recording, Purposes, StoreOK
  <1>3. PICK s : s = FinalInfo(m.act) OBVIOUS
  <1>4. /\ s \in Finals /\ s.id = m.act.id /\ s.begin = m.act.begin /\ ~s.confirmed
    BY <1>2, <1>3, RecordingPlace
  <1>5. CASE Cardinality(m.dir) >= MaxSessions
    BY <1>5, LostOrFailed DEF FinalDone
  <1>6. CASE ~(Cardinality(m.dir) >= MaxSessions)
    <2>1. PICK r : r = [m EXCEPT !.next = m.next + 1, !.mode = "ready", !.job = "none",
                                 !.op = Idle, !.dir = m.dir \cup {s}, !.head = s.end,
                                 !.active = FALSE]
      OBVIOUS
    <2>2. FinalDone(m) = r
      BY <1>2, <1>3, <1>6, <2>1 DEF FinalDone, Ready, Logged, Stores
    <2>3. PICK l : l = Logged(m) OBVIOUS
    <2>4. /\ l \in Stores /\ l.resume = m.resume /\ l.dir = m.dir /\ l.head = m.head
          /\ l.nextId = m.nextId /\ l.cur = m.cur /\ l.next = m.next + 1 /\ l.gen = m.gen
      BY <1>1, <1>2, <2>3 DEF Quiet, Base, Stores
    <2>5. s.end \in 0 .. Pages /\ s.begin < s.end /\ s.begin \in 0 .. Pages
      BY <1>4 DEF Finals, Descriptions
    <2>6. m.dir \cup {s} \in SUBSET Finals BY <1>2, <1>4 DEF Stores
    <2>7. /\ r \in Stores /\ r.resume = m.resume /\ r.mode = "ready" /\ r.job = "none"
          /\ r.op = Idle /\ r.dir = m.dir \cup {s} /\ r.head = s.end /\ r.nextId = m.nextId
          /\ r.cur = m.cur /\ r.next = m.next + 1 /\ r.gen = m.gen /\ ~r.active
      <3>1. r \in Stores BY <1>1, <1>2, <2>1, <2>5, <2>6, NothingOK DEF Stores, Jobs
      <3> QED BY <1>2, <2>1, <3>1 DEF Stores
    <2>8. \A d \in m.dir : d.id < s.id /\ d.end <= s.begin /\ d.end \in Nat /\ d.begin \in Nat
          /\ d.id \in Nat
      <3>1. \A d \in m.dir : d.end <= m.head BY <1>1, <2>3, <2>4 DEF Quiet, Covered
      <3>2. m.head \in Nat /\ m.head <= s.begin BY <1>2, <1>4 DEF Behind, Stores
      <3>3. \A d \in m.dir : d.end \in Nat /\ d.begin \in Nat /\ d.id \in Nat
        BY <1>2 DEF Stores, Finals, Descriptions
      <3> QED BY <1>2, <1>4, <2>5, <3>1, <3>2, <3>3 DEF Behind
    <2>9. DirectoryOK(r)
      <3>1. IsFiniteSet(m.dir) /\ Cardinality(m.dir) <= MaxSessions /\ Separate(m.dir)
            /\ \A d \in m.dir : d.id < m.nextId
        BY <1>2 DEF Base, DirectoryOK
      <3>2. Cardinality(m.dir) \in Nat BY <3>1, FS_CardinalityType
      <3>3. IsFiniteSet(r.dir) /\ Cardinality(r.dir) <= Cardinality(m.dir) + 1
        <4>1. /\ IsFiniteSet(m.dir \cup {s})
              /\ Cardinality(m.dir \cup {s}) =
                   IF s \in m.dir THEN Cardinality(m.dir) ELSE Cardinality(m.dir) + 1
          BY <3>1, FS_AddElement
        <4>2. Cardinality(m.dir \cup {s}) <= Cardinality(m.dir) + 1 BY <3>2, <4>1
        <4> QED BY <2>7, <4>1, <4>2
      <3>4. Cardinality(r.dir) \in Nat BY <3>3, FS_CardinalityType
      <3>5. Cardinality(r.dir) <= MaxSessions BY <1>6, <3>2, <3>3, <3>4, Sizes
      <3>6. Separate(r.dir)
        <4>1. SUFFICES ASSUME NEW a \in m.dir \cup {s}, NEW b \in m.dir \cup {s}, a # b
                       PROVE  a.id # b.id /\ ~Overlaps(a, b)
          BY <2>7 DEF Separate
        <4>2. CASE a \in m.dir /\ b \in m.dir BY <3>1, <4>1, <4>2 DEF Separate
        <4>3. CASE a = s /\ b \in m.dir BY <2>5, <2>8, <4>3 DEF Overlaps
        <4>4. CASE a \in m.dir /\ b = s BY <2>5, <2>8, <4>4 DEF Overlaps
        <4> QED BY <4>1, <4>2, <4>3, <4>4
      <3>7. \A d \in r.dir : d.id < r.nextId
        BY <1>2, <1>4, <2>7, <3>1 DEF Behind
      <3> QED BY <3>3, <3>5, <3>6, <3>7 DEF DirectoryOK
    <2>10. Covered(r) BY <2>5, <2>7, <2>8 DEF Covered
    <2>11. \A d \in r.dir : d.confirmed => RecalledNow(new, l, d.id)
      BY <1>1, <1>4, <2>3, <2>4, <2>7 DEF Quiet
    <2>12. l.resume = "none" BY <1>1, <2>3 DEF Quiet
    <2>13. Quiet(new, r)
      BY <1>1, <2>3, <2>4, <2>7, <2>9, <2>10, <2>11, <2>12, QuietDirectory
    <2> QED BY <2>2, <2>7, <2>13, RestGoes
  <1> QED BY <1>5, <1>6

LEMMA ConfirmGoes ==
  ASSUME NEW fl, FlashOK(fl), NEW m, StoreOK(fl, m), m.mode \in {"ready", "busy"},
         NEW new \in Interrupted(fl, m.op), Verified(new, m.op), m.job = "confirm"
  PROVE  StoreOK(new, ConfirmDone(m))
  <1>1. /\ Quiet(new, Logged(m)) /\ Purposes(m, m.job)
        /\ Logged(m) = [m EXCEPT !.next = m.next + 1] /\ m.next + 1 \in 1 .. BankPages
        /\ RecalledNow(new, m, m.reclaim.id)
    BY EntryIsThere DEF JournalJobs, Releases
  <1>2. ~m.active /\ m \in Stores /\ Base(m) BY <1>1, StoreParts DEF Purposes, StoreOK
  <1>3. CASE ~Known(m.dir, m.reclaim.id) BY <1>3, LostOrFailed DEF ConfirmDone
  <1>4. CASE Known(m.dir, m.reclaim.id)
    <2>1. PICK d \in m.dir : d = Named(m.dir, m.reclaim.id) /\ d.id = m.reclaim.id
      BY <1>4, NamedIs
    <2>2. PICK s : s = [d EXCEPT !.confirmed = TRUE] OBVIOUS
    <2>3. d \in Finals BY <1>2 DEF Stores
    <2>4. /\ s \in Finals /\ s.id = d.id /\ s.begin = d.begin /\ s.end = d.end
      <3>1. s \in Descriptions /\ s.id = d.id /\ s.begin = d.begin /\ s.end = d.end
            /\ s.owner = d.owner /\ s.next = d.next
        BY <2>2, <2>3 DEF Finals, Descriptions
      <3> QED BY <2>3, <3>1 DEF Finals
    <2>5. PICK l : l = Logged(m) OBVIOUS
    <2>6. PICK r : r = [l EXCEPT !.dir = Replace(m.dir, s)] OBVIOUS
    <2>7. /\ l \in Stores /\ l.dir = m.dir /\ l.head = m.head /\ l.active = m.active
          /\ l.nextId = m.nextId /\ l.cur = m.cur /\ Base(l)
      BY <1>1, <1>2, <2>5 DEF Quiet, Base, Stores
    <2>8. ConfirmDone(m) = StartReclaim(r, s)
      BY <1>4, <2>1, <2>2, <2>5, <2>6, <2>7 DEF ConfirmDone
    <2>9. /\ Replace(m.dir, s) \in SUBSET Finals
          /\ IsFiniteSet(Replace(m.dir, s)) /\ Cardinality(Replace(m.dir, s)) <= MaxSessions
          /\ Separate(Replace(m.dir, s)) /\ s \in Replace(m.dir, s)
          /\ \A e \in Replace(m.dir, s) : e = s \/ (e \in m.dir /\ e.id # s.id)
          /\ \A e \in Replace(m.dir, s) : e.id < m.nextId
          /\ \A e \in Replace(m.dir, s) : e.id = s.id => e = s
          /\ Covered(m) => \A e \in Replace(m.dir, s) : e.end <= m.head
      BY <1>2, <2>1, <2>4, DirectoryUpdate
    <2>10. /\ r \in Stores /\ r.dir = Replace(m.dir, s) /\ r.head = m.head
           /\ r.nextId = m.nextId /\ r.cur = l.cur /\ r.next = l.next /\ r.gen = l.gen
           /\ r.resume = l.resume /\ r.mode = l.mode /\ r.active = m.active
      BY <2>6, <2>7, <2>9 DEF Stores
    <2>11. Covered(m) BY <1>1, <2>5, <2>7 DEF Quiet, Covered
    <2>12. DirectoryOK(r) /\ Covered(r) BY <2>9, <2>10, <2>11 DEF DirectoryOK, Covered
    <2>13. \A id : RecalledNow(new, l, id) <=> RecalledNow(new, m, id)
      BY <2>7 DEF RecalledNow
    <2>14. RecalledNow(new, l, s.id) BY <1>1, <2>1, <2>4, <2>13
    <2>15. \A e \in r.dir : e.confirmed => RecalledNow(new, l, e.id)
      BY <1>1, <2>5, <2>7, <2>9, <2>10, <2>14 DEF Quiet
    <2>16. l.resume = "none" BY <1>1, <2>5 DEF Quiet
    <2>17. Quiet(new, r)
      BY <1>1, <1>2, <2>5, <2>10, <2>12, <2>15, <2>16, QuietDirectory
    <2>18. s.id < r.nextId /\ RecalledNow(new, r, s.id) /\ ~r.active
      BY <1>2, <2>9, <2>10, <2>14 DEF RecalledNow
    <2>19. \A e \in r.dir : e.id = s.id => e.begin = s.begin /\ e.end = s.end
      BY <2>9, <2>10
    <2> QED BY <2>4, <2>8, <2>17, <2>18, <2>19, StartReclaimGoes
  <1> QED BY <1>3, <1>4

LEMMA DiscardGoes ==
  ASSUME NEW fl, FlashOK(fl), NEW m, StoreOK(fl, m), m.mode \in {"ready", "busy"},
         NEW new \in Interrupted(fl, m.op), Verified(new, m.op), m.job = "discard"
  PROVE  StoreOK(new, DiscardDone(m))
  <1>1. /\ Quiet(new, Logged(m)) /\ Purposes(m, m.job)
        /\ Logged(m) = [m EXCEPT !.next = m.next + 1] /\ m.next + 1 \in 1 .. BankPages
        /\ RecalledNow(new, m, m.reclaim.id)
    BY EntryIsThere DEF JournalJobs, Releases
  <1>2. /\ ~m.active /\ m \in Stores /\ Base(m) /\ m.reclaim \in Finals
        /\ m.reclaim.id < m.nextId
    BY <1>1, StoreParts DEF Purposes, StoreOK, Releases
  <1>3. PICK l : l = Logged(m) OBVIOUS
  <1>4. /\ l \in Stores /\ l.dir = m.dir /\ l.head = m.head /\ l.active = m.active
        /\ l.nextId = m.nextId /\ l.cur = m.cur /\ Base(l) /\ Quiet(new, l)
    BY <1>1, <1>2, <1>3 DEF Quiet, Base, Stores
  <1>5. \A id : RecalledNow(new, l, id) <=> RecalledNow(new, m, id)
    BY <1>4 DEF RecalledNow
  <1>6. CASE ~Known(m.dir, m.reclaim.id)
    <2>1. [l EXCEPT !.dir = l.dir] = l BY <1>4 DEF Stores
    <2>2. DiscardDone(m) = StartReclaim(l, m.reclaim)
      BY <1>3, <1>4, <1>6, <2>1 DEF DiscardDone
    <2>3. \A d \in l.dir : d.id # m.reclaim.id BY <1>4, <1>6 DEF Known
    <2> QED BY <1>1, <1>2, <1>4, <1>5, <2>2, <2>3, StartReclaimGoes
  <1>7. CASE Known(m.dir, m.reclaim.id)
    <2>1. PICK d \in m.dir : d = Named(m.dir, m.reclaim.id) /\ d.id = m.reclaim.id
      BY <1>7, NamedIs
    <2>2. PICK s : s = [d EXCEPT !.confirmed = TRUE, !.discard = TRUE, !.next = d.begin]
      OBVIOUS
    <2>3. d \in Finals BY <1>2 DEF Stores
    <2>4. /\ s \in Finals /\ s.id = d.id /\ s.begin = d.begin /\ s.end = d.end
      <3>1. s \in Descriptions /\ s.id = d.id /\ s.begin = d.begin /\ s.end = d.end
            /\ s.owner = d.owner /\ s.next = d.begin
        BY <2>2, <2>3 DEF Finals, Descriptions
      <3> QED BY <2>3, <3>1 DEF Finals, Descriptions
    <2>5. Known(m.dir, s.id) BY <1>7, <2>1, <2>4
    <2>6. PICK r : r = [l EXCEPT !.dir = Replace(m.dir, s)] OBVIOUS
    <2>7. DiscardDone(m) = StartReclaim(r, s)
      BY <1>3, <1>4, <1>7, <2>1, <2>2, <2>5, <2>6 DEF DiscardDone
    <2>8. /\ Replace(m.dir, s) \in SUBSET Finals
          /\ IsFiniteSet(Replace(m.dir, s)) /\ Cardinality(Replace(m.dir, s)) <= MaxSessions
          /\ Separate(Replace(m.dir, s)) /\ s \in Replace(m.dir, s)
          /\ \A e \in Replace(m.dir, s) : e = s \/ (e \in m.dir /\ e.id # s.id)
          /\ \A e \in Replace(m.dir, s) : e.id < m.nextId
          /\ \A e \in Replace(m.dir, s) : e.id = s.id => e = s
          /\ Covered(m) => \A e \in Replace(m.dir, s) : e.end <= m.head
      BY <1>2, <2>1, <2>4, DirectoryUpdate
    <2>9. /\ r \in Stores /\ r.dir = Replace(m.dir, s) /\ r.head = m.head
          /\ r.nextId = m.nextId /\ r.cur = l.cur /\ r.next = l.next /\ r.gen = l.gen
          /\ r.resume = l.resume /\ r.mode = l.mode /\ r.active = m.active
      BY <1>4, <2>6, <2>8 DEF Stores
    <2>10. Covered(m) BY <1>4 DEF Quiet, Covered
    <2>11. DirectoryOK(r) /\ Covered(r) BY <2>8, <2>9, <2>10 DEF DirectoryOK, Covered
    <2>12. RecalledNow(new, l, s.id) BY <1>1, <1>5, <2>1, <2>4
    <2>13. \A e \in r.dir : e.confirmed => RecalledNow(new, l, e.id)
      BY <1>4, <2>8, <2>9, <2>12 DEF Quiet
    <2>14. l.resume = "none" BY <1>4 DEF Quiet
    <2>15. Quiet(new, r) BY <1>2, <1>4, <2>9, <2>11, <2>13, <2>14, QuietDirectory
    <2>16. s.id < r.nextId /\ RecalledNow(new, r, s.id) /\ ~r.active
      BY <1>2, <2>8, <2>9, <2>12 DEF RecalledNow
    <2>17. \A e \in r.dir : e.id = s.id => e.begin = s.begin /\ e.end = s.end
      BY <2>8, <2>9
    <2> QED BY <2>4, <2>7, <2>15, <2>16, <2>17, StartReclaimGoes
  <1> QED BY <1>6, <1>7

\* One sector further: the directory keeps up, and what is left goes on.
LEMMA ReclaimGoes ==
  ASSUME NEW fl, FlashOK(fl), NEW m, StoreOK(fl, m), m.mode \in {"ready", "busy"},
         NEW new \in Interrupted(fl, m.op), Verified(new, m.op), m.job = "reclaim"
  PROVE  StoreOK(new, SectorReclaimed(m))
  <1>1. /\ Quiet(new, m)
        /\ \A id : RecalledNow(fl, m, id) => RecalledNow(new, m, id)
    BY PageIsThere DEF PageJobs
  <1>2. /\ m \in Stores /\ Base(m) /\ ~m.active /\ m.reclaim \in Finals
        /\ m.reclaim.id < m.nextId
        /\ m.reclaim.begin <= m.reclaim.next /\ m.reclaim.next < m.reclaim.end
        /\ \A d \in m.dir : d.id = m.reclaim.id =>
              d.begin = m.reclaim.begin /\ d.end = m.reclaim.end
    BY StoreParts DEF ReclaimOK, JobOK, StoreOK
  <1>3. RecalledNow(new, m, m.reclaim.id)
    BY <1>1, StoreParts DEF Mounted, CursorOK, RecalledNow
  <1>4. PICK s : s = [m.reclaim EXCEPT !.next = @ + SectorPages] OBVIOUS
  <1>5. /\ m.reclaim \in Descriptions /\ Sectored(m.reclaim.next) /\ Sectored(m.reclaim.end)
        /\ Sectored(m.reclaim.begin)
        /\ m.reclaim.next \in 0 .. Pages /\ m.reclaim.end \in 0 .. Pages
        /\ m.reclaim.begin \in 0 .. Pages
    BY <1>2 DEF Finals, Descriptions
  <1>6. /\ Sectored(m.reclaim.next + SectorPages)
        /\ m.reclaim.next + SectorPages <= m.reclaim.end
        /\ m.reclaim.next + SectorPages \in 0 .. Pages
    BY <1>2, <1>5, SectorSteps
  <1>7. /\ s \in Finals /\ s.id = m.reclaim.id /\ s.begin = m.reclaim.begin
        /\ s.end = m.reclaim.end /\ s.next = m.reclaim.next + SectorPages
    <2>1. s \in Descriptions /\ s.id = m.reclaim.id /\ s.begin = m.reclaim.begin
          /\ s.end = m.reclaim.end /\ s.next = m.reclaim.next + SectorPages
          /\ s.owner = m.reclaim.owner
      BY <1>4, <1>5, <1>6 DEF Descriptions
    <2> QED BY <1>2, <1>6, <2>1 DEF Finals
  <1>8. PICK dir : dir = IF Known(m.dir, s.id)
                         THEN Replace(m.dir, [Named(m.dir, s.id) EXCEPT !.next = s.next])
                         ELSE m.dir
    OBVIOUS
  <1>9. /\ dir \in SUBSET Finals /\ IsFiniteSet(dir) /\ Cardinality(dir) <= MaxSessions
        /\ Separate(dir) /\ \A e \in dir : e.id < m.nextId
        /\ \A e \in dir : e.end <= m.head
        /\ \A e \in dir : e.confirmed => RecalledNow(new, m, e.id)
        /\ \A e \in dir : e.id = s.id => e.begin = s.begin /\ e.end = s.end
    <2>1. CASE ~Known(m.dir, s.id)
      BY <1>1, <1>2, <1>7, <1>8, <2>1 DEF Quiet, Base, DirectoryOK, Covered, Stores
    <2>2. CASE Known(m.dir, s.id)
      <3>1. PICK d \in m.dir : d = Named(m.dir, s.id) /\ d.id = s.id BY <2>2, NamedIs
      <3>2. PICK e : e = [d EXCEPT !.next = s.next] OBVIOUS
      <3>3. d \in Finals /\ d.begin = s.begin /\ d.end = s.end
        BY <1>2, <1>7, <3>1 DEF Stores
      <3>4. e \in Finals /\ e.id = d.id /\ e.begin = d.begin /\ e.end = d.end
        <4>1. e \in Descriptions /\ e.id = d.id /\ e.begin = d.begin /\ e.end = d.end
              /\ e.owner = d.owner /\ e.next = s.next
          BY <1>6, <1>7, <3>2, <3>3 DEF Finals, Descriptions
        <4> QED BY <1>7, <3>3, <4>1 DEF Finals
      <3>5. dir = Replace(m.dir, e) BY <1>8, <2>2, <3>1, <3>2
      <3>6. /\ dir \in SUBSET Finals
            /\ IsFiniteSet(dir) /\ Cardinality(dir) <= MaxSessions
            /\ Separate(dir) /\ e \in dir
            /\ \A x \in dir : x = e \/ (x \in m.dir /\ x.id # e.id)
            /\ \A x \in dir : x.id < m.nextId
            /\ \A x \in dir : x.id = e.id => x = e
            /\ Covered(m) => \A x \in dir : x.end <= m.head
        BY <1>2, <3>1, <3>4, <3>5, DirectoryUpdate
      <3>7. \A x \in dir : x.confirmed => RecalledNow(new, m, x.id)
        BY <1>1, <1>3, <1>7, <3>1, <3>4, <3>6 DEF Quiet
      <3> QED BY <1>1, <3>1, <3>3, <3>4, <3>6, <3>7 DEF Quiet
    <2> QED BY <2>1, <2>2
  <1>10. PICK r : r = [m EXCEPT !.reclaim = s, !.dir = dir] OBVIOUS
  <1>11. /\ r \in Stores /\ r.dir = dir /\ r.head = m.head /\ r.nextId = m.nextId
         /\ r.cur = m.cur /\ r.next = m.next /\ r.gen = m.gen /\ r.resume = m.resume
         /\ r.mode = m.mode /\ r.active = m.active /\ r.reclaim = s /\ r.job = "reclaim"
         /\ r.paused = m.paused /\ r.foreign = m.foreign
    BY <1>2, <1>7, <1>9, <1>10 DEF Stores
  <1>12. DirectoryOK(r) /\ Covered(r) BY <1>9, <1>11 DEF DirectoryOK, Covered
  <1>13. Quiet(new, r)
    BY <1>1, <1>2, <1>9, <1>11, <1>12, QuietDirectory DEF Quiet
  <1>14. \A id : RecalledNow(new, r, id) <=> RecalledNow(new, m, id)
    BY <1>11 DEF RecalledNow
  <1>15. SectorReclaimed(m) =
           IF m.paused /\ ~m.foreign THEN Journal(r, Entry("progress", s), "progress")
           ELSE IF Unfinished(s) THEN [r EXCEPT !.op = Erase(s.next, SectorPages)]
           ELSE Journal(r, Entry("reclaimed", s), "reclaimed")
    <2>1. [m EXCEPT !.reclaim = s, !.dir = IF Known(@, s.id)
                 THEN Replace(@, [Named(@, s.id) EXCEPT !.next = s.next]) ELSE @] = r
      BY <1>2, <1>8, <1>10 DEF Stores
    <2> QED BY <1>4, <2>1 DEF SectorReclaimed
  <1>16. CASE m.paused /\ ~m.foreign
    <2>1. Purposes(r, "progress") BY <1>2, <1>7, <1>11 DEF Purposes
    <2>2. Fits(r, "progress", Entry("progress", s))
      BY <1>7, <1>11, EntryForms DEF Fits, EntryTypes, Releases
    <2>3. "progress" \in JournalJobs BY DEF JournalJobs
    <2>4. RecalledNow(new, r, r.reclaim.id) BY <1>3, <1>7, <1>11, <1>14
    <2> QED BY <1>2, <1>11, <1>13, <1>15, <1>16, <2>1, <2>2, <2>3, <2>4, JournalGoes
  <1>17. CASE ~(m.paused /\ ~m.foreign) /\ ~Unfinished(s)
    <2>1. Purposes(r, "reclaimed") BY <1>2, <1>7, <1>11 DEF Purposes
    <2>2. Fits(r, "reclaimed", Entry("reclaimed", s))
      BY <1>7, EntryForms DEF Fits, EntryTypes, Counted, Releases
    <2>3. "reclaimed" \in JournalJobs BY DEF JournalJobs
    <2> QED BY <1>2, <1>11, <1>13, <1>15, <1>17, <2>1, <2>2, <2>3, JournalGoes
  <1>18. CASE ~(m.paused /\ ~m.foreign) /\ Unfinished(s)
    <2>1. PICK o : o = Erase(s.next, SectorPages) OBVIOUS
    <2>2. PICK t : t = [r EXCEPT !.op = o] OBVIOUS
    <2>3. s.next < s.end /\ s.next \in 0 .. Pages /\ s.end \in 0 .. Pages
          /\ s.next + SectorPages <= s.end /\ s.begin <= s.next
      <3>1. s.next < s.end BY <1>18 DEF Unfinished
      <3>2. Sectored(s.next) /\ Sectored(s.end) BY <1>7 DEF Finals
      <3>3. s.next + SectorPages <= s.end BY <3>1, <3>2, SectorSteps
      <3> QED BY <1>2, <1>5, <1>6, <1>7, <3>1, <3>3, Sizes
    <2>4. o \in Operations /\ o.upto < Pages /\ o.do = "erase" /\ o # Idle
      BY <2>1, <2>3, Sizes DEF Operations, Erase, Idle
    <2>5. /\ t \in Stores /\ Same(t, r) /\ t.resume = r.resume /\ t.mode = r.mode
          /\ t.job = "reclaim" /\ t.op = o /\ t.active = m.active /\ t.reclaim = s
          /\ t.nextId = m.nextId /\ t.dir = dir
      BY <1>11, <2>2, <2>4 DEF Stores, Same
    <2>6. Quiet(new, t) BY <1>13, <2>5, QuietSame DEF Quiet
    <2>7. JobOK(t)
      BY <1>2, <1>11, <2>4, <2>5, <2>6 DEF JobOK, Quiet, JournalJobs, RotationJobs, PageJobs
    <2>8. ReclaimOK(t) BY <1>2, <1>7, <1>9, <2>3, <2>5 DEF ReclaimOK
    <2>9. RecordingOK(t) BY <1>2, <2>5, <2>6 DEF RecordingOK, Recording, Quiet
    <2>10. RecalledNow(new, t, t.reclaim.id)
      BY <1>3, <1>7, <1>11, <1>14, <2>5 DEF RecalledNow, Same
    <2>11. t.job \in {"none"} \cup PageJobs BY <2>5 DEF PageJobs
    <2> QED BY <1>15, <1>18, <2>1, <2>2, <2>6, <2>7, <2>8, <2>9, <2>10, <2>11, QuietParts
  <1> QED BY <1>16, <1>17, <1>18

LEMMA ProgressGoes ==
  ASSUME NEW fl, FlashOK(fl), NEW m, StoreOK(fl, m), m.mode \in {"ready", "busy"},
         NEW new \in Interrupted(fl, m.op), Verified(new, m.op),
         m.job \in {"progress", "purge_done"}
  PROVE  StoreOK(new, IF m.job = "progress" THEN ProgressDone(m) ELSE PurgeDone(m))
  <1>1. /\ Quiet(new, Logged(m)) /\ Purposes(m, m.job)
        /\ Logged(m) = [m EXCEPT !.next = m.next + 1] /\ m.next + 1 \in 1 .. BankPages
    BY EntryIsThere DEF JournalJobs
  <1>2. ~m.active /\ m \in Stores BY <1>1, StoreParts DEF Purposes
  <1>3. PICK r : r = IF m.job = "progress"
                     THEN [m EXCEPT !.next = m.next + 1, !.pending = FALSE, !.mode = "ready",
                                    !.job = "none", !.op = Idle]
                     ELSE [m EXCEPT !.next = m.next + 1, !.purge = NoUser, !.mode = "ready",
                                    !.job = "none", !.op = Idle]
    OBVIOUS
  <1>4. (IF m.job = "progress" THEN ProgressDone(m) ELSE PurgeDone(m)) = r
    BY <1>2, <1>3 DEF ProgressDone, PurgeDone, Ready, Logged, Stores
  <1>5. PICK l : l = Logged(m) OBVIOUS
  <1>6. /\ l \in Stores /\ l.resume = m.resume /\ l.act = m.act
        /\ l.dir = m.dir /\ l.head = m.head /\ l.active = m.active
        /\ l.nextId = m.nextId /\ l.cur = m.cur /\ l.next = m.next + 1 /\ l.gen = m.gen
    BY <1>1, <1>2, <1>5 DEF Quiet, Base, Stores
  <1>7. r \in Stores
    <2>1. NoUser \in Owners /\ "none" \in Jobs BY DEF Owners, Jobs
    <2> QED BY <1>1, <1>2, <1>3, <2>1, NothingOK DEF Stores
  <1>8. /\ r.resume = m.resume /\ r.mode = "ready" /\ r.job = "none" /\ r.op = Idle
        /\ r.active = m.active /\ Same(r, l)
    BY <1>2, <1>3, <1>6, <1>7 DEF Same, Stores
  <1>9. Quiet(new, r) BY <1>1, <1>5, <1>6, <1>7, <1>8, QuietSame DEF Quiet
  <1> QED BY <1>2, <1>4, <1>8, <1>9, RestGoes

\* A session is gone: the head falls back to the end of what is left.
LEMMA ReclaimedGoes ==
  ASSUME NEW fl, FlashOK(fl), NEW m, StoreOK(fl, m), m.mode \in {"ready", "busy"},
         NEW new \in Interrupted(fl, m.op), Verified(new, m.op), m.job = "reclaimed"
  PROVE  StoreOK(new, ReclaimedDone(m))
  <1>1. /\ Quiet(new, Logged(m)) /\ Purposes(m, m.job)
        /\ Logged(m) = [m EXCEPT !.next = m.next + 1] /\ m.next + 1 \in 1 .. BankPages
    BY EntryIsThere DEF JournalJobs
  <1>2. ~m.active /\ m \in Stores /\ m.reclaim \in Finals
    BY <1>1, StoreParts DEF Purposes
  <1>3. PICK left : left = {d \in m.dir : d.id # m.reclaim.id} OBVIOUS
  <1>4. PICK l : l = Logged(m) OBVIOUS
  <1>5. /\ l \in Stores /\ l.dir = m.dir /\ l.head = m.head /\ l.active = m.active
        /\ l.nextId = m.nextId /\ l.cur = m.cur /\ Quiet(new, l) /\ l.mode = m.mode
        /\ l.resume = "none" /\ IsFiniteSet(m.dir) /\ Cardinality(m.dir) <= MaxSessions
        /\ Separate(m.dir) /\ \A d \in m.dir : d.id < m.nextId
    BY <1>1, <1>2, <1>4 DEF Quiet, Base, Stores, DirectoryOK
  <1>6. left \subseteq m.dir /\ left \in SUBSET Finals BY <1>2, <1>3 DEF Stores
  <1>7. MaxEnd(left) \in 0 .. Pages /\ \A s \in left : s.end <= MaxEnd(left)
    BY <1>6, MaxEndIs
  <1>8. PICK r : r = [l EXCEPT !.pending = FALSE, !.foreign = FALSE, !.tomb = m.reclaim,
                               !.dir = left, !.head = MaxEnd(left)]
    OBVIOUS
  <1>9. ReclaimedDone(m) = IF m.foreign THEN StartNextPurge(r) ELSE Ready(r)
    BY <1>3, <1>4, <1>8 DEF ReclaimedDone
  <1>10. /\ r \in Stores /\ r.dir = left /\ r.head = MaxEnd(left) /\ r.nextId = m.nextId
         /\ r.cur = l.cur /\ r.next = l.next /\ r.gen = l.gen /\ r.resume = "none"
         /\ r.mode = l.mode /\ ~r.active
    BY <1>2, <1>5, <1>6, <1>7, <1>8 DEF Stores
  <1>11. DirectoryOK(r)
    <2>1. IsFiniteSet(left) /\ Cardinality(left) <= Cardinality(m.dir)
          /\ Cardinality(left) \in Nat /\ Cardinality(m.dir) \in Nat
      BY <1>5, <1>6, FS_Subset, FS_CardinalityType
    <2>2. Cardinality(left) <= MaxSessions BY <1>5, <2>1, Sizes
    <2>3. Separate(left) BY <1>5, <1>6 DEF Separate
    <2> QED BY <1>5, <1>6, <1>10, <2>1, <2>2, <2>3 DEF DirectoryOK
  <1>12. Covered(r) BY <1>7, <1>10 DEF Covered
  <1>13. \A s \in r.dir : s.confirmed => RecalledNow(new, l, s.id)
    BY <1>5, <1>6, <1>10 DEF Quiet
  <1>14. Quiet(new, r) BY <1>5, <1>10, <1>11, <1>12, <1>13, QuietDirectory
  <1>15. CASE m.foreign BY <1>9, <1>10, <1>14, <1>15, StartNextPurgeGoes
  <1>16. CASE ~m.foreign
    <2>1. PICK t : t = [r EXCEPT !.mode = "ready", !.job = "none", !.op = Idle] OBVIOUS
    <2>2. ReclaimedDone(m) = t BY <1>9, <1>16, <2>1 DEF Ready
    <2>3. /\ t \in Stores /\ Same(t, r) /\ t.resume = "none" /\ t.mode = "ready"
          /\ t.job = "none" /\ t.op = Idle /\ ~t.active
      BY <1>10, <2>1, NothingOK DEF Stores, Same, Jobs
    <2>4. Quiet(new, t) BY <1>14, <2>3, QuietSame
    <2> QED BY <2>2, <2>3, <2>4, RestGoes
  <1> QED BY <1>15, <1>16

LEMMA PurgeBeginGoes ==
  ASSUME NEW fl, FlashOK(fl), NEW m, StoreOK(fl, m), m.mode \in {"ready", "busy"},
         NEW new \in Interrupted(fl, m.op), Verified(new, m.op), m.job = "purge_begin"
  PROVE  StoreOK(new, StartNextPurge(Logged(m)))
  <1>1. /\ Quiet(new, Logged(m)) /\ Purposes(m, m.job)
        /\ Logged(m) = [m EXCEPT !.next = m.next + 1]
    BY EntryIsThere DEF JournalJobs
  <1>2. ~m.active /\ m \in Stores BY <1>1, StoreParts DEF Purposes
  <1>3. ~Logged(m).active BY <1>1, <1>2 DEF Stores
  <1> QED BY <1>1, <1>3, StartNextPurgeGoes

-----------------------------------------------------------------------------
(* Rotation.                                                                 *)

LEMMA InOrderIs ==
  ASSUME NEW S \in SUBSET Finals, IsFiniteSet(S), \A s, d \in S : s # d => s.id # d.id
  PROVE  InOrder(S) \in [1 .. Cardinality(S) -> S]
  <1> DEFINE Sorted(T, n) ==
        \E q \in [1 .. n -> T] : \A i, j \in DOMAIN q : i < j => q[i].id < q[j].id
  <1> DEFINE Bad == {n \in Nat : \E T \in SUBSET S : Cardinality(T) = n /\ ~Sorted(T, n)}
  <1>1. Bad = {}
    <2>1. SUFFICES ASSUME Bad # {} PROVE FALSE OBVIOUS
    <2>2. PICK n \in Bad : \A x \in Bad : n <= x
      <3>1. Bad \in SUBSET Nat OBVIOUS
      <3> HIDE DEF Bad
      <3> QED BY <2>1, <3>1, MinIs
    <2>3. PICK T \in SUBSET S : Cardinality(T) = n /\ ~Sorted(T, n) BY <2>2
    <2>4. IsFiniteSet(T) /\ n \in Nat /\ T \in SUBSET Finals BY <2>2, <2>3, FS_Subset
    <2>5. CASE n = 0
      <3>1. T = {} BY <2>3, <2>4, <2>5, FS_EmptySet
      <3>2. PICK q : q = [i \in 1 .. 0 |-> i] OBVIOUS
      <3>3. q \in [1 .. n -> T] /\ \A i, j \in DOMAIN q : i < j => q[i].id < q[j].id
        BY <2>5, <3>2
      <3> QED BY <2>3, <3>3
    <2>6. CASE n # 0
      <3>1. T # {} BY <2>3, <2>6, FS_EmptySet
      <3>2. PICK l \in T : l = Latest(T) /\ \A d \in T : d.id <= l.id
        BY <2>4, <3>1, LatestIs
      <3>3. PICK R : R = T \ {l} OBVIOUS
      <3>4. R \in SUBSET S /\ Cardinality(R) = n - 1 /\ n - 1 \in Nat
        <4>1. Cardinality(T \ {l}) = Cardinality(T) - 1 BY <2>4, <3>2, FS_RemoveElement
        <4> QED BY <2>3, <2>4, <2>6, <3>3, <4>1
      <3>5. Sorted(R, n - 1)
        <4>1. ~(n - 1 \in Bad) BY <2>2, <2>4, <2>6
        <4> QED BY <3>4, <4>1
      <3>6. PICK q \in [1 .. n - 1 -> R] :
              \A i, j \in DOMAIN q : i < j => q[i].id < q[j].id
        BY <3>5
      <3>7. PICK p : p = [i \in 1 .. n |-> IF i = n THEN l ELSE q[i]] OBVIOUS
      <3>8. \A i \in 1 .. n : i # n => i \in 1 .. n - 1 BY <2>4
      <3>9. p \in [1 .. n -> T] BY <3>2, <3>3, <3>6, <3>7, <3>8
      <3>10. \A d \in R : d.id < l.id
        <4>1. \A d \in R : d.id # l.id /\ d.id <= l.id BY <2>3, <3>2, <3>3
        <4>2. \A d \in T : d.id \in Int BY <2>4 DEF Finals, Ids
        <4> QED BY <3>2, <3>3, <4>1, <4>2
      <3>11. ASSUME NEW i \in 1 .. n, NEW j \in 1 .. n, i < j PROVE p[i].id < p[j].id
        <4>1. i # n /\ i \in 1 .. n - 1 BY <2>4, <3>11
        <4>2. CASE j = n BY <3>6, <3>7, <3>10, <4>1, <4>2
        <4>3. CASE j # n BY <3>6, <3>7, <3>8, <3>11, <4>1, <4>3
        <4> QED BY <4>2, <4>3
      <3> QED BY <2>3, <3>9, <3>11
    <2> QED BY <2>5, <2>6
  <1>2. Cardinality(S) \in Nat BY FS_CardinalityType
  <1>3. Sorted(S, Cardinality(S)) BY <1>1, <1>2
  <1> QED BY <1>3 DEF InOrder

LEMMA SnapshotIs ==
  ASSUME NEW m, Base(m)
  PROVE  /\ Len(SnapshotPages(m)) \in 0 .. MaxSessions + 1
         /\ \A i \in 1 .. Len(SnapshotPages(m)) :
               SnapshotPages(m)[i] \in Entries /\ SnapshotPages(m)[i].type # "progress"
  <1> DEFINE kind(s) == IF m.purge # NoUser /\ s.discard THEN "discard" ELSE "confirmed"
  <1>1. PICK S : S = Going(m.dir) OBVIOUS
  <1>2. S \subseteq m.dir /\ S \in SUBSET Finals /\ m.tomb \in Finals \cup {NoSession}
    BY <1>1 DEF Going, Base, Stores
  <1>3. IsFiniteSet(m.dir) /\ Cardinality(m.dir) <= MaxSessions /\ Separate(m.dir)
    BY DEF Base, DirectoryOK
  <1>4. PICK n \in Nat : n = Cardinality(S) /\ n <= MaxSessions
    <2>1. IsFiniteSet(S) /\ Cardinality(S) <= Cardinality(m.dir) /\ Cardinality(S) \in Nat
          /\ Cardinality(m.dir) \in Nat
      BY <1>2, <1>3, FS_Subset, FS_CardinalityType
    <2>2. Cardinality(S) <= MaxSessions BY <1>3, <2>1, Sizes
    <2> QED BY <2>1, <2>2
  <1>5. PICK q \in [1 .. n -> S] : q = InOrder(S)
    <2>1. IsFiniteSet(S) BY <1>2, <1>3, FS_Subset
    <2>2. \A s, d \in S : s # d => s.id # d.id BY <1>2, <1>3 DEF Separate
    <2> QED BY <1>2, <1>4, <2>1, <2>2, InOrderIs
  <1>6. PICK A : A = [i \in DOMAIN q |-> Entry(kind(q[i]), q[i])] OBVIOUS
  <1>7. PICK B : B = IF m.tomb = NoSession THEN <<>> ELSE <<Entry("reclaimed", m.tomb)>>
    OBVIOUS
  <1>8. SnapshotPages(m) = A \o B BY <1>1, <1>5, <1>6, <1>7 DEF SnapshotPages
  <1>9. PICK Kept : Kept = {e \in Entries : e.type # "progress"} OBVIOUS
  <1>10. \A i \in 1 .. n : Entry(kind(q[i]), q[i]) \in Kept
    <2>1. SUFFICES ASSUME NEW i \in 1 .. n PROVE Entry(kind(q[i]), q[i]) \in Kept OBVIOUS
    <2>2. q[i] \in Finals BY <1>2
    <2>3. kind(q[i]) \in {"discard", "confirmed"} OBVIOUS
    <2> HIDE DEF kind
    <2> QED BY <1>9, <2>2, <2>3, EntryForms DEF EntryTypes, Counted
  <1>11. A \in Seq(Kept) /\ Len(A) = n
    <2>1. A \in [1 .. n -> Kept] BY <1>6, <1>10
    <2> QED BY <2>1
  <1>12. B \in Seq(Kept) /\ Len(B) \in 0 .. 1
    <2>1. CASE m.tomb = NoSession BY <1>7, <2>1
    <2>2. CASE m.tomb # NoSession
      <3>1. Entry("reclaimed", m.tomb) \in Kept
        BY <1>2, <1>9, <2>2, EntryForms DEF EntryTypes, Counted
      <3> QED BY <1>7, <2>2, <3>1
    <2> QED BY <2>1, <2>2
  <1>13. A \o B \in Seq(Kept) /\ Len(A \o B) = Len(A) + Len(B) BY <1>11, <1>12
  <1>14. \A i \in 1 .. Len(A \o B) : (A \o B)[i] \in Kept BY <1>13
  <1>15. Len(A \o B) \in 0 .. MaxSessions + 1
    <2>1. PICK x \in 0 .. 1 : x = Len(B) BY <1>12
    <2>2. Len(A \o B) = n + x BY <1>11, <1>13, <2>1
    <2>3. n + x \in 0 .. MaxSessions + 1 BY <1>4, Sizes
    <2> QED BY <2>2, <2>3
  <1> QED BY <1>8, <1>9, <1>14, <1>15

\* The next page of the snapshot goes, or the header that closes it.
LEMMA SnapshotNextGoes ==
  ASSUME NEW fl, NEW m, Base(m), m.mode \in {"ready", "busy"}, Covered(m),
         m.resume \in JournalJobs, Purposes(m, m.resume), Fits(m, m.resume, m.held),
         m.active \/ m.resume = "open" => Behind(m),
         JournalOK(fl, m.cur),
         m.next < BankPages => m.next = Stop(fl, m.cur) /\ fl[Bank(m.cur) + m.next] = Blank,
         \A s \in m.dir : s.confirmed => RecalledNow(fl, m, s.id),
         m.resume = "progress" => RecalledNow(fl, m, m.reclaim.id),
         m.gen = Generation(fl, m.cur) + 1, fl[Bank(1 - m.cur)] = Blank,
         \A i \in 1 .. m.snap : fl[Bank(1 - m.cur) + i] \in Entries
                                /\ fl[Bank(1 - m.cur) + i].type # "progress",
         \A i \in m.snap + 1 .. BankPages - 1 : fl[Bank(1 - m.cur) + i] = Blank,
         m.snap <= Len(SnapshotPages(m))
  PROVE  StoreOK(fl, SnapshotNext(m))
  <1> DEFINE b == Bank(1 - m.cur)
  <1>1. m \in Stores /\ m.cur \in 0 .. 1 /\ m.snap \in 0 .. MaxSessions + 1 BY DEF Base, Stores
  <1>2. PICK size \in 0 .. MaxSessions + 1 : size = Len(SnapshotPages(m)) BY SnapshotIs
  <1>3. PICK o, job :
          /\ job = IF m.snap < size THEN "snapshot" ELSE "header"
          /\ o = IF m.snap < size THEN Program(b + 1 + m.snap, SnapshotPages(m)[m.snap + 1])
                 ELSE Program(b, HeaderOf(m))
    OBVIOUS
  <1>4. /\ 1 - m.cur \in 0 .. 1 /\ b \in Chip /\ b \in Nat
        /\ \A i \in 0 .. BankPages - 1 : b + i \in Chip
    <2>1. 1 - m.cur \in 0 .. 1 /\ b \in Nat /\ 0 \in 0 .. BankPages - 1 BY <1>1, BankAddresses, Sizes
    <2>2. \A i \in 0 .. BankPages - 1 : b + i \in Chip BY <2>1, BankAddresses
    <2>3. b + 0 \in Chip /\ b + 0 = b BY <2>1, <2>2
    <2> QED BY <2>1, <2>2, <2>3
  <1>5. o \in Operations /\ o # Idle
    <2>1. CASE m.snap < size
      <3>1. m.snap + 1 \in 1 .. size /\ m.snap + 1 \in 0 .. BankPages - 1
            /\ b + 1 + m.snap = b + (m.snap + 1)
        <4>1. b \in Nat BY <1>4
        <4> HIDE DEF b
        <4> QED BY <1>1, <2>1, <4>1, Sizes
      <3>2. SnapshotPages(m)[m.snap + 1] \in Entries BY <1>2, <3>1, SnapshotIs
      <3>3. SnapshotPages(m)[m.snap + 1] \in PageSet BY <3>2 DEF Entries, PageSet
      <3>4. b + 1 + m.snap \in Chip BY <1>4, <3>1
      <3> HIDE DEF b
      <3> QED BY <1>3, <2>1, <3>3, <3>4 DEF Operations, Program, Idle
    <2>2. CASE ~(m.snap < size)
      <3>1. HeaderOf(m) \in HeaderPages
        BY <1>1, Sizes DEF HeaderOf, Header, HeaderPages, Stores
      <3>2. HeaderOf(m) \in PageSet BY <3>1 DEF PageSet
      <3> HIDE DEF b
      <3> QED BY <1>3, <1>4, <2>2, <3>2 DEF Operations, Program, Idle
    <2> QED BY <2>1, <2>2
  <1>6. PICK r : r = [m EXCEPT !.op = o, !.job = job] OBVIOUS
  <1>7. SnapshotNext(m) = r BY <1>2, <1>3, <1>6 DEF SnapshotNext
  <1>8. job \in {"snapshot", "header"} BY <1>3
  <1>9. r \in Stores
    <2>1. job \in Jobs BY <1>8 DEF Jobs, RotationJobs
    <2> QED BY <1>1, <1>5, <1>6, <2>1 DEF Stores
  <1>10. /\ Same(r, m) /\ r.resume = m.resume /\ r.mode = m.mode /\ r.job = job /\ r.op = o
         /\ r.reclaim = m.reclaim /\ r.held = m.held /\ r.purge = m.purge /\ r.tomb = m.tomb
         /\ r.snap = m.snap /\ r.cur = m.cur /\ r.dir = m.dir /\ r.gen = m.gen
         /\ r.nextId = m.nextId /\ r.active = m.active /\ r.next = m.next
    BY <1>1, <1>6, <1>9 DEF Same, Stores
  <1>11. /\ Base(r) /\ Covered(r) /\ Purposes(r, m.resume) /\ Fits(r, m.resume, m.held)
         /\ Behind(m) => Behind(r)
         /\ \A id : RecalledNow(fl, m, id) <=> RecalledNow(fl, r, id)
    BY <1>9, <1>10, SameParts
  <1>12. JobOK(r)
    BY <1>5, <1>8, <1>10, <1>11 DEF JobOK, JournalJobs, RotationJobs, PageJobs
  <1>13. RecordingOK(r) /\ HeadOK(r) /\ ReclaimOK(r) /\ PendingOK(r)
    BY <1>8, <1>10, <1>11 DEF RecordingOK, Recording, HeadOK, ReclaimOK, PendingOK
  <1>14. CursorOK(fl, r)
    BY <1>8, <1>10, <1>11 DEF CursorOK, RecalledNow, Writing
  <1>15. RotationOK(fl, r)
    <2>1. SnapshotPages(r) = SnapshotPages(m) BY <1>10 DEF SnapshotPages
    <2>2. HeaderOf(r) = HeaderOf(m) BY <1>10 DEF HeaderOf
    <2>3. r.job = "snapshot" =>
            /\ r.snap < Len(SnapshotPages(r))
            /\ r.op = Program(Bank(1 - r.cur) + 1 + r.snap, SnapshotPages(r)[r.snap + 1])
      BY <1>2, <1>3, <1>10, <2>1
    <2>4. r.job = "header" =>
            r.snap = Len(SnapshotPages(r)) /\ r.op = Program(Bank(1 - r.cur), HeaderOf(r))
      BY <1>1, <1>2, <1>3, <1>10, <2>1, <2>2
    <2>5. r.job \in {"snapshot", "header"} BY <1>8, <1>10
    <2> QED BY <1>10, <2>3, <2>4, <2>5 DEF RotationOK
  <1> QED BY <1>11, <1>12, <1>13, <1>14, <1>15 , <1>7 DEF StoreOK, ExtentsOK

LEMMA RotateGoes ==
  ASSUME NEW fl, FlashOK(fl), NEW m, StoreOK(fl, m), m.mode \in {"ready", "busy"},
         NEW new \in Interrupted(fl, m.op), Verified(new, m.op),
         m.job \in {"rotate", "snapshot"}
  PROVE  StoreOK(new, IF m.job = "rotate" THEN RotateDone(m) ELSE SnapshotDone(m))
  <1> DEFINE b == Bank(1 - m.cur)
  <1>1. /\ Base(m) /\ m \in Stores /\ JobOK(m) /\ CursorOK(fl, m) /\ RotationOK(fl, m)
        /\ RecordingOK(m) /\ HeadOK(m)
    BY StoreParts DEF StoreOK, Mounted
  <1>2. /\ Preserved(fl, new, m.cur)
        /\ m.job = "rotate" => \A i \in 0 .. BankPages - 1 : new[b + i] = Blank
        /\ m.job = "snapshot" =>
             \A i \in 0 .. BankPages - 1 :
                new[b + i] = IF i = m.snap + 1 THEN m.op.page ELSE fl[b + i]
    BY CutSnapshot
  <1>3. /\ m.cur \in 0 .. 1 /\ m.next \in 1 .. BankPages /\ m.snap \in 0 .. MaxSessions + 1
        /\ m.gen \in Nat
        /\ m.job = "rotate" => m.gen = Generation(fl, m.cur)
        /\ m.job = "snapshot" => m.gen = Generation(fl, m.cur) + 1
    BY <1>1 DEF Stores, RotationOK
  <1>4. PICK snap \in 0 .. MaxSessions + 1 :
          snap = IF m.job = "rotate" THEN 0 ELSE m.snap + 1
    <2>1. CASE m.job = "rotate" BY <2>1, Sizes
    <2>2. CASE m.job = "snapshot"
      <3>1. PICK size \in 0 .. MaxSessions + 1 : size = Len(SnapshotPages(m))
        BY <1>1, SnapshotIs
      <3>2. m.snap < size BY <1>1, <2>2, <3>1 DEF RotationOK
      <3> QED BY <1>3, <2>2, <3>1, <3>2, Sizes
    <2> QED BY <2>1, <2>2
  <1>5. PICK gen \in Nat : gen = IF m.job = "rotate" THEN m.gen + 1 ELSE m.gen BY <1>3
  <1>6. PICK r : r = [m EXCEPT !.gen = gen, !.snap = snap] OBVIOUS
  <1>7. (IF m.job = "rotate" THEN RotateDone(m) ELSE SnapshotDone(m)) = SnapshotNext(r)
    <2>1. CASE m.job = "rotate"
      <3>1. [m EXCEPT !.gen = @ + 1, !.snap = 0] = r
        BY <1>1, <1>4, <1>5, <1>6, <2>1 DEF Stores
      <3> QED BY <2>1, <3>1 DEF RotateDone
    <2>2. CASE m.job # "rotate"
      <3>1. [m EXCEPT !.snap = @ + 1] = r
        BY <1>1, <1>4, <1>5, <1>6, <2>2 DEF Stores
      <3> QED BY <2>2, <3>1 DEF SnapshotDone
    <2> QED BY <2>1, <2>2
  <1>8. /\ r \in Stores /\ r.dir = m.dir /\ r.head = m.head /\ r.nextId = m.nextId
        /\ r.active = m.active /\ r.act = m.act /\ r.cur = m.cur /\ r.next = m.next
        /\ r.gen = gen /\ r.snap = snap /\ r.reclaim = m.reclaim /\ r.held = m.held
        /\ r.resume = m.resume /\ r.mode = m.mode /\ r.purge = m.purge /\ r.tomb = m.tomb
    BY <1>1, <1>4, <1>5, <1>6 DEF Stores
  <1>9. /\ Base(r) /\ Covered(r)
        /\ r.resume \in JournalJobs /\ Purposes(r, r.resume) /\ Fits(r, r.resume, r.held)
        /\ r.active \/ r.resume = "open" => Behind(r)
    <2>1. Base(r) BY <1>1, <1>8 DEF Base, DirectoryOK
    <2>2. Covered(r) BY <1>1, <1>8 DEF HeadOK, Covered
    <2>3. r.resume \in JournalJobs /\ Purposes(r, r.resume) /\ Fits(r, r.resume, r.held)
      BY <1>1, <1>8 DEF JobOK, RotationJobs, Purposes, Fits
    <2>4. r.active \/ r.resume = "open" => Behind(r)
      BY <1>1, <1>8 DEF RecordingOK, Recording, Behind
    <2> QED BY <2>1, <2>2, <2>3, <2>4
  <1>10. /\ JournalOK(new, r.cur) /\ Generation(new, r.cur) = Generation(fl, m.cur)
         /\ Stop(new, r.cur) = Stop(fl, m.cur)
    BY <1>2, <1>8 DEF Preserved
  <1>11. r.next < BankPages => r.next = Stop(new, r.cur) /\ new[Bank(r.cur) + r.next] = Blank
    <2>1. SUFFICES ASSUME m.next < BankPages
                   PROVE  m.next = Stop(new, m.cur) /\ new[Bank(m.cur) + m.next] = Blank
      BY <1>8
    <2>2. m.next \in 0 .. BankPages - 1 BY <1>3, <2>1, Sizes
    <2> QED BY <1>1, <1>2, <2>1, <2>2 DEF CursorOK, Preserved
  <1>12. \A id : RecalledNow(fl, m, id) => RecalledNow(new, r, id)
    BY <1>2, <1>8 DEF Preserved, RecalledNow
  <1>13. /\ \A s \in r.dir : s.confirmed => RecalledNow(new, r, s.id)
         /\ r.resume = "progress" => RecalledNow(new, r, r.reclaim.id)
    BY <1>1, <1>8, <1>12 DEF CursorOK, RecalledNow, Writing
  <1>14. r.gen = Generation(new, r.cur) + 1 BY <1>3, <1>5, <1>8, <1>10
  <1>15. /\ new[b] = Blank
         /\ \A i \in 1 .. snap : new[b + i] \in Entries /\ new[b + i].type # "progress"
         /\ \A i \in snap + 1 .. BankPages - 1 : new[b + i] = Blank
    <2>1. b \in Nat /\ b + 0 = b /\ 0 \in 0 .. BankPages - 1
      BY <1>3, BankAddresses, Sizes
    <2>2. CASE m.job = "rotate"
      <3>1. \A i \in 0 .. BankPages - 1 : new[b + i] = Blank BY <1>2, <2>2
      <3>2. snap = 0 BY <1>4, <2>2
      <3>3. \A i \in snap + 1 .. BankPages - 1 : i \in 0 .. BankPages - 1 BY <3>2
      <3>4. \A i \in 1 .. snap : FALSE BY <3>2
      <3> QED BY <2>1, <3>1, <3>3, <3>4
    <2>3. CASE m.job = "snapshot"
      <3>1. snap = m.snap + 1 /\ snap \in 1 .. BankPages - 1 BY <1>3, <1>4, <2>3, Sizes
      <3>2. \A i \in 0 .. BankPages - 1 :
               new[b + i] = IF i = snap THEN m.op.page ELSE fl[b + i]
        BY <1>2, <2>3, <3>1
      <3>3. /\ fl[b] = Blank
            /\ \A i \in 1 .. m.snap : fl[b + i] \in Entries /\ fl[b + i].type # "progress"
            /\ \A i \in m.snap + 1 .. BankPages - 1 : fl[b + i] = Blank
            /\ m.snap < Len(SnapshotPages(m))
            /\ m.op.page = SnapshotPages(m)[m.snap + 1]
        BY <1>1, <2>3 DEF RotationOK, Program
      <3>4. m.op.page \in Entries /\ m.op.page.type # "progress"
        <4>1. PICK size \in 0 .. MaxSessions + 1 :
                /\ size = Len(SnapshotPages(m))
                /\ \A i \in 1 .. size : SnapshotPages(m)[i] \in Entries
                                        /\ SnapshotPages(m)[i].type # "progress"
          BY <1>1, SnapshotIs
        <4>2. m.snap + 1 \in 1 .. size BY <1>3, <3>3, <4>1
        <4> QED BY <3>3, <4>1, <4>2
      <3>5. new[b] = Blank BY <2>1, <3>1, <3>2, <3>3
      <3>6. \A i \in snap + 1 .. BankPages - 1 : new[b + i] = Blank
        <4>1. \A i \in snap + 1 .. BankPages - 1 :
                 i \in 0 .. BankPages - 1 /\ i # snap /\ i \in m.snap + 1 .. BankPages - 1
          BY <1>3, <3>1
        <4> QED BY <3>2, <3>3, <4>1
      <3>7. \A i \in 1 .. snap : new[b + i] \in Entries /\ new[b + i].type # "progress"
        <4>1. ASSUME NEW i \in 1 .. snap
              PROVE  i \in 0 .. BankPages - 1 /\ (i = snap \/ i \in 1 .. m.snap)
          <5>1. m.snap \in Nat BY <1>3
          <5> QED BY ONLY <3>1, <4>1, <5>1, Sizes
        <4>2. \A i \in 1 .. m.snap : i # snap BY <1>3, <3>1
        <4> QED BY <3>2, <3>3, <3>4, <4>1, <4>2
      <3> QED BY <3>5, <3>6, <3>7
    <2> QED BY <2>2, <2>3
  <1>16. snap <= Len(SnapshotPages(r))
    <2>1. SnapshotPages(r) = SnapshotPages(m) BY <1>8 DEF SnapshotPages
    <2>2. PICK size \in 0 .. MaxSessions + 1 : size = Len(SnapshotPages(m))
      BY <1>1, SnapshotIs
    <2>3. m.job = "snapshot" => m.snap < size BY <1>1, <2>2 DEF RotationOK
    <2>4. snap <= size BY <1>3, <1>4, <2>2, <2>3
    <2> QED BY <2>1, <2>2, <2>4
  <1>17. Bank(1 - r.cur) = b /\ r.snap = snap /\ r.mode \in {"ready", "busy"} BY <1>8
  <1> HIDE DEF b
  <1> QED BY <1>7, <1>9, <1>10, <1>11, <1>13, <1>14, <1>15, <1>16, <1>17, SnapshotNextGoes

\* The other bank counts now, and takes the entry that the rotation was for.
LEMMA HeaderGoes ==
  ASSUME NEW fl, FlashOK(fl), NEW m, StoreOK(fl, m), m.mode \in {"ready", "busy"},
         NEW new \in Interrupted(fl, m.op), Verified(new, m.op), m.job = "header"
  PROVE  StoreOK(new, HeaderDone(m))
  <1>1. /\ Base(m) /\ m \in Stores /\ JobOK(m) /\ RecordingOK(m) /\ HeadOK(m)
        /\ m.cur \in 0 .. 1 /\ 1 - m.cur \in 0 .. 1
    BY StoreParts, BankAddresses DEF StoreOK
  <1>2. PICK k, n : k = 1 - m.cur /\ n = m.snap + 1 OBVIOUS
  <1>3. /\ JournalOK(new, k) /\ Generation(new, k) = m.gen
        /\ n < BankPages /\ Stop(new, k) = n
        /\ new[Bank(k) + n] = Blank
        /\ \A id : id < m.nextId => Recalled(new, k, n, id)
    BY <1>2, CutHeader
  <1>4. n \in 1 .. BankPages /\ k \in 0 .. 1 /\ Bank(k) + n \in Chip /\ Bank(k) \in Nat
    <2>1. n \in 1 .. BankPages - 1 BY <1>1, <1>2, <1>3, Sizes DEF Stores
    <2>2. n \in 0 .. BankPages - 1 BY <2>1
    <2> QED BY <1>1, <1>2, <2>1, <2>2, BankAddresses, Sizes
  <1>5. /\ m.resume \in JournalJobs /\ Purposes(m, m.resume) /\ Fits(m, m.resume, m.held)
    BY <1>1 DEF JobOK, RotationJobs
  <1>6. PICK o : o = Program(Bank(k) + n, m.held) OBVIOUS
  <1>7. o \in Operations /\ o # Idle /\ o.do = "program" /\ o.at = Bank(k) + n
        /\ o.page = m.held
    BY <1>1, <1>4, <1>6 DEF Operations, Program, Idle, Stores
  <1>8. PICK r : r = [m EXCEPT !.cur = k, !.next = n, !.runtime = TRUE, !.op = o,
                               !.job = m.resume, !.held = Blank, !.resume = "none"]
    OBVIOUS
  <1>9. HeaderDone(m) = r
    <2>1. Bank(1 - m.cur) + m.snap + 1 = Bank(k) + n
      <3>1. m.snap \in Nat BY <1>1 DEF Stores
      <3> QED BY <1>2, <1>4, <3>1
    <2> QED BY <1>1, <1>2, <1>6, <1>8, <2>1 DEF HeaderDone, Stores
  <1>10. r \in Stores
    <2>1. m.resume \in Jobs BY <1>5 DEF Jobs
    <2> QED BY <1>1, <1>4, <1>7, <1>8, <2>1, NothingOK DEF Stores
  <1>11. /\ r.dir = m.dir /\ r.head = m.head /\ r.nextId = m.nextId
         /\ r.active = m.active /\ r.act = m.act /\ r.cur = k /\ r.next = n
         /\ r.gen = m.gen /\ r.reclaim = m.reclaim /\ r.mode = m.mode
         /\ r.job = m.resume /\ r.op = o /\ r.resume = "none"
    BY <1>1, <1>8, <1>10 DEF Stores
  <1>12. Base(r) BY <1>1, <1>10, <1>11 DEF Base, DirectoryOK
  <1>13. Covered(r) BY <1>1, <1>11 DEF HeadOK, Covered
  <1>14. /\ Purposes(r, r.job) /\ Fits(r, r.job, r.op.page) /\ r.job \in JournalJobs
    BY <1>5, <1>7, <1>11 DEF Purposes, Fits
  <1>15. JobOK(r)
    BY <1>3, <1>7, <1>11, <1>14 DEF JobOK, JournalJobs, RotationJobs, PageJobs
  <1>16. r.active \/ r.job = "open" => Behind(r)
    BY <1>1, <1>11 DEF RecordingOK, Recording, Behind
  <1>17. RecordingOK(r) /\ HeadOK(r) /\ ReclaimOK(r) /\ PendingOK(r)
    BY <1>11, <1>13, <1>14, <1>16
    DEF RecordingOK, Recording, HeadOK, ReclaimOK, PendingOK, JournalJobs
  <1>18. \A id : id < m.nextId => Recalled(new, r.cur, Stop(new, r.cur), id)
    BY <1>3, <1>11
  <1>19. \A s \in r.dir : s.id < m.nextId BY <1>1, <1>11 DEF Base, DirectoryOK
  <1>20. r.job = "progress" => r.reclaim.id < m.nextId
    BY <1>11, <1>14 DEF Purposes, Releases
  <1>21. CursorOK(new, r)
    BY <1>3, <1>11, <1>14, <1>18, <1>19, <1>20 DEF CursorOK, Writing, JournalJobs
  <1>22. RotationOK(new, r)
    BY <1>3, <1>11, <1>14 DEF RotationOK, JournalJobs
  <1> QED BY <1>9, <1>12, <1>15, <1>17, <1>21, <1>22 DEF StoreOK, ExtentsOK

LEMMA RepairGoes ==
  ASSUME NEW fl, FlashOK(fl), NEW m, StoreOK(fl, m), m.job = "repair",
         NEW new \in Interrupted(fl, m.op)
  PROVE  StoreOK(new, RepairDone(m))
  <1>1. /\ Base(m) /\ m \in Stores /\ JobOK(m) /\ CursorOK(fl, m) /\ RotationOK(fl, m)
        /\ m.mode = "recovering" /\ ~m.active /\ m.resume = "none" /\ PendingOK(m)
        /\ m.next \in 1 .. BankPages
    BY StoreParts DEF StoreOK, Mounted, JobOK, RotationJobs, Stores
  <1>2. Preserved(fl, new, m.cur) BY CutArea
  <1>3. PICK r : r = [m EXCEPT !.job = "scan", !.op = Idle] OBVIOUS
  <1>4. RepairDone(m) = r BY <1>3 DEF RepairDone
  <1>5. /\ r \in Stores /\ Same(r, m) /\ r.resume = "none" /\ r.mode = "recovering"
        /\ r.job = "scan" /\ r.op = Idle /\ ~r.active /\ r.pending = m.pending
        /\ r.reclaim = m.reclaim /\ r.dir = m.dir /\ r.cur = m.cur /\ r.next = m.next
        /\ r.gen = m.gen
    BY <1>1, <1>3, NothingOK DEF Stores, Same, Jobs
  <1>6. Base(r) BY <1>1, <1>5, SameParts
  <1>7. JobOK(r) BY <1>5 DEF JobOK, JournalJobs, RotationJobs, PageJobs
  <1>8. RecordingOK(r) /\ HeadOK(r) /\ ReclaimOK(r) /\ PendingOK(r)
    BY <1>1, <1>5
    DEF RecordingOK, Recording, HeadOK, ReclaimOK, PendingOK, JournalJobs, RotationJobs
  <1>9. CursorOK(new, r)
    <2>1. r.next < BankPages => r.next = Stop(new, r.cur) /\ new[Bank(r.cur) + r.next] = Blank
      <3>1. SUFFICES ASSUME m.next < BankPages
                     PROVE  m.next = Stop(new, m.cur) /\ new[Bank(m.cur) + m.next] = Blank
        BY <1>5
      <3>2. m.next \in 0 .. BankPages - 1 BY <1>1, <3>1, Sizes
      <3> QED BY <1>1, <1>2, <3>1, <3>2 DEF CursorOK, Preserved
    <2>2. \A id : RecalledNow(fl, m, id) => RecalledNow(new, r, id)
      BY <1>2, <1>5 DEF Preserved, RecalledNow
    <2>3. \A s \in r.dir : s.confirmed => RecalledNow(new, r, s.id)
      BY <1>1, <1>5, <2>2 DEF CursorOK, RecalledNow
    <2>4. JournalOK(new, r.cur) BY <1>2, <1>5 DEF Preserved
    <2>5. ~Writing(r) /\ r.job # "reclaim" BY <1>5 DEF Writing
    <2> QED BY <2>1, <2>3, <2>4, <2>5 DEF CursorOK, RecalledNow
  <1>10. RotationOK(new, r) BY <1>1, <1>2, <1>5 DEF RotationOK, Preserved
  <1> QED BY <1>4, <1>6, <1>7, <1>8, <1>9, <1>10 DEF StoreOK, ExtentsOK

\* Whatever the job, its next step finds the store in order and leaves it so.
LEMMA StepGoes ==
  ASSUME NEW fl, FlashOK(fl), NEW m, StoreOK(fl, m), m.op # Idle,
         NEW new \in Interrupted(fl, m.op)
  PROVE  StoreOK(new, IF ~Verified(new, m.op) THEN Failed
                      ELSE IF m.mode = "recovering" THEN RecoveryStep(m)
                      ELSE RuntimeStep(m))
  <1>1. m.job \in Jobs /\ JobOK(m) /\ m \in Stores BY StoreParts
  <1>2. m.job \notin {"none", "scan"} /\ m.mode \in {"recovering", "ready", "busy"}
    BY <1>1 DEF JobOK, Stores
  <1>3. CASE ~Verified(new, m.op) BY <1>3, LostOrFailed
  <1>4. CASE Verified(new, m.op) /\ m.mode = "recovering"
    BY <1>4, LostOrFailed, RepairGoes DEF RecoveryStep
  <1>5. CASE Verified(new, m.op) /\ m.mode # "recovering"
    <2>1. m.mode \in {"ready", "busy"} BY <1>2, <1>5
    <2>2. m.job # "repair" BY <1>1, <1>5 DEF JobOK
    <2>3. StoreOK(new, RuntimeStep(m))
      <3>1. CASE m.job = "begin" BY <1>5, <2>1, <3>1, BeginGoes DEF RuntimeStep
      <3>2. CASE m.job = "open" BY <1>5, <2>1, <3>2, OpenGoes DEF RuntimeStep
      <3>3. CASE m.job = "page0" BY <1>5, <2>1, <3>3, HeadGoes DEF RuntimeStep
      <3>4. CASE m.job = "page1" BY <1>5, <2>1, <3>4, HeadGoes DEF RuntimeStep
      <3>5. CASE m.job = "commit" BY <1>5, <2>1, <3>5, CommitGoes DEF RuntimeStep
      <3>6. CASE m.job = "checkpoint" BY <1>5, <2>1, <3>6, CheckpointGoes DEF RuntimeStep
      <3>7. CASE m.job = "end" BY <1>5, <2>1, <3>7, EndGoes DEF RuntimeStep
      <3>8. CASE m.job = "final" BY <1>5, <2>1, <3>8, FinalGoes DEF RuntimeStep
      <3>9. CASE m.job = "confirm" BY <1>5, <2>1, <3>9, ConfirmGoes DEF RuntimeStep
      <3>10. CASE m.job = "purge_begin" BY <1>5, <2>1, <3>10, PurgeBeginGoes DEF RuntimeStep
      <3>11. CASE m.job = "discard" BY <1>5, <2>1, <3>11, DiscardGoes DEF RuntimeStep
      <3>12. CASE m.job = "reclaim" BY <1>5, <2>1, <3>12, ReclaimGoes DEF RuntimeStep
      <3>13. CASE m.job = "progress" BY <1>5, <2>1, <3>13, ProgressGoes DEF RuntimeStep
      <3>14. CASE m.job = "reclaimed" BY <1>5, <2>1, <3>14, ReclaimedGoes DEF RuntimeStep
      <3>15. CASE m.job = "purge_done" BY <1>5, <2>1, <3>15, ProgressGoes DEF RuntimeStep
      <3>16. CASE m.job = "rotate" BY <1>5, <2>1, <3>16, RotateGoes DEF RuntimeStep
      <3>17. CASE m.job = "snapshot" BY <1>5, <2>1, <3>17, RotateGoes DEF RuntimeStep
      <3>18. CASE m.job = "header" BY <1>5, <2>1, <3>18, HeaderGoes DEF RuntimeStep
      <3> QED
        BY <1>1, <1>2, <2>2, <3>1, <3>2, <3>3, <3>4, <3>5, <3>6, <3>7, <3>8, <3>9, <3>10,
           <3>11, <3>12, <3>13, <3>14, <3>15, <3>16, <3>17, <3>18
        DEF Jobs, JournalJobs, RotationJobs, PageJobs
    <2> QED BY <1>5, <2>3
  <1> QED BY <1>2, <1>3, <1>4, <1>5

-----------------------------------------------------------------------------
(* Replay of the journal.                                                    *)

\* What page i of the bank makes of what the pages before it amount to.
Next1(fl, k, after, i) ==
    IF i = 0 THEN FromHeader(fl, k)
    ELSE IF after[i - 1].mode = "error" THEN after[i - 1]
    ELSE Replayed(after[i - 1], fl[Bank(k) + i])

LEMMA AfterIs ==
  ASSUME NEW fl, NEW k
  PROVE  After(fl, k) = CHOOSE f : f = [i \in 0 .. BankPages |-> Next1(fl, k, f, i)]
  BY DEF After, Next1

\* After[i] is determined by After[i - 1].
LEMMA Next1Local ==
  ASSUME NEW fl, NEW k, NEW f, NEW g, NEW i \in Nat, i > 0 => f[i - 1] = g[i - 1]
  PROVE  Next1(fl, k, f, i) = Next1(fl, k, g, i)
  BY DEF Next1

\* The recursion of After has a solution up to every page, by the least page
\* up to which it would have none.
LEMMA AfterExists ==
  ASSUME NEW fl, NEW k, NEW n \in Nat
  PROVE  \E f : f = [i \in 0 .. n |-> Next1(fl, k, f, i)]
  <1> DEFINE Upto(j) == \E f : f = [i \in 0 .. j |-> Next1(fl, k, f, i)]
             Bad == {j \in Nat : ~Upto(j)}
  <1>1. Upto(0)
    <2> DEFINE f == [i \in 0 .. 0 |-> FromHeader(fl, k)]
    <2>1. \A i \in 0 .. 0 : Next1(fl, k, f, i) = FromHeader(fl, k) BY DEF Next1
    <2> HIDE DEF f
    <2>2. f = [i \in 0 .. 0 |-> Next1(fl, k, f, i)] BY <2>1 DEF f
    <2> QED BY <2>2
  <1>2. ASSUME NEW j \in Nat, Upto(j) PROVE Upto(j + 1)
    <2>1. PICK f : f = [i \in 0 .. j |-> Next1(fl, k, f, i)] BY <1>2
    <2> DEFINE g == [i \in 0 .. j + 1 |-> Next1(fl, k, f, i)]
    <2>2. \A i \in 0 .. j : g[i] = f[i]
      <3>1. \A i \in 0 .. j : i \in 0 .. j + 1 OBVIOUS
      <3>2. \A i \in 0 .. j : f[i] = Next1(fl, k, f, i) BY <2>1
      <3> QED BY <3>1, <3>2
    <2> HIDE DEF g
    <2>3. \A i \in 0 .. j + 1 : Next1(fl, k, f, i) = Next1(fl, k, g, i)
      <3>1. TAKE i \in 0 .. j + 1
      <3>2. i > 0 => i - 1 \in 0 .. j OBVIOUS
      <3>3. i > 0 => f[i - 1] = g[i - 1] BY <2>2, <3>2
      <3> QED BY <3>3, Next1Local
    <2>4. g = [i \in 0 .. j + 1 |-> Next1(fl, k, g, i)] BY <2>3 DEF g
    <2> QED BY <2>4
  <1> HIDE DEF Upto
  <1>3. Bad = {}
    <2> SUFFICES ASSUME Bad # {} PROVE FALSE OBVIOUS
    <2>1. Min(Bad) \in Bad /\ \A y \in Bad : Min(Bad) <= y BY MinIs
    <2>2. PICK b \in Nat : ~Upto(b) /\ \A y \in Bad : b <= y BY <2>1
    <2>3. b # 0 BY <1>1, <2>2
    <2>4. b - 1 \in Nat /\ ~(b <= b - 1) /\ (b - 1) + 1 = b BY <2>3
    <2>5. b - 1 \notin Bad BY <2>2, <2>4
    <2>6. Upto(b - 1) BY <2>4, <2>5
    <2>7. Upto(b) BY <1>2, <2>4, <2>6
    <2> QED BY <2>2, <2>7
  <1>4. Upto(n) BY <1>3
  <1> QED BY <1>4 DEF Upto

LEMMA AfterUnfolds ==
  ASSUME NEW fl, NEW k
  PROVE  /\ After(fl, k)[0] = FromHeader(fl, k)
         /\ \A i \in 0 .. BankPages - 1 :
               After(fl, k)[i + 1] =
                  IF After(fl, k)[i].mode = "error" THEN After(fl, k)[i]
                  ELSE Replayed(After(fl, k)[i], fl[Bank(k) + (i + 1)])
  <1> DEFINE f == After(fl, k)
  <1>1. \E g : g = [i \in 0 .. BankPages |-> Next1(fl, k, g, i)] BY AfterExists, Sizes
  <1>2. f = [i \in 0 .. BankPages |-> Next1(fl, k, f, i)] BY <1>1, AfterIs
  <1> HIDE DEF f
  <1>3. f[0] = Next1(fl, k, f, 0) BY <1>2, Sizes
  <1>4. ASSUME NEW i \in 0 .. BankPages - 1
        PROVE  f[i + 1] = IF f[i].mode = "error" THEN f[i]
                          ELSE Replayed(f[i], fl[Bank(k) + (i + 1)])
    <2>1. i + 1 \in 0 .. BankPages /\ i + 1 # 0 /\ (i + 1) - 1 = i BY Sizes
    <2>2. f[i + 1] = Next1(fl, k, f, i + 1) BY <1>2, <2>1
    <2> QED BY <2>1, <2>2 DEF Next1
  <1> QED BY <1>3, <1>4 DEF f, Next1

\* What the header and the pages before page n of bank k amount to.
ScanOK(fl, k, n, r) ==
    /\ r \in Stores /\ DirectoryOK(r)
    /\ r.mode = "recovering" /\ r.job = "scan" /\ r.op = Idle
    /\ ~r.active /\ r.resume = "none" /\ r.cur = k /\ r.gen = Generation(fl, k)
    /\ \A s \in r.dir : s.confirmed /\ Recalled(fl, k, n, s.id)
    /\ \A id \in Ids : Recalled(fl, k, n, id) => id < r.nextId
    /\ r.pending => r.reclaim \in r.dir

LEMMA RecalledGrows ==
  ASSUME NEW fl, NEW k, NEW n \in Nat \ {0}, NEW id
  PROVE  /\ Recalled(fl, k, n, id) => Recalled(fl, k, n + 1, id)
         /\ fl[Bank(k) + n].type \in Counted /\ id = fl[Bank(k) + n].s.id /\ id \in Nat
              => Recalled(fl, k, n + 1, id)
         /\ Recalled(fl, k, n + 1, id) =>
              \/ Recalled(fl, k, n, id)
              \/ fl[Bank(k) + n].type \in Counted /\ id <= fl[Bank(k) + n].s.id
  <1>1. \A j \in 1 .. n - 1 : j \in 1 .. (n + 1) - 1 OBVIOUS
  <1>2. n \in 1 .. (n + 1) - 1 OBVIOUS
  <1>3. \A j \in 1 .. (n + 1) - 1 : j \in 1 .. n - 1 \/ j = n OBVIOUS
  <1>4. id \in Nat => id <= id OBVIOUS
  <1> QED BY <1>1, <1>2, <1>3, <1>4 DEF Recalled

\* An entry either cannot stand where it does, or leaves the scan in order.
LEMMA ReplayedGoes ==
  ASSUME NEW fl, NEW k, NEW n \in Nat \ {0}, NEW r, ScanOK(fl, k, n, r),
         NEW e, e = fl[Bank(k) + n], e \in Entries,
         e.type = "progress" => Recalled(fl, k, n, e.s.id)
  PROVE  Replayed(r, e) = Failed \/ ScanOK(fl, k, n + 1, Replayed(r, e))
  <1> DEFINE s == [e.s EXCEPT !.confirmed = TRUE, !.discard = @ \/ e.type = "discard"]
             r1 == IF e.type \in Counted /\ e.s.id >= r.nextId
                   THEN [r EXCEPT !.nextId = e.s.id + 1] ELSE r
             same == r1.pending /\ r1.reclaim.id = s.id
  <1>1. /\ e.type \in EntryTypes /\ e.s \in Descriptions
        /\ e.type \in OfFinals => e.s \in Finals
    BY DEF Entries, EntryPages
  <1>2. /\ s \in Descriptions /\ s.confirmed /\ s.id = e.s.id /\ s.id \in 0 .. IdLimit - 1
        /\ e.type \in OfFinals => s \in Finals /\ s.id \in Ids
    BY <1>1 DEF Descriptions, Finals
  <1>3. r \in Stores /\ r.nextId \in 1 .. IdLimit BY DEF ScanOK, Stores
  <1>4. /\ r1 \in Stores /\ r1.nextId \in 1 .. IdLimit /\ r.nextId <= r1.nextId
        /\ e.type \in Counted => s.id < r1.nextId
        /\ r1 = [r EXCEPT !.nextId = r1.nextId]
    <2>1. CASE e.type \in Counted /\ e.s.id >= r.nextId
      <3>1. e.s.id + 1 \in 1 .. IdLimit /\ r.nextId <= e.s.id + 1 /\ e.s.id < e.s.id + 1
        BY <1>2, <1>3, <2>1, Sizes
      <3>2. r1 = [r EXCEPT !.nextId = e.s.id + 1] BY <2>1
      <3>3. [r EXCEPT !.nextId = e.s.id + 1] \in Stores BY <1>3, <3>1 DEF Stores
      <3>4. r1.nextId = e.s.id + 1 BY <3>2, <1>3 DEF Stores
      <3> HIDE DEF r1, s
      <3> QED BY <1>2, <3>1, <3>2, <3>3, <3>4
    <2>2. CASE ~(e.type \in Counted /\ e.s.id >= r.nextId)
      <3>1. r1 = r BY <2>2
      <3>2. r = [r EXCEPT !.nextId = r.nextId] BY <1>3 DEF Stores
      <3>3. r.nextId <= r.nextId BY <1>3
      <3>4. e.type \in Counted => s.id < r.nextId BY <1>2, <1>3, <2>2, Sizes
      <3> HIDE DEF r1, s
      <3> QED BY <1>3, <3>1, <3>2, <3>3, <3>4
    <2> QED BY <2>1, <2>2
  <1>5. /\ r1.dir = r.dir /\ r1.pending = r.pending /\ r1.reclaim = r.reclaim
        /\ r1.mode = "recovering" /\ r1.job = "scan" /\ r1.op = Idle /\ ~r1.active
        /\ r1.resume = "none" /\ r1.cur = k /\ r1.gen = Generation(fl, k)
    BY <1>3 DEF ScanOK, Stores
  <1>6. e.type = "confirmed" \/ e.type = "progress" \/ e.type = "discard"
          => Recalled(fl, k, n + 1, s.id) /\ s.id < r1.nextId
    <2>1. CASE e.type \in {"confirmed", "discard"}
      <3>1. s.id \in Nat /\ e.type \in Counted BY <1>2, <2>1 DEF Counted
      <3> HIDE DEF s, r1
      <3> QED BY <1>2, <1>4, <3>1, RecalledGrows
    <2>2. CASE e.type = "progress"
      <3>1. s.id \in Ids /\ Recalled(fl, k, n, s.id) BY <1>2, <2>2 DEF OfFinals
      <3> HIDE DEF s, r1
      <3>2. s.id < r.nextId BY <3>1 DEF ScanOK
      <3>3. s.id < r1.nextId BY <3>1, <3>2, <1>3, <1>4, Sizes DEF Ids
      <3> QED BY <3>1, <3>3, RecalledGrows
    <2> QED BY <2>1, <2>2
  <1>7. \A id \in Ids : Recalled(fl, k, n + 1, id) => id < r1.nextId
    <2> HIDE DEF s, r1
    <2> SUFFICES ASSUME NEW id \in Ids, Recalled(fl, k, n + 1, id) PROVE id < r1.nextId
      OBVIOUS
    <2>1. id \in Nat BY Sizes DEF Ids
    <2>2. CASE Recalled(fl, k, n, id)
      <3>1. id < r.nextId BY <2>2 DEF ScanOK
      <3> QED BY <1>3, <1>4, <2>1, <3>1
    <2>3. CASE e.type \in Counted /\ id <= e.s.id
      BY <1>2, <1>4, <2>1, <2>3, Sizes
    <2> QED BY <2>2, <2>3, RecalledGrows
  <1>8. \A d \in r1.dir : d.confirmed /\ Recalled(fl, k, n + 1, d.id)
    BY <1>5, RecalledGrows DEF ScanOK
  <1>9. /\ IsFiniteSet(r1.dir) /\ Cardinality(r1.dir) <= MaxSessions /\ Separate(r1.dir)
        /\ r1.dir \in SUBSET Finals /\ \A d \in r1.dir : d.id < r1.nextId
    <2>1. DirectoryOK(r) /\ r.dir \in SUBSET Finals BY DEF ScanOK, Stores
    <2>2. \A d \in r.dir : d.id \in Nat /\ d.id < r.nextId
      BY <2>1, Sizes DEF DirectoryOK, Finals, Ids
    <2> HIDE DEF r1, s
    <2>3. \A d \in r.dir : d.id < r1.nextId BY <1>3, <1>4, <2>2
    <2> QED BY <1>5, <2>1, <2>3 DEF DirectoryOK
  <1>10. r1.purge \in Owners /\ e.s.owner \in Owners /\ NoUser \in Owners
    BY <1>1, <1>4 DEF Stores, Descriptions, Owners
  <1>11. /\ r1.pending \in BOOLEAN /\ r1.foreign \in BOOLEAN
         /\ r1.pending => r1.reclaim \in r1.dir
    BY <1>3, <1>4, <1>5 DEF Stores, ScanOK
  <1>12. CASE e.type = "purge_begin"
    <2>1. Replayed(r, e) =
            [r1 EXCEPT !.purge = e.s.owner, !.pending = FALSE, !.foreign = FALSE]
      BY <1>12 DEF Replayed, Counted
    <2> HIDE DEF s, r1
    <2> DEFINE q == [r1 EXCEPT !.purge = e.s.owner, !.pending = FALSE, !.foreign = FALSE]
    <2>2. q \in Stores BY <1>4, <1>10 DEF Stores
    <2>3. /\ q.dir = r1.dir /\ q.nextId = r1.nextId /\ ~q.pending
          /\ q.mode = r1.mode /\ q.job = r1.job /\ q.op = r1.op /\ q.active = r1.active
          /\ q.resume = r1.resume /\ q.cur = r1.cur /\ q.gen = r1.gen
      BY <1>4 DEF Stores
    <2> HIDE DEF q
    <2>4. ScanOK(fl, k, n + 1, q) BY <1>5, <1>7, <1>8, <1>9, <2>2, <2>3 DEF ScanOK, DirectoryOK
    <2> QED BY <2>1, <2>4 DEF q
  <1>13. CASE e.type \in {"confirmed", "progress", "discard"} /\ Restorable(r1, s)
    <2>1. Replayed(r, e) = [r1 EXCEPT !.dir = Replace(@, s), !.reclaim = s, !.pending = TRUE,
                                      !.foreign = (e.type = "discard")]
      BY <1>13 DEF Replayed, Counted
    <2>2. s \in Finals BY <1>2, <1>13 DEF OfFinals
    <2>3. Restorable(r1, s) BY <1>13
    <2>4. s.confirmed /\ Recalled(fl, k, n + 1, s.id) /\ s.id < r1.nextId
      BY <1>2, <1>6, <1>13
    <2> HIDE DEF s, r1
    <2>5. /\ Replace(r1.dir, s) \in SUBSET Finals
          /\ IsFiniteSet(Replace(r1.dir, s)) /\ Cardinality(Replace(r1.dir, s)) <= MaxSessions
          /\ Separate(Replace(r1.dir, s))
          /\ s \in Replace(r1.dir, s)
          /\ \A d \in Replace(r1.dir, s) : d = s \/ (d \in r1.dir /\ d.id # s.id)
      BY <1>9, <2>2, <2>3, DirectoryPut DEF Restorable
    <2> DEFINE q == [r1 EXCEPT !.dir = Replace(@, s), !.reclaim = s, !.pending = TRUE,
                               !.foreign = (e.type = "discard")]
    <2>6. q \in Stores BY <1>4, <2>2, <2>5 DEF Stores
    <2>7. /\ q.dir = Replace(r1.dir, s) /\ q.nextId = r1.nextId /\ q.reclaim = s
          /\ q.mode = r1.mode /\ q.job = r1.job /\ q.op = r1.op /\ q.active = r1.active
          /\ q.resume = r1.resume /\ q.cur = r1.cur /\ q.gen = r1.gen
      BY <1>4 DEF Stores
    <2> HIDE DEF q
    <2>8. DirectoryOK(q) BY <1>9, <2>4, <2>5, <2>7 DEF DirectoryOK
    <2>9. \A d \in q.dir : d.confirmed /\ Recalled(fl, k, n + 1, d.id)
      BY <1>8, <2>4, <2>5, <2>7
    <2>10. ScanOK(fl, k, n + 1, q)
      BY <1>5, <1>7, <2>5, <2>6, <2>7, <2>8, <2>9 DEF ScanOK
    <2> QED BY <2>1, <2>10 DEF q
  <1>14. CASE e.type = "reclaimed" /\ Readable(s)
    <2>1. Replayed(r, e) = [r1 EXCEPT !.tomb = s, !.dir = {d \in @ : d.id # s.id},
                                      !.pending = @ /\ ~same, !.foreign = @ /\ ~same]
      BY <1>14 DEF Replayed, Counted
    <2>2. s \in Finals BY <1>2, <1>14 DEF OfFinals
    <2>3. same <=> r1.pending /\ r1.reclaim.id = s.id OBVIOUS
    <2>4. same \in BOOLEAN OBVIOUS
    <2> DEFINE left == {d \in r1.dir : d.id # s.id}
    <2> HIDE DEF s, r1, same
    <2>5. left \subseteq r1.dir OBVIOUS
    <2>6. IsFiniteSet(left) /\ Cardinality(left) <= Cardinality(r1.dir)
      BY <1>9, <2>5, FS_Subset
    <2>7. Cardinality(left) <= MaxSessions
      <3>1. Cardinality(left) \in Nat /\ Cardinality(r1.dir) \in Nat
        BY <1>9, <2>6, FS_CardinalityType
      <3> QED BY <1>9, <2>6, <3>1, Sizes
    <2>8. Separate(left) BY <1>9, <2>5 DEF Separate
    <2> DEFINE q == [r1 EXCEPT !.tomb = s, !.dir = {d \in @ : d.id # s.id},
                               !.pending = @ /\ ~same, !.foreign = @ /\ ~same]
    <2>9. q \in Stores
      <3>1. left \in SUBSET Finals BY <1>9, <2>5
      <3>2. PICK b \in BOOLEAN : b = (r1.pending /\ ~same) OBVIOUS
      <3>3. PICK c \in BOOLEAN : c = (r1.foreign /\ ~same) OBVIOUS
      <3>4. q = [r1 EXCEPT !.tomb = s, !.dir = left, !.pending = b, !.foreign = c]
        BY <3>2, <3>3
      <3>5. [r1 EXCEPT !.tomb = s, !.dir = left, !.pending = b, !.foreign = c] \in Stores
        <4> HIDE DEF left, q
        <4> QED BY <1>4, <2>2, <3>1 DEF Stores
      <3> HIDE DEF q
      <3> QED BY <3>4, <3>5
    <2>10. /\ q.dir = left /\ q.nextId = r1.nextId /\ q.reclaim = r1.reclaim
           /\ q.mode = r1.mode /\ q.job = r1.job /\ q.op = r1.op /\ q.active = r1.active
           /\ q.resume = r1.resume /\ q.cur = r1.cur /\ q.gen = r1.gen
      BY <1>4 DEF Stores
    <2>11. q.pending = (r1.pending /\ ~same) BY <1>4 DEF Stores
    <2>12. q.pending => r1.reclaim \in r1.dir /\ r1.reclaim.id # s.id
      BY <1>11, <2>3, <2>11
    <2> HIDE DEF q
    <2>13. DirectoryOK(q) BY <1>9, <2>5, <2>6, <2>7, <2>8, <2>10 DEF DirectoryOK
    <2>14. \A d \in q.dir : d.confirmed /\ Recalled(fl, k, n + 1, d.id) BY <1>8, <2>5, <2>10
    <2>15. ScanOK(fl, k, n + 1, q)
      BY <1>5, <1>7, <2>9, <2>10, <2>12, <2>13, <2>14 DEF ScanOK
    <2> QED BY <2>1, <2>15 DEF q
  <1>15. CASE e.type = "purge_done"
    <2>1. Replayed(r, e) = [r1 EXCEPT !.purge = NoUser] BY <1>15 DEF Replayed, Counted
    <2> HIDE DEF s, r1
    <2> DEFINE q == [r1 EXCEPT !.purge = NoUser]
    <2>2. q \in Stores BY <1>4, <1>10 DEF Stores
    <2>3. /\ q.dir = r1.dir /\ q.nextId = r1.nextId /\ q.pending = r1.pending
          /\ q.mode = r1.mode /\ q.job = r1.job /\ q.op = r1.op /\ q.active = r1.active
          /\ q.resume = r1.resume /\ q.cur = r1.cur /\ q.gen = r1.gen /\ q.reclaim = r1.reclaim
      BY <1>4 DEF Stores
    <2> HIDE DEF q
    <2>4. ScanOK(fl, k, n + 1, q)
      BY <1>5, <1>7, <1>8, <1>9, <1>11, <2>2, <2>3 DEF ScanOK, DirectoryOK
    <2> QED BY <2>1, <2>4 DEF q
  <1>16. CASE e.type \in {"open", "checkpoint", "final"}
    <2>1. Replayed(r, e) = r1 BY <1>16 DEF Replayed, Counted
    <2> HIDE DEF s, r1
    <2>2. ScanOK(fl, k, n + 1, r1)
      BY <1>4, <1>5, <1>7, <1>8, <1>9, <1>11 DEF ScanOK, DirectoryOK
    <2> QED BY <2>1, <2>2
  <1>17. CASE \/ e.type \in {"confirmed", "progress", "discard"} /\ ~Restorable(r1, s)
              \/ e.type = "reclaimed" /\ ~Readable(s)
    <2>1. Replayed(r, e) = Failed BY <1>17 DEF Replayed, Counted
    <2> QED BY <2>1
  <1> QED
    BY <1>1, <1>12, <1>13, <1>14, <1>15, <1>16, <1>17 DEF EntryTypes, Counted

LEMMA FromHeaderGoes ==
  ASSUME NEW fl \in [Chip -> PageSet], NEW k \in 0 .. 1, IsHeader(fl[Bank(k)])
  PROVE  ScanOK(fl, k, 1, FromHeader(fl, k))
  <1> DEFINE h == fl[Bank(k)]
             r == FromHeader(fl, k)
  <1>1. h \in HeaderPages
    <2>1. Bank(k) \in Chip
      <3>1. Bank(k) + 0 \in Chip /\ Bank(k) \in Nat BY BankAddresses, Sizes
      <3> QED BY <3>1
    <2>2. h \in PageSet BY <2>1
    <2> QED BY <2>2, PageKinds DEF IsHeader
  <1>2. /\ h.gen \in Nat /\ h.nextId \in 1 .. IdLimit /\ h.purge \in Owners
        /\ SnapshotSize(h) \in 0 .. MaxSessions + 1 /\ h.runtime \in BOOLEAN
    BY <1>1, Sizes DEF HeaderPages, SnapshotSize
  <1>3. Off \in Stores BY LostOrFailed, StoreParts
  <1>4. r = [Off EXCEPT !.mode = "recovering", !.job = "scan", !.cur = k,
                        !.gen = h.gen, !.nextId = h.nextId, !.purge = h.purge,
                        !.snap = SnapshotSize(h), !.runtime = h.runtime]
    BY DEF FromHeader
  <1> HIDE DEF h
  <1>5. r \in Stores
    <2>1. "scan" \in Jobs BY DEF Jobs
    <2>2. PICK g \in Nat, i \in 1 .. IdLimit, u \in Owners, n \in 0 .. MaxSessions + 1, t \in BOOLEAN :
            /\ g = h.gen /\ i = h.nextId /\ u = h.purge /\ n = SnapshotSize(h)
            /\ t = h.runtime
      BY <1>2
    <2>3. r = [Off EXCEPT !.mode = "recovering", !.job = "scan", !.cur = k, !.gen = g,
                          !.nextId = i, !.purge = u, !.snap = n, !.runtime = t]
      BY <1>4, <2>2
    <2> HIDE DEF r
    <2>4. [Off EXCEPT !.mode = "recovering", !.job = "scan", !.cur = k, !.gen = g,
                      !.nextId = i, !.purge = u, !.snap = n, !.runtime = t] \in Stores
      BY <1>3, <2>1 DEF Stores
    <2> QED BY <2>3, <2>4
  <1>6. /\ r.mode = "recovering" /\ r.job = "scan" /\ r.op = Idle /\ ~r.active
        /\ r.resume = "none" /\ r.cur = k /\ r.gen = h.gen /\ r.dir = {} /\ ~r.pending
        /\ r.nextId = h.nextId
    BY <1>4 DEF Off
  <1> HIDE DEF r
  <1>7. DirectoryOK(r)
    <2>1. IsFiniteSet(r.dir) /\ Cardinality(r.dir) = 0 BY <1>6, FS_EmptySet
    <2> QED BY <1>6, <2>1, Sizes DEF DirectoryOK, Separate
  <1>8. \A id \in Ids : Recalled(fl, k, 1, id) => id < r.nextId
    <2>1. \A j \in 1 .. 1 - 1 : FALSE OBVIOUS
    <2> QED BY <1>6, <2>1 DEF Recalled, h
  <1> QED BY <1>5, <1>6, <1>7, <1>8 DEF ScanOK, r, Generation, h

LEMMA AfterGoes ==
  ASSUME NEW fl \in [Chip -> PageSet], NEW k \in 0 .. 1, JournalOK(fl, k),
         NEW n \in 0 .. Stop(fl, k) - 1
  PROVE  After(fl, k)[n] = Failed \/ ScanOK(fl, k, n + 1, After(fl, k)[n])
  <1> DEFINE f == After(fl, k)
             Good(i) == f[i] = Failed \/ ScanOK(fl, k, i + 1, f[i])
             Bad == {i \in Nat : i <= n /\ ~Good(i)}
  <1>1. PICK stop \in 1 .. BankPages : stop = Stop(fl, k) BY StopIs
  <1>2. Good(0)
    <2>1. f[0] = FromHeader(fl, k) BY AfterUnfolds
    <2>2. ScanOK(fl, k, 0 + 1, f[0]) BY <2>1, FromHeaderGoes DEF JournalOK
    <2> QED BY <2>2
  <1>3. ASSUME NEW i \in Nat, i + 1 <= n, Good(i) PROVE Good(i + 1)
    <2>1. /\ i \in 0 .. BankPages - 1 /\ i + 1 \in 1 .. stop - 1 /\ i + 1 \in 0 .. BankPages - 1
          /\ i + 1 \in Nat \ {0}
      BY <1>1, <1>3, Sizes
    <2>2. f[i + 1] = IF f[i].mode = "error" THEN f[i]
                     ELSE Replayed(f[i], fl[Bank(k) + (i + 1)])
      BY <2>1, AfterUnfolds
    <2>3. CASE f[i] = Failed
      <3>1. f[i].mode = "error" BY <2>3 DEF Failed, Off
      <3> QED BY <2>2, <2>3, <3>1
    <2>4. CASE ScanOK(fl, k, i + 1, f[i])
      <3>1. f[i].mode # "error" BY <2>4 DEF ScanOK
      <3> DEFINE e == fl[Bank(k) + (i + 1)]
      <3>2. IsEntry(e) BY <1>1, <2>1, StopIs
      <3>3. e \in Entries
        <4>1. Bank(k) + (i + 1) \in Chip BY <2>1, BankAddresses
        <4>2. e \in PageSet BY <4>1
        <4> QED BY <3>2, <4>2, PageKinds DEF IsEntry, Entries
      <3>4. e.type = "progress" => Recalled(fl, k, i + 1, e.s.id)
        BY <1>1, <2>1 DEF JournalOK
      <3>5. f[i + 1] = Replayed(f[i], e) BY <2>2, <3>1
      <3> HIDE DEF e, f
      <3> QED BY <2>1, <2>4, <3>3, <3>4, <3>5, ReplayedGoes DEF e
    <2> QED BY <1>3, <2>3, <2>4
  <1> HIDE DEF Good
  <1>4. Bad = {}
    <2> SUFFICES ASSUME Bad # {} PROVE FALSE OBVIOUS
    <2>1. Min(Bad) \in Bad /\ \A y \in Bad : Min(Bad) <= y BY MinIs
    <2>2. PICK b \in Nat : b <= n /\ ~Good(b) /\ \A y \in Bad : b <= y BY <2>1
    <2>3. b # 0 BY <1>2, <2>2
    <2>4. b - 1 \in Nat /\ ~(b <= b - 1) /\ (b - 1) + 1 = b BY <2>3
    <2>5. b - 1 <= n
      <3>1. PICK z \in Nat : z = n BY <1>1
      <3> QED BY <2>2, <2>3, <3>1
    <2>6. Good(b - 1) BY <2>2, <2>4, <2>5
    <2>7. Good(b) BY <1>3, <2>2, <2>4, <2>6
    <2> QED BY <2>2, <2>7
  <1>5. n \in Nat /\ n <= n BY <1>1
  <1>6. Good(n) BY <1>4, <1>5
  <1> QED BY <1>6 DEF Good

LEMMA CurrentIs ==
  ASSUME NEW fl, NEW k \in 0 .. 1, JournalOK(fl, k),
         \A j \in 0 .. 1 : IsHeader(fl[Bank(j)]) => Generation(fl, j) \in Nat
  PROVE  CurrentBank(fl) = k
  <1>1. k \in ValidBanks(fl) BY DEF ValidBanks, JournalOK
  <1>2. CASE k = 0
    <2>1. 1 \in ValidBanks(fl) => Generation(fl, 1) < Generation(fl, 0)
      BY <1>2 DEF ValidBanks, JournalOK
    <2>2. 1 \in ValidBanks(fl) => ~(Generation(fl, 1) > Generation(fl, 0))
      BY <1>1, <1>2, <2>1 DEF ValidBanks
    <2> QED BY <1>1, <1>2, <2>2 DEF CurrentBank
  <1>3. CASE k = 1
    <2>1. 0 \in ValidBanks(fl) => Generation(fl, 0) < Generation(fl, 1)
      BY <1>3 DEF ValidBanks, JournalOK
    <2>2. 0 \in ValidBanks(fl) => Generation(fl, 1) > Generation(fl, 0)
      BY <1>1, <1>3, <2>1 DEF ValidBanks
    <2> QED BY <1>1, <1>3, <2>2 DEF CurrentBank
  <1> QED BY <1>2, <1>3

\* A boot finds the store in order whatever the Flash was left with.
LEMMA ReplayGoes ==
  ASSUME NEW fl, FlashOK(fl)
  PROVE  StoreOK(fl, Replay(fl))
  <1>1. fl \in [Chip -> PageSet] BY DEF FlashOK
  <1>2. PICK k \in 0 .. 1 : JournalOK(fl, k) BY DEF FlashOK
  <1>3. \A j \in 0 .. 1 : IsHeader(fl[Bank(j)]) => Generation(fl, j) \in Nat
    <2> TAKE j \in 0 .. 1
    <2>1. Bank(j) + 0 \in Chip /\ Bank(j) \in Nat BY BankAddresses, Sizes
    <2>2. fl[Bank(j)] \in PageSet BY <1>1, <2>1
    <2> QED BY <2>2, PageKinds DEF IsHeader, Generation, HeaderPages
  <1>4. CurrentBank(fl) = k BY <1>2, <1>3, CurrentIs
  <1>5. PICK stop \in 1 .. BankPages : stop = Stop(fl, k) BY StopIs
  <1>6. stop - 1 \in 0 .. stop - 1 /\ (stop - 1) + 1 = stop OBVIOUS
  <1> DEFINE last == After(fl, k)[stop - 1]
             next == IF stop < BankPages /\ fl[Bank(k) + stop] = Blank
                     THEN stop ELSE BankPages
             r == [last EXCEPT !.next = next]
  <1>7. last = Failed \/ ScanOK(fl, k, stop, last) BY <1>1, <1>2, <1>5, <1>6, AfterGoes
  <1>8. Replay(fl) = Failed \/ (last.mode # "error" /\ Replay(fl) = r)
    BY <1>4, <1>5 DEF Replay
  <1>9. last = Failed => last.mode = "error" BY DEF Failed, Off
  <1>10. ASSUME ScanOK(fl, k, stop, last) PROVE StoreOK(fl, r)
    <2> HIDE DEF last
    <2>1. next \in 1 .. BankPages BY <1>5, Sizes
    <2>2. next < BankPages => next = stop /\ fl[Bank(k) + next] = Blank BY <1>5, Sizes
    <2> HIDE DEF next
    <2>3. last \in Stores BY <1>10 DEF ScanOK
    <2>4. r \in Stores BY <2>1, <2>3 DEF Stores
    <2>5. /\ r.dir = last.dir /\ r.nextId = last.nextId /\ r.pending = last.pending
          /\ r.mode = last.mode /\ r.job = last.job /\ r.op = last.op /\ r.active = last.active
          /\ r.resume = last.resume /\ r.cur = last.cur /\ r.gen = last.gen
          /\ r.reclaim = last.reclaim /\ r.next = next
      BY <2>3 DEF Stores
    <2> HIDE DEF r
    <2>6. Base(r) BY <1>10, <2>4, <2>5 DEF Base, ScanOK, DirectoryOK
    <2>7. /\ r.mode = "recovering" /\ r.job = "scan" /\ r.op = Idle /\ ~r.active
          /\ r.resume = "none" /\ r.cur = k /\ r.gen = Generation(fl, k)
      BY <1>10, <2>5 DEF ScanOK
    <2>8. JobOK(r) BY <2>7 DEF JobOK, JournalJobs, RotationJobs, PageJobs, Releases
    <2>9. /\ r.pending => r.reclaim \in r.dir
          /\ \A s \in r.dir : s.confirmed /\ Recalled(fl, k, stop, s.id)
      BY <1>10, <2>5 DEF ScanOK
    <2>10. ExtentsOK(r)
      BY <2>7, <2>9 DEF ExtentsOK, RecordingOK, Recording, HeadOK, ReclaimOK, PendingOK,
                        JournalJobs, RotationJobs
    <2>11. CursorOK(fl, r) BY <1>2, <1>5, <2>2, <2>5, <2>7, <2>9 DEF CursorOK, Writing
    <2>12. RotationOK(fl, r) BY <2>7 DEF RotationOK
    <2> QED BY <2>6, <2>8, <2>10, <2>11, <2>12 DEF StoreOK
  <1> HIDE DEF r, last
  <1> QED BY <1>7, <1>8, <1>9, <1>10, LostOrFailed

-----------------------------------------------------------------------------
(* The walk over the result area.                                            *)

AreaOperations ==
    {o \in Operations \ {Idle} : /\ o.do = "program" => o.at < Pages
                                 /\ o.do = "erase" => o.upto < Pages}
Found == {s \in Finals : ~s.confirmed}

LEMMA EventCountIs ==
  ASSUME NEW fl, NEW begin \in Nat, NEW id
  PROVE  /\ EventCount(fl, begin, id) \in 0 .. Pages
         /\ \A k \in 0 .. EventCount(fl, begin, id) - 1 : EventAt(fl, begin, id, k)
         /\ ~EventAt(fl, begin, id, EventCount(fl, begin, id))
  <1> DEFINE S == {n \in Nat : ~EventAt(fl, begin, id, n)}
  <1>1. Pages \in S
    <2>1. Pages \in Nat BY Sizes
    <2>2. ~(begin + 1 + 2 * Pages + 2 <= Pages) BY <2>1
    <2> QED BY <2>1, <2>2 DEF EventAt, SlotFits, Slot
  <1>2. Min(S) \in S /\ \A y \in S : Min(S) <= y BY <1>1, MinIs
  <1>3. PICK n \in Nat : ~EventAt(fl, begin, id, n) /\ \A y \in S : n <= y BY <1>2
  <1>4. n \in 0 .. Pages BY <1>1, <1>3, Sizes
  <1>5. \A j \in 0 .. n - 1 : EventAt(fl, begin, id, j)
    <2> TAKE j \in 0 .. n - 1
    <2>1. j \in Nat /\ ~(n <= j) BY <1>3
    <2> QED BY <1>3, <2>1
  <1>6. /\ EventCount(fl, begin, id) \in 0 .. Pages
        /\ \A k \in 0 .. EventCount(fl, begin, id) - 1 : EventAt(fl, begin, id, k)
        /\ ~EventAt(fl, begin, id, EventCount(fl, begin, id))
    <2> DEFINE T(m) == m \in 0 .. Pages /\ (\A k \in 0 .. m - 1 : EventAt(fl, begin, id, k))
                       /\ ~EventAt(fl, begin, id, m)
    <2>1. T(n) BY <1>3, <1>4, <1>5
    <2>2. EventCount(fl, begin, id) = CHOOSE m : T(m) BY DEF EventCount
    <2> HIDE DEF T
    <2>3. T(EventCount(fl, begin, id)) BY <2>1, <2>2
    <2> QED BY <2>3 DEF T
  <1> QED BY <1>6

LEMMA RestartedIs ==
  ASSUME NEW id \in Ids, NEW u \in Users, NEW begin \in 0 .. Pages, NEW end \in 0 .. Pages,
         NEW n \in Nat, Sectored(begin), Sectored(end), begin < end
  PROVE  /\ [Session(id, u, begin, end, n) EXCEPT !.next = 0] \in Found
         /\ [Session(id, u, begin, end, n) EXCEPT !.next = 0].begin = begin
  <1> DEFINE s == Session(id, u, begin, end, n)
             r == [s EXCEPT !.next = 0]
  <1>1. /\ s.id = id /\ s.owner = u /\ s.begin = begin /\ s.end = end /\ ~s.confirmed
        /\ s \in Descriptions
    <2>1. id \in 0 .. IdLimit - 1 /\ u \in Owners BY Sizes DEF Ids, Owners
    <2> QED BY <2>1 DEF Session, Descriptions
  <1> HIDE DEF s
  <1>2. r \in Descriptions BY <1>1, Sizes DEF Descriptions
  <1>3. /\ r.id = id /\ r.owner = u /\ r.begin = begin /\ r.end = end /\ ~r.confirmed
        /\ r.next = 0
    BY <1>1 DEF Descriptions
  <1> HIDE DEF r
  <1>4. 0 <= end /\ Sectored(0) BY SectorSteps
  <1>5. r \in Finals BY <1>2, <1>3, <1>4 DEF Finals
  <1> QED BY <1>3, <1>5 DEF r, s, Found

\* What recovery accepts is a session with its END, or with room for it.
LEMMA ReadSessionIs ==
  ASSUME NEW fl \in [Chip -> PageSet], NEW begin \in Nat, Sectored(begin), begin < Pages,
         fl[begin].kind = "begin", ReadSession(fl, begin).ok
  PROVE  /\ ReadSession(fl, begin).s \in Found
         /\ ReadSession(fl, begin).s.begin = begin
         /\ ReadSession(fl, begin).repair \in Seq(AreaOperations)
  <1> DEFINE id    == fl[begin].id
             n     == EventCount(fl, begin, id)
             a     == Slot(begin, n)
             dirty == DirtySpan(fl, a)
             final == AlignUp(a + dirty)
             last  == final + SectorPages - 1
             ends  == {p \in final .. last : fl[p] # Blank}
             whole == {p \in ends : fl[p].ok}
             free  == (final .. last) \ ends
             s     == [Session(id, fl[begin].owner, begin, last + 1, n) EXCEPT !.next = 0]
             repair == IF whole # {} THEN <<>>
                       ELSE <<Program(CHOOSE p \in free : \A q \in free : p <= q,
                                      EndPage(id, n))>>
  <1>1. /\ SlotFits(begin, n) /\ last < Pages /\ (whole # {} \/ free # {})
        /\ ReadSession(fl, begin).s = s /\ ReadSession(fl, begin).repair = repair
    BY DEF ReadSession
  <1>2. id \in Ids /\ fl[begin].owner \in Users
    <2>1. begin \in Chip BY Sizes DEF Chip
    <2>2. fl[begin] \in BeginPages BY <2>1, PageKinds
    <2> QED BY <2>2 DEF BeginPages
  <1>3. n \in 0 .. Pages BY EventCountIs
  <1> HIDE DEF id, n
  <1>4. a \in Nat /\ begin < a BY <1>3 DEF Slot
  <1>5. dirty \in {0, 2} BY DEF DirtySpan
  <1> HIDE DEF a, dirty
  <1>6. a + dirty \in Nat /\ begin < a + dirty BY <1>4, <1>5
  <1>7. AlignUp(a + dirty) \in Nat BY <1>6, AlignUpIs
  <1>8. PICK f \in Nat : f = final BY <1>7
  <1>9. last + 1 = f + SectorPages BY <1>8, Sizes
  <1>10. AlignUp(a + dirty) + SectorPages <= Pages BY <1>1, <1>8, Sizes
  <1>11. /\ Sectored(f + SectorPages) /\ f + SectorPages \in 0 .. Pages
         /\ begin < f + SectorPages
    <2>1. Sectored(f + SectorPages) /\ a + dirty <= f
      BY <1>6, <1>8, <1>10, AlignUpWithRoom
    <2>2. f + SectorPages \in 0 .. Pages BY <2>1, SectorSteps
    <2> QED BY <1>6, <1>8, <2>1, <2>2, Sizes
  <1> HIDE DEF final
  <1>12. PICK e \in 0 .. Pages : e = last + 1 /\ Sectored(e) /\ begin < e
    BY <1>9, <1>11
  <1>13. s = [Session(id, fl[begin].owner, begin, e, n) EXCEPT !.next = 0] BY <1>12
  <1> HIDE DEF s
  <1>14. s \in Found /\ s.begin = begin
    <2>1. begin \in 0 .. Pages /\ n \in Nat BY <1>3, Sizes
    <2> QED BY <1>2, <1>12, <1>13, <2>1, RestartedIs
  <1>15. repair \in Seq(AreaOperations)
    <2>1. CASE whole # {} BY <2>1
    <2>2. CASE whole = {}
      <3>1. free # {} BY <1>1, <2>2
      <3>2. last \in Nat /\ final \in Nat BY <1>8, Sizes
      <3>3. free \subseteq Nat BY <3>2
      <3>4. Min(free) \in free /\ \A q \in free : Min(free) <= q BY <3>1, <3>3, MinIs
      <3> DEFINE p == CHOOSE p \in free : \A q \in free : p <= q
      <3>5. p \in free BY <3>4
      <3> HIDE DEF p
      <3>6. p \in Nat /\ p <= last BY <3>2, <3>5
      <3>7. p \in Chip /\ p < Pages
        <4>1. PICK l \in Nat : l = last /\ l < Pages /\ p <= l BY <1>1, <3>2, <3>6
        <4>2. p < Pages BY <3>6, <4>1, Sizes
        <4>3. p \in 0 .. Pages + 2 * BankPages - 1 BY <3>6, <4>2, Sizes
        <4> QED BY <4>2, <4>3 DEF Chip
      <3>8. EndPage(id, n) \in PageSet BY <1>2, <1>3 DEF EndPage, PageSet, EndPages
      <3>9. Program(p, EndPage(id, n)) \in AreaOperations
        BY <3>7, <3>8 DEF AreaOperations, Operations, Program, Idle
      <3>10. repair = <<Program(p, EndPage(id, n))>> BY <2>2 DEF p
      <3> HIDE DEF repair
      <3> QED BY <3>9, <3>10
    <2> QED BY <2>1, <2>2
  <1> HIDE DEF repair
  <1> QED BY <1>1, <1>14, <1>15

\* From a session the walk goes on at a later sector, behind its END.
LEMMA WalkJumps ==
  ASSUME NEW fl \in [Chip -> PageSet], NEW i \in 0 .. Sectors - 1,
         fl[i * SectorPages].kind = "begin", ReadSession(fl, i * SectorPages).ok
  PROVE  /\ ReadSession(fl, i * SectorPages).s \in Found
         /\ ReadSession(fl, i * SectorPages).repair \in Seq(AreaOperations)
         /\ ReadSession(fl, i * SectorPages).s.end \div SectorPages \in i + 1 .. Sectors
  <1>1. i * SectorPages \in Nat /\ i * SectorPages < Pages /\ Sectored(i * SectorPages)
    <2>1. i * SectorPages \in Nat BY Sizes
    <2>2. (i + 1) * SectorPages <= Sectors * SectorPages BY Sizes, MulMono
    <2>3. (i + 1) * SectorPages = i * SectorPages + SectorPages BY Sizes
    <2>4. i \in 0 .. Sectors BY Sizes
    <2>5. i * SectorPages < Pages BY <2>1, <2>2, <2>3, Sizes DEF Pages
    <2> QED BY <2>1, <2>4, <2>5 DEF Sectored
  <1> DEFINE c == ReadSession(fl, i * SectorPages)
  <1>2. c.s \in Found /\ c.s.begin = i * SectorPages /\ c.repair \in Seq(AreaOperations)
    BY <1>1, ReadSessionIs
  <1> HIDE DEF c
  <1>3. c.s.begin < c.s.end /\ Sectored(c.s.end) BY <1>2 DEF Found, Finals
  <1>4. PICK j \in 0 .. Sectors : c.s.end = j * SectorPages BY <1>3 DEF Sectored
  <1>5. ~(j <= i)
    <2> SUFFICES ASSUME j <= i PROVE FALSE OBVIOUS
    <2>1. j * SectorPages <= i * SectorPages BY Sizes, MulMono
    <2>2. j * SectorPages \in Nat BY Sizes
    <2> QED BY <1>1, <1>2, <1>3, <1>4, <2>1, <2>2
  <1>6. (j * SectorPages) \div SectorPages = j BY Sizes, DivOfMultiple
  <1>7. j \in i + 1 .. Sectors BY <1>5, Sizes
  <1> QED BY <1>2, <1>4, <1>6, <1>7 DEF c

LEMMA WalkStepLocal ==
  ASSUME NEW fl \in [Chip -> PageSet], NEW claims, NEW i \in 0 .. Sectors - 1,
         NEW f, NEW g, \A j \in i + 1 .. Sectors : f[j] = g[j]
  PROVE  WalkStep(fl, claims, f, i) = WalkStep(fl, claims, g, i)
  <1> DEFINE c == ReadSession(fl, i * SectorPages)
  <1>1. i + 1 \in i + 1 .. Sectors BY Sizes
  <1>2. f[i + 1] = g[i + 1] BY <1>1
  <1>3. fl[i * SectorPages].kind = "begin" /\ c.ok
          => f[c.s.end \div SectorPages] = g[c.s.end \div SectorPages]
    BY WalkJumps
  <1>4. CASE fl[i * SectorPages].kind = "begin" /\ c.ok
    <2>1. f[c.s.end \div SectorPages] = g[c.s.end \div SectorPages] BY <1>3, <1>4
    <2> QED BY <1>2, <1>4, <2>1 DEF WalkStep
  <1>5. CASE ~(fl[i * SectorPages].kind = "begin" /\ c.ok) BY <1>2, <1>5 DEF WalkStep
  <1> QED BY <1>4, <1>5

WalkResults == [ok : BOOLEAN, found : Seq(Found), repair : Seq(AreaOperations)]

LEMMA WalkStepGoes ==
  ASSUME NEW fl \in [Chip -> PageSet], NEW claims, NEW i \in 0 .. Sectors - 1,
         NEW f, \A j \in i + 1 .. Sectors : f[j] \in WalkResults
  PROVE  WalkStep(fl, claims, f, i) \in WalkResults
  <1> DEFINE b       == i * SectorPages
             sector  == b .. b + SectorPages - 1
             owners  == {r \in claims : r.begin <= b /\ b < r.end}
             others  == \A p \in sector \ {b} : fl[p] = Blank
             c       == ReadSession(fl, b)
             refused == [ok |-> FALSE, found |-> <<>>, repair |-> <<>>]
             w       == f[c.s.end \div SectorPages]
             next    == f[i + 1]
             joined  == [ok |-> w.ok, found |-> <<c.s>> \o w.found,
                         repair |-> c.repair \o w.repair]
             erased  == [next EXCEPT !.repair = <<Erase(b, SectorPages)>> \o @]
  <1>1. i + 1 \in i + 1 .. Sectors BY Sizes
  <1>2. next \in WalkResults BY <1>1
  <1>3. refused \in WalkResults BY DEF WalkResults
  <1>4. fl[b].kind = "begin" /\ c.ok => joined \in WalkResults
    <2> SUFFICES ASSUME fl[b].kind = "begin", c.ok PROVE joined \in WalkResults OBVIOUS
    <2>1. c.s \in Found /\ c.repair \in Seq(AreaOperations) BY WalkJumps
    <2>2. w \in WalkResults BY WalkJumps
    <2> HIDE DEF c, w
    <2>3. w.ok \in BOOLEAN /\ w.found \in Seq(Found) /\ w.repair \in Seq(AreaOperations)
      BY <2>2 DEF WalkResults
    <2>4. <<c.s>> \in Seq(Found) BY <2>1
    <2>5. <<c.s>> \o w.found \in Seq(Found) BY <2>3, <2>4
    <2>6. c.repair \o w.repair \in Seq(AreaOperations) BY <2>1, <2>3
    <2> QED BY <2>3, <2>5, <2>6 DEF WalkResults
  <1>5. erased \in WalkResults
    <2>1. b \in Nat /\ b + SectorPages <= Pages
      <3>1. b \in Nat BY Sizes
      <3>2. (i + 1) * SectorPages <= Sectors * SectorPages BY Sizes, MulMono
      <3>3. (i + 1) * SectorPages = b + SectorPages BY Sizes
      <3> QED BY <3>1, <3>2, <3>3 DEF Pages
    <2> HIDE DEF b
    <2>2. b + SectorPages - 1 \in Nat /\ b <= b + SectorPages - 1
          /\ b + SectorPages - 1 < Pages
      BY <2>1, Sizes
    <2>3. Erase(b, SectorPages) \in AreaOperations
      BY <2>1, <2>2 DEF AreaOperations, Operations, Erase, Idle
    <2>4. next.repair \in Seq(AreaOperations) BY <1>2 DEF WalkResults
    <2>5. <<Erase(b, SectorPages)>> \in Seq(AreaOperations) BY <2>3
    <2>6. <<Erase(b, SectorPages)>> \o next.repair \in Seq(AreaOperations) BY <2>4, <2>5
    <2> HIDE DEF next
    <2> QED BY <1>2, <2>6 DEF WalkResults
  <1>6. WalkStep(fl, claims, f, i) =
          CASE owners # {} ->
                IF \A p \in sector, r \in owners : Reclaimable(fl[p], r)
                THEN next ELSE refused
          [] owners = {} /\ fl[b].kind = "begin" /\ fl[b].ok ->
                IF ~c.ok THEN refused ELSE joined
          [] owners = {} /\ fl[b] = Blank /\ others -> next
          [] owners = {} /\ fl[b].kind = "begin" /\ ~fl[b].ok /\ others -> erased
          [] OTHER -> refused
    BY DEF WalkStep
  <1> HIDE DEF joined, erased, refused, next, owners, others, c, sector
  <1>7. \/ WalkStep(fl, claims, f, i) \in {next, refused, erased}
        \/ /\ fl[b].kind = "begin" /\ c.ok
           /\ WalkStep(fl, claims, f, i) = joined
    BY <1>6
  <1> QED BY <1>2, <1>3, <1>4, <1>5, <1>7

\* What a step of the walk makes of the results behind it.
WalkFrom(fl, claims, walk, i) ==
    IF i = Sectors THEN [ok |-> TRUE, found |-> <<>>, repair |-> <<>>]
    ELSE WalkStep(fl, claims, walk, i)

LEMMA WalkFromLocal ==
  ASSUME NEW fl \in [Chip -> PageSet], NEW claims, NEW i \in 0 .. Sectors,
         NEW f, NEW g, \A j \in i + 1 .. Sectors : f[j] = g[j]
  PROVE  WalkFrom(fl, claims, f, i) = WalkFrom(fl, claims, g, i)
  <1>1. i # Sectors => i \in 0 .. Sectors - 1 BY Sizes
  <1> QED BY <1>1, WalkStepLocal DEF WalkFrom

\* As for After, from the last sector down.
LEMMA WalksExist ==
  ASSUME NEW fl \in [Chip -> PageSet], NEW claims
  PROVE  \E f : f = [i \in 0 .. Sectors |-> WalkFrom(fl, claims, f, i)]
  <1> DEFINE Upto(n) == \E f : f = [i \in Sectors - n .. Sectors |-> WalkFrom(fl, claims, f, i)]
             Bad == {n \in Nat : n <= Sectors /\ ~Upto(n)}
  <1>1. Upto(0)
    <2> DEFINE f == [i \in Sectors - 0 .. Sectors |->
                        [ok |-> TRUE, found |-> <<>>, repair |-> <<>>]]
    <2>1. \A i \in Sectors - 0 .. Sectors : i = Sectors BY Sizes
    <2> HIDE DEF f
    <2>2. \A i \in Sectors - 0 .. Sectors :
             WalkFrom(fl, claims, f, i) = [ok |-> TRUE, found |-> <<>>, repair |-> <<>>]
      BY <2>1 DEF WalkFrom
    <2>3. f = [i \in Sectors - 0 .. Sectors |-> WalkFrom(fl, claims, f, i)]
      BY <2>2 DEF f
    <2> QED BY <2>3
  <1>2. ASSUME NEW n \in Nat, n + 1 <= Sectors, Upto(n) PROVE Upto(n + 1)
    <2>1. PICK f : f = [i \in Sectors - n .. Sectors |-> WalkFrom(fl, claims, f, i)] BY <1>2
    <2>2. PICK low \in Nat : low = Sectors - (n + 1) BY <1>2, Sizes
    <2>3. Sectors - n = low + 1 BY <2>2, Sizes
    <2>4. f = [i \in low + 1 .. Sectors |-> WalkFrom(fl, claims, f, i)] BY <2>1, <2>3
    <2> DEFINE g == [i \in low .. Sectors |-> WalkFrom(fl, claims, f, i)]
    <2>5. \A i \in low + 1 .. Sectors : g[i] = f[i]
      <3>1. \A i \in low + 1 .. Sectors : i \in low .. Sectors BY <2>2, Sizes
      <3>2. \A i \in low + 1 .. Sectors : f[i] = WalkFrom(fl, claims, f, i) BY <2>4
      <3> QED BY <3>1, <3>2
    <2> HIDE DEF g
    <2>6. \A i \in low .. Sectors : WalkFrom(fl, claims, f, i) = WalkFrom(fl, claims, g, i)
      <3> TAKE i \in low .. Sectors
      <3>1. i \in 0 .. Sectors /\ \A j \in i + 1 .. Sectors : j \in low + 1 .. Sectors
        BY <2>2, Sizes
      <3>2. \A j \in i + 1 .. Sectors : f[j] = g[j] BY <2>5, <3>1
      <3> QED BY <3>1, <3>2, WalkFromLocal
    <2>7. g = [i \in low .. Sectors |-> WalkFrom(fl, claims, g, i)] BY <2>6 DEF g
    <2>8. \E h : h = [i \in Sectors - (n + 1) .. Sectors |-> WalkFrom(fl, claims, h, i)]
      BY <2>2, <2>7
    <2> QED BY <2>8
  <1> HIDE DEF Upto
  <1>3. Bad = {}
    <2> SUFFICES ASSUME Bad # {} PROVE FALSE OBVIOUS
    <2>1. Min(Bad) \in Bad /\ \A y \in Bad : Min(Bad) <= y BY MinIs
    <2>2. PICK b \in Nat : b <= Sectors /\ ~Upto(b) /\ \A y \in Bad : b <= y BY <2>1
    <2>3. b # 0 BY <1>1, <2>2
    <2>4. b - 1 \in Nat /\ ~(b <= b - 1) /\ (b - 1) + 1 = b /\ b - 1 <= Sectors
      BY <2>2, <2>3, Sizes
    <2>5. Upto(b - 1) BY <2>2, <2>4
    <2>6. Upto(b) BY <1>2, <2>2, <2>4, <2>5
    <2> QED BY <2>2, <2>6
  <1>4. Upto(Sectors) BY <1>3, Sizes
  <1>5. Sectors - Sectors = 0 BY Sizes
  <1> QED BY <1>4, <1>5 DEF Upto

LEMMA WalksUnfold ==
  ASSUME NEW fl \in [Chip -> PageSet], NEW claims, NEW i \in 0 .. Sectors
  PROVE  Walks(fl, claims)[i] = WalkFrom(fl, claims, Walks(fl, claims), i)
  <1> DEFINE f == Walks(fl, claims)
  <1>1. f = CHOOSE g : g = [j \in 0 .. Sectors |-> WalkFrom(fl, claims, g, j)]
    BY DEF Walks, WalkFrom
  <1>2. f = [j \in 0 .. Sectors |-> WalkFrom(fl, claims, f, j)] BY <1>1, WalksExist
  <1> HIDE DEF f
  <1>3. f[i] = WalkFrom(fl, claims, f, i) BY <1>2
  <1> QED BY <1>3 DEF f

LEMMA WalkGoes ==
  ASSUME NEW fl \in [Chip -> PageSet], NEW claims
  PROVE  Walk(fl, claims) \in WalkResults
  <1> DEFINE f == Walks(fl, claims)
             Good(n) == \A i \in Sectors - n .. Sectors : f[i] \in WalkResults
             Bad == {n \in Nat : n <= Sectors /\ ~Good(n)}
  <1>1. Good(0)
    <2> TAKE i \in Sectors - 0 .. Sectors
    <2>1. i = Sectors /\ i \in 0 .. Sectors BY Sizes
    <2>2. f[i] = WalkFrom(fl, claims, f, i) BY <2>1, WalksUnfold
    <2> HIDE DEF f
    <2> QED BY <2>1, <2>2 DEF WalkFrom, WalkResults
  <1>2. ASSUME NEW n \in Nat, n + 1 <= Sectors, Good(n) PROVE Good(n + 1)
    <2> TAKE i \in Sectors - (n + 1) .. Sectors
    <2>1. CASE i \in Sectors - n .. Sectors BY <1>2, <2>1
    <2>2. CASE i \notin Sectors - n .. Sectors
      <3>1. /\ i = Sectors - (n + 1) /\ i \in 0 .. Sectors /\ i # Sectors
            /\ i \in 0 .. Sectors - 1 /\ i + 1 = Sectors - n
        BY <1>2, <2>2, Sizes
      <3>2. \A j \in i + 1 .. Sectors : f[j] \in WalkResults
        <4> HIDE DEF f
        <4> QED BY <1>2, <3>1
      <3>3. f[i] = WalkFrom(fl, claims, f, i) BY <3>1, WalksUnfold
      <3> HIDE DEF f
      <3>4. WalkStep(fl, claims, f, i) \in WalkResults BY <3>1, <3>2, WalkStepGoes
      <3> QED BY <3>1, <3>3, <3>4 DEF WalkFrom
    <2> QED BY <2>1, <2>2
  <1> HIDE DEF Good
  <1>3. Bad = {}
    <2> SUFFICES ASSUME Bad # {} PROVE FALSE OBVIOUS
    <2>1. Min(Bad) \in Bad /\ \A y \in Bad : Min(Bad) <= y BY MinIs
    <2>2. PICK b \in Nat : b <= Sectors /\ ~Good(b) /\ \A y \in Bad : b <= y BY <2>1
    <2>3. b # 0 BY <1>1, <2>2
    <2>4. b - 1 \in Nat /\ ~(b <= b - 1) /\ (b - 1) + 1 = b /\ b - 1 <= Sectors
      BY <2>2, <2>3, Sizes
    <2>5. Good(b - 1) BY <2>2, <2>4
    <2>6. Good(b) BY <1>2, <2>2, <2>4, <2>5
    <2> QED BY <2>2, <2>6
  <1>4. Good(Sectors) BY <1>3, Sizes
  <1>5. 0 \in Sectors - Sectors .. Sectors BY Sizes
  <1>6. f[0] \in WalkResults BY <1>4, <1>5 DEF Good
  <1> QED BY <1>6 DEF Walk

LEMMA ToSetIs ==
  ASSUME NEW S, NEW q \in Seq(S)
  PROVE  /\ ToSet(q) \subseteq S /\ IsFiniteSet(ToSet(q))
         /\ Cardinality(ToSet(q)) <= Len(q)
  <1>1. PICK n \in Nat : n = Len(q) OBVIOUS
  <1>2. q \in [1 .. n -> ToSet(q)] /\ ToSet(q) \subseteq S BY <1>1 DEF ToSet
  <1>3. q \in Surjection(1 .. n, ToSet(q)) BY <1>1, <1>2 DEF Surjection, ToSet
  <1>4. IsFiniteSet(1 .. n) /\ Cardinality(1 .. n) = n
    <2>1. 1 \in Int /\ n \in Int OBVIOUS
    <2>2. Cardinality(1 .. n) = IF 1 > n THEN 0 ELSE n - 1 + 1 BY <2>1, FS_Interval
    <2> QED BY <2>1, <2>2, FS_Interval
  <1>5. IsFiniteSet(ToSet(q)) /\ Cardinality(ToSet(q)) <= Cardinality(1 .. n)
    BY <1>3, <1>4, FS_Surjection
  <1> QED BY <1>1, <1>2, <1>4, <1>5

\* The directory that a scan accepts.
LEMMA ScannedIs ==
  ASSUME NEW m, Base(m), NEW w \in WalkResults, Scanned(m, w).ok
  PROVE  LET c == Scanned(m, w)
         IN  /\ c.dir \in SUBSET Finals /\ m.dir \subseteq c.dir
             /\ IsFiniteSet(c.dir) /\ Cardinality(c.dir) <= MaxSessions /\ Separate(c.dir)
             /\ c.nextId \in 1 .. IdLimit /\ m.nextId <= c.nextId
             /\ \A s \in c.dir : s.id < c.nextId
             /\ \A s \in c.dir : s.confirmed => s \in m.dir
  <1> DEFINE c     == Scanned(m, w)
             found == ToSet(w.found)
             dir   == m.dir \cup found
             ids   == {s.id + 1 : s \in found} \cup {m.nextId}
  <1>1. /\ Cardinality(m.dir) + Len(w.found) <= MaxSessions
        /\ \A s \in found, d \in dir : s # d => s.id # d.id /\ ~Overlaps(s, d)
        /\ c.dir = dir /\ c.nextId = Max(ids)
    BY DEF Scanned
  <1>2. w.found \in Seq(Found) BY DEF WalkResults
  <1>3. /\ found \subseteq Found /\ IsFiniteSet(found) /\ Cardinality(found) <= Len(w.found)
        /\ Cardinality(found) \in Nat /\ Len(w.found) \in Nat
    BY <1>2, ToSetIs, FS_CardinalityType
  <1>4. /\ IsFiniteSet(m.dir) /\ Cardinality(m.dir) \in Nat /\ Separate(m.dir)
        /\ m.dir \in SUBSET Finals /\ m.nextId \in 1 .. IdLimit
        /\ \A s \in m.dir : s.id < m.nextId
    BY FS_CardinalityType DEF Base, DirectoryOK, Stores
  <1> HIDE DEF found, c
  <1>5. IsFiniteSet(dir) /\ Cardinality(dir) <= MaxSessions
    <2>1. /\ IsFiniteSet(dir)
          /\ Cardinality(dir) = Cardinality(m.dir) + Cardinality(found)
                                  - Cardinality(m.dir \cap found)
      BY <1>3, <1>4, FS_Union
    <2>2. IsFiniteSet(m.dir \cap found) BY <1>4, FS_Intersection
    <2>3. Cardinality(m.dir \cap found) \in Nat BY <2>2, FS_CardinalityType
    <2>4. PICK x \in Nat, y \in Nat, z \in Nat, l \in Nat :
            /\ x = Cardinality(m.dir) /\ y = Cardinality(found) /\ l = Len(w.found)
            /\ z = Cardinality(m.dir \cap found)
      BY <1>3, <1>4, <2>3
    <2>5. x + y - z <= MaxSessions
      <3>1. x + l <= MaxSessions /\ y <= l BY <1>1, <1>3, <2>4
      <3> QED BY <3>1, Sizes
    <2> QED BY <2>1, <2>4, <2>5
  <1>6. Separate(dir)
    <2>1. \A a, b \in Finals : Overlaps(a, b) => Overlaps(b, a) BY DEF Overlaps
    <2>2. \A s \in dir : s \in Finals BY <1>3, <1>4 DEF Found
    <2> SUFFICES ASSUME NEW s \in dir, NEW d \in dir, s # d
                 PROVE  s.id # d.id /\ ~Overlaps(s, d)
      BY DEF Separate
    <2>3. CASE s \in found BY <1>1, <2>3
    <2>4. CASE d \in found
      <3>1. d.id # s.id /\ ~Overlaps(d, s) BY <1>1, <2>4
      <3> QED BY <2>1, <2>2, <3>1
    <2>5. CASE s \in m.dir /\ d \in m.dir BY <1>4, <2>5 DEF Separate
    <2> QED BY <2>3, <2>4, <2>5
  <1>7. \A s \in found : s.id \in Nat /\ s.id + 1 \in 0 .. IdLimit
    BY <1>3, Sizes DEF Found, Finals, Ids
  <1>8. ids \subseteq 0 .. IdLimit
    <2>1. m.nextId \in 0 .. IdLimit BY <1>4, Sizes
    <2> QED BY <1>7, <2>1
  <1>9. Max(ids) \in ids /\ \A y \in ids : y <= Max(ids) BY <1>8, Sizes, MaxIs
  <1>10. PICK top \in 0 .. IdLimit : top = Max(ids) /\ \A y \in ids : y <= top
    BY <1>8, <1>9
  <1>11. m.nextId <= top /\ top \in 1 .. IdLimit
    <2>1. m.nextId \in ids OBVIOUS
    <2>2. m.nextId <= top BY <1>10, <2>1
    <2> QED BY <1>4, <1>10, <2>2, Sizes
  <1>12. ASSUME NEW s \in dir PROVE s.id < top
    <2>1. CASE s \in m.dir
      <3>1. s.id < m.nextId /\ s.id \in Nat BY <1>4, <2>1, Sizes DEF Finals, Ids
      <3> QED BY <1>4, <1>10, <1>11, <3>1
    <2>2. CASE s \in found
      <3>1. s.id + 1 \in ids BY <2>2
      <3>2. s.id + 1 <= top BY <1>10, <3>1
      <3> QED BY <1>7, <1>10, <2>2, <3>2
    <2> QED BY <2>1, <2>2
  <1>13. \A s \in dir : s.confirmed => s \in m.dir BY <1>3 DEF Found
  <1>14. dir \in SUBSET Finals BY <1>3, <1>4 DEF Found
  <1>15. c.nextId = top /\ c.dir = dir BY <1>1, <1>10
  <1> HIDE DEF dir, ids
  <1>16. m.dir \subseteq dir BY DEF dir
  <1> QED BY <1>5, <1>6, <1>11, <1>12, <1>13, <1>14, <1>15, <1>16 DEF c

\* The boot goes on with the release that the journal left, or is complete.
LEMMA RecoveryGoes ==
  ASSUME NEW fl, NEW m, StoreOK(fl, m), m.job = "scan", NEW w \in WalkResults,
         Scanned(m, w).ok
  PROVE  StoreOK(fl, RecoveryComplete([m EXCEPT !.nextId = Scanned(m, w).nextId,
                                               !.dir = Scanned(m, w).dir]))
  <1> DEFINE c == Scanned(m, w)
             r == [m EXCEPT !.nextId = c.nextId, !.dir = c.dir]
             r1 == [r EXCEPT !.head = MaxEnd(r.dir)]
             r2 == [r1 EXCEPT !.pending = FALSE]
  <1>1. /\ m \in Stores /\ JobOK(m) /\ PendingOK(m) /\ Base(m) /\ DirectoryOK(m)
    BY StoreParts DEF Base
  <1>2. m.mode = "recovering" /\ m.op = Idle /\ m.resume = "none" /\ ~m.active
    BY <1>1 DEF JobOK, RotationJobs
  <1>3. CursorOK(fl, m) /\ RotationOK(fl, m) BY <1>2, StoreParts DEF Mounted
  <1>4. /\ c.dir \in SUBSET Finals /\ m.dir \subseteq c.dir
        /\ IsFiniteSet(c.dir) /\ Cardinality(c.dir) <= MaxSessions /\ Separate(c.dir)
        /\ c.nextId \in 1 .. IdLimit /\ m.nextId <= c.nextId
        /\ \A s \in c.dir : s.id < c.nextId
        /\ \A s \in c.dir : s.confirmed => s \in m.dir
    BY <1>1, ScannedIs
  <1> HIDE DEF c
  <1>5. r \in Stores BY <1>1, <1>4 DEF Stores
  <1>6. /\ r.dir = c.dir /\ r.nextId = c.nextId
        /\ r.mode = m.mode /\ r.job = m.job /\ r.op = m.op /\ r.active = m.active
        /\ r.resume = m.resume /\ r.cur = m.cur /\ r.gen = m.gen /\ r.next = m.next
        /\ r.reclaim = m.reclaim /\ r.pending = m.pending /\ r.foreign = m.foreign
        /\ r.purge = m.purge
    BY <1>1 DEF Stores
  <1> HIDE DEF r
  <1>7. MaxEnd(c.dir) \in 0 .. Pages /\ \A s \in c.dir : s.end <= MaxEnd(c.dir)
    BY <1>4, MaxEndIs
  <1>8. r1 \in Stores BY <1>5, <1>6, <1>7 DEF Stores
  <1>9. /\ r1.dir = c.dir /\ r1.nextId = c.nextId /\ r1.head = MaxEnd(c.dir)
        /\ r1.mode = m.mode /\ r1.job = m.job /\ r1.op = m.op /\ r1.active = m.active
        /\ r1.resume = m.resume /\ r1.cur = m.cur /\ r1.gen = m.gen /\ r1.next = m.next
        /\ r1.reclaim = m.reclaim /\ r1.pending = m.pending /\ r1.foreign = m.foreign
        /\ r1.purge = m.purge
    BY <1>5, <1>6 DEF Stores
  <1> HIDE DEF r1
  <1>10. \A id : RecalledNow(fl, m, id) <=> RecalledNow(fl, r1, id)
    BY <1>9 DEF RecalledNow
  <1>11. \A s \in c.dir : s.confirmed => RecalledNow(fl, r1, s.id)
    BY <1>3, <1>4, <1>10 DEF CursorOK, RecalledNow
  <1>12. Quiet(fl, r1)
    <2>1. Base(r1) BY <1>4, <1>8, <1>9 DEF Base, DirectoryOK
    <2>2. Covered(r1) BY <1>7, <1>9 DEF Covered
    <2>3. Mounted(r1) BY <1>2, <1>9 DEF Mounted
    <2>4. m.gen = Generation(fl, m.cur)
      <3>1. m.job \notin {"snapshot", "header"} OBVIOUS
      <3> QED BY <1>3, <3>1 DEF RotationOK
    <2>5. /\ JournalOK(fl, r1.cur)
          /\ r1.next < BankPages =>
                r1.next = Stop(fl, r1.cur) /\ fl[Bank(r1.cur) + r1.next] = Blank
      BY <1>3, <1>9 DEF CursorOK
    <2> QED BY <1>2, <1>9, <1>11, <2>1, <2>2, <2>3, <2>4, <2>5 DEF Quiet
  <1>13. r2 \in Stores BY <1>8 DEF Stores
  <1>14. Same(r2, r1) /\ r2.mode = r1.mode /\ r2.resume = "none" /\ ~r2.active
    BY <1>2, <1>8, <1>9 DEF Same, Stores
  <1>15. Quiet(fl, r2)
    <2> HIDE DEF r2
    <2> QED BY <1>12, <1>13, <1>14, QuietSame
  <1>16. CASE m.pending /\ m.foreign
    <2>1. m.reclaim \in m.dir /\ m.reclaim.confirmed BY <1>1, <1>16 DEF PendingOK
    <2>2. m.reclaim \in c.dir /\ m.reclaim \in Finals /\ m.reclaim.id < c.nextId
      BY <1>4, <2>1
    <2>3. RecalledNow(fl, r1, m.reclaim.id) BY <1>11, <2>1, <2>2
    <2>4. \A d \in r1.dir : d.id = m.reclaim.id
            => d.begin = m.reclaim.begin /\ d.end = m.reclaim.end
      BY <1>4, <1>9, <2>2 DEF Separate
    <2>5. StoreOK(fl, StartReclaim(r1, m.reclaim))
      BY <1>2, <1>9, <1>12, <2>2, <2>3, <2>4, StartReclaimGoes
    <2>6. RecoveryComplete(r) = StartReclaim(r1, m.reclaim)
      BY <1>6, <1>16 DEF RecoveryComplete, r1
    <2> QED BY <2>5, <2>6 DEF r, c
  <1>17. CASE ~(m.pending /\ m.foreign) /\ m.purge # NoUser
    <2>1. StoreOK(fl, StartNextPurge(r2)) BY <1>14, <1>15, StartNextPurgeGoes
    <2>2. RecoveryComplete(r) = StartNextPurge(r2) BY <1>6, <1>17 DEF RecoveryComplete, r1
    <2> QED BY <2>1, <2>2 DEF r, c
  <1>18. CASE ~(m.pending /\ m.foreign) /\ m.purge = NoUser
    <2> DEFINE q == Ready(r2)
    <2>1. q = [r2 EXCEPT !.mode = "ready", !.job = "none", !.op = Idle] BY DEF Ready
    <2> HIDE DEF r2
    <2>2. q \in Stores
      <3>1. "none" \in Jobs /\ Idle \in Operations BY DEF Jobs, Operations
      <3> HIDE DEF q
      <3> QED BY <1>13, <2>1, <3>1 DEF Stores
    <2>3. /\ Same(q, r2) /\ q.mode = "ready" /\ q.job = "none" /\ q.op = Idle
          /\ q.resume = r2.resume /\ ~q.active
      <3> HIDE DEF q
      <3> QED BY <1>13, <1>14, <2>1 DEF Same, Stores
    <2> HIDE DEF q
    <2>4. Quiet(fl, q) BY <1>14, <1>15, <2>2, <2>3, QuietSame
    <2>5. StoreOK(fl, q) BY <2>3, <2>4, RestGoes
    <2>6. RecoveryComplete(r) = q BY <1>6, <1>18 DEF RecoveryComplete, r1, r2, q
    <2> QED BY <2>5, <2>6 DEF r, c
  <1> QED BY <1>16, <1>17, <1>18

\* The first repair of those the scan calls for.
LEMMA RepairStarts ==
  ASSUME NEW fl, NEW m, StoreOK(fl, m), m.job = "scan", NEW w \in WalkResults,
         Scanned(m, w).ok, Scanned(m, w).repair # <<>>
  PROVE  StoreOK(fl, [[m EXCEPT !.nextId = Scanned(m, w).nextId]
                        EXCEPT !.op = Head(Scanned(m, w).repair), !.job = "repair"])
  <1> DEFINE c == Scanned(m, w)
             op == Head(c.repair)
             r == [[m EXCEPT !.nextId = c.nextId] EXCEPT !.op = op, !.job = "repair"]
  <1>1. /\ m \in Stores /\ JobOK(m) /\ PendingOK(m) /\ Base(m) /\ DirectoryOK(m)
    BY StoreParts DEF Base
  <1>2. m.mode = "recovering" /\ m.op = Idle /\ m.resume = "none" /\ ~m.active
    BY <1>1 DEF JobOK, RotationJobs
  <1>3. CursorOK(fl, m) /\ RotationOK(fl, m) BY <1>2, StoreParts DEF Mounted
  <1>4. c.nextId \in 1 .. IdLimit /\ m.nextId <= c.nextId BY <1>1, ScannedIs
  <1>5. op \in AreaOperations
    <2>1. c.repair = w.repair BY DEF Scanned
    <2>2. w.repair \in Seq(AreaOperations) /\ w.repair # <<>> BY <2>1 DEF WalkResults
    <2> QED BY <2>1, <2>2
  <1> HIDE DEF c, op
  <1>6. op \in Operations /\ op # Idle BY <1>5 DEF AreaOperations
  <1>7. r \in Stores
    <2>1. "repair" \in Jobs BY DEF Jobs
    <2> QED BY <1>1, <1>4, <1>6, <2>1 DEF Stores
  <1>8. /\ r.dir = m.dir /\ r.nextId = c.nextId /\ r.job = "repair" /\ r.op = op
        /\ r.mode = m.mode /\ r.active = m.active
        /\ r.resume = m.resume /\ r.cur = m.cur /\ r.gen = m.gen /\ r.next = m.next
        /\ r.reclaim = m.reclaim /\ r.pending = m.pending
    BY <1>1 DEF Stores
  <1> HIDE DEF r
  <1>9. Base(r)
    <2>1. \A s \in m.dir : s.id \in Nat /\ s.id < m.nextId
      BY <1>1, Sizes DEF DirectoryOK, Stores, Finals, Ids
    <2>2. \A s \in m.dir : s.id < c.nextId
      <3>1. m.nextId \in Nat BY <1>1, Sizes DEF Stores
      <3> QED BY <1>4, <2>1, <3>1
    <2> QED BY <1>1, <1>7, <1>8, <2>2 DEF Base, DirectoryOK
  <1>10. JobOK(r)
    BY <1>2, <1>5, <1>6, <1>8 DEF JobOK, JournalJobs, RotationJobs, PageJobs, Releases,
                                  AreaOperations
  <1>11. ExtentsOK(r)
    BY <1>1, <1>2, <1>8 DEF ExtentsOK, RecordingOK, Recording, HeadOK, ReclaimOK, PendingOK,
                            JournalJobs, RotationJobs
  <1>12. CursorOK(fl, r)
    BY <1>2, <1>3, <1>8 DEF CursorOK, Writing
  <1>13. RotationOK(fl, r) BY <1>2, <1>3, <1>8 DEF RotationOK
  <1> QED BY <1>9, <1>10, <1>11, <1>12, <1>13 DEF StoreOK, r, c, op

-----------------------------------------------------------------------------
(* What the capture task and the phone ask for.                              *)

\* A store at rest, with other values of the fields that a request sets.
LEMMA BeginStarts ==
  ASSUME NEW fl, NEW m, StoreOK(fl, m), m.mode = "ready", m.job = "none", ~m.active,
         m.head + RoomToBegin <= Pages, m.nextId < IdLimit, NEW u \in Users,
         NEW a, a = Session(m.nextId, u, AlignUp(m.head), AlignUp(m.head), 0)
  PROVE  StoreOK(fl, [m EXCEPT !.act = a, !.nextId = @ + 1, !.mode = "busy", !.job = "begin",
                               !.op = Program(AlignUp(m.head), BeginPage(a.id, u))])
  <1> DEFINE begin == AlignUp(m.head)
             op == Program(begin, BeginPage(a.id, u))
             r == [m EXCEPT !.act = a, !.nextId = @ + 1, !.mode = "busy", !.job = "begin",
                            !.op = op]
  <1>1. /\ m \in Stores /\ Base(m) /\ DirectoryOK(m) /\ m.head \in 0 .. Pages
        /\ m.nextId \in 1 .. IdLimit /\ Quiet(fl, m)
    BY StoreParts, Waits DEF Stores, Base
  <1>2. /\ begin \in Nat /\ m.head <= begin /\ begin < m.head + SectorPages
        /\ Sectored(begin) /\ begin + 2 * SectorPages <= Pages
    <2>1. begin \in Nat /\ m.head <= begin /\ begin < m.head + SectorPages BY <1>1, AlignUpIs
    <2>2. RoomToBegin \in Nat /\ RoomToBegin >= 2 * SectorPages BY StorageAssumption
    <2>3. begin + SectorPages < Pages
      <3>1. PICK b \in Nat : b = begin BY <2>1
      <3>2. m.head + 2 * SectorPages <= Pages BY <1>1, <2>2, Sizes
      <3> QED BY <1>1, <2>1, <3>1, <3>2, Sizes
    <2>4. begin + SectorPages <= Pages BY <2>1, <2>3, Sizes
    <2>5. Sectored(begin + SectorPages) /\ Sectored(begin)
      BY <1>1, <2>4, AlignUpWithRoom
    <2>6. PICK b \in Nat : b = begin /\ Sectored(b + SectorPages) BY <2>1, <2>5
    <2>7. b + SectorPages + SectorPages <= Pages
      <3>1. Sectored(Pages) BY SectorSteps
      <3>2. b + SectorPages < Pages BY <2>3, <2>6
      <3> QED BY <2>6, <3>1, <3>2, SectorSteps
    <2>8. b + 2 * SectorPages <= Pages BY <2>7, Sizes
    <2> QED BY <2>1, <2>5, <2>6, <2>8
  <1>3. /\ a.id = m.nextId /\ a.owner = u /\ a.begin = begin /\ a.count = 0
        /\ a.id \in Ids /\ a \in Descriptions
    <2>1. m.nextId \in Ids /\ m.nextId \in 0 .. IdLimit - 1 BY <1>1, Sizes DEF Ids
    <2>2. begin \in 0 .. Pages BY <1>2, Sizes
    <2> HIDE DEF begin
    <2>3. a = Session(m.nextId, u, begin, begin, 0) BY DEF begin
    <2> QED BY <2>1, <2>2, <2>3 DEF Session, Descriptions, Owners
  <1>4. op \in Operations /\ op.do = "program" /\ op.at < Pages /\ op # Idle
    <2>1. begin \in Chip /\ begin < Pages BY <1>2, Sizes DEF Chip
    <2>2. BeginPage(a.id, u) \in PageSet BY <1>3 DEF BeginPage, PageSet, BeginPages
    <2> HIDE DEF begin
    <2> QED BY <2>1, <2>2 DEF Operations, Program, Idle
  <1>5. m.nextId + 1 \in 1 .. IdLimit BY <1>1, Sizes
  <1> HIDE DEF op, begin
  <1>6. r \in Stores
    <2>1. "begin" \in Jobs BY DEF Jobs, PageJobs
    <2> QED BY <1>1, <1>3, <1>4, <1>5, <2>1 DEF Stores
  <1>7. /\ r.act = a /\ r.nextId = m.nextId + 1 /\ r.mode = "busy" /\ r.job = "begin"
        /\ r.op = op /\ r.dir = m.dir /\ r.head = m.head /\ ~r.active
        /\ r.cur = m.cur /\ r.next = m.next /\ r.gen = m.gen /\ r.resume = m.resume
    BY <1>1 DEF Stores
  <1> HIDE DEF r
  <1>8. \A s \in m.dir : s.id \in Nat /\ s.id < m.nextId
    BY <1>1, Sizes DEF DirectoryOK, Stores, Finals, Ids
  <1>9. DirectoryOK(r)
    <2>1. \A s \in m.dir : s.id < m.nextId + 1 BY <1>1, <1>8
    <2> QED BY <1>1, <1>7, <2>1 DEF DirectoryOK
  <1>10. Quiet(fl, r)
    <2>1. r.resume = "none" /\ Covered(r) BY <1>1, <1>7 DEF Quiet, Covered
    <2>2. \A s \in r.dir : s.confirmed => RecalledNow(fl, m, s.id) BY <1>1, <1>7 DEF Quiet
    <2> QED BY <1>1, <1>6, <1>7, <1>9, <2>1, <2>2, QuietDirectory
  <1>11. Behind(r)
    <2>1. a.id < m.nextId + 1 BY <1>1, <1>3
    <2>2. FinalSector(a) + SectorPages <= Pages
      <3>1. Slot(a.begin, a.count) = begin + 1 BY <1>2, <1>3 DEF Slot
      <3>2. begin + SectorPages <= Pages /\ begin + 1 <= begin + SectorPages
        BY <1>2, Sizes
      <3>3. Sectored(begin + SectorPages) /\ begin + 1 \in Nat
        <4>1. Sectored(Pages) /\ begin < Pages BY <1>2, Sizes, SectorSteps
        <4> QED BY <1>2, <4>1, SectorSteps
      <3>4. AlignUp(begin + 1) <= begin + SectorPages BY <3>2, <3>3, AlignUpFits
      <3>5. AlignUp(begin + 1) \in Nat BY <3>3, AlignUpIs
      <3>6. AlignUp(begin + 1) + SectorPages <= Pages BY <1>2, <3>4, <3>5, Sizes
      <3> QED BY <3>1, <3>6 DEF FinalSector
    <2> QED BY <1>2, <1>3, <1>7, <1>8, <2>1, <2>2 DEF Behind
  <1>12. JobOK(r)
    BY <1>1, <1>4, <1>7, <1>10 DEF JobOK, JournalJobs, RotationJobs, PageJobs, Releases, Quiet
  <1>13. ReclaimOK(r) /\ RecordingOK(r)
    BY <1>7, <1>11 DEF ReclaimOK, RecordingOK
  <1>14. StoreOK(fl, r)
    BY <1>7, <1>10, <1>12, <1>13, QuietParts DEF PageJobs
  <1> QED BY <1>14 DEF r, op, begin

LEMMA AppendStarts ==
  ASSUME NEW fl, NEW m, StoreOK(fl, m), m.active, m.job = "none",
         NEW slot, slot = Slot(m.act.begin, m.act.count),
         AlignUp(slot + 2) + SectorPages <= Pages
  PROVE  StoreOK(fl, [m EXCEPT !.job = "page0",
                               !.op = Program(slot, EventHead(m.act.id, m.act.count))])
  <1> DEFINE op == Program(slot, EventHead(m.act.id, m.act.count))
             r == [m EXCEPT !.job = "page0", !.op = op]
  <1>1. m \in Stores /\ Base(m) /\ JobOK(m) BY StoreParts DEF Base
  <1>2. m.mode \in {"ready", "busy"} BY <1>1 DEF JobOK, Stores
  <1>3. Quiet(fl, m) /\ Behind(m) BY <1>2, Waits
  <1>4. /\ m.act.begin \in 0 .. Pages /\ m.act.count \in Nat /\ slot \in Nat
        /\ slot <= FinalSector(m.act)
        /\ FinalSector(m.act) \in Nat /\ FinalSector(m.act) + SectorPages <= Pages
    BY <1>1, <1>3, RecordingPlace
  <1>5. slot < Pages
    <2>1. PICK f \in Nat : f = FinalSector(m.act) BY <1>4
    <2> QED BY <1>4, <2>1, Sizes
  <1>6. op \in Operations /\ op.do = "program" /\ op.at = slot /\ op # Idle
    <2>1. slot \in Chip BY <1>4, <1>5, Sizes DEF Chip
    <2>2. m.act.id \in Ids BY <1>3 DEF Behind
    <2>3. EventHead(m.act.id, m.act.count) \in PageSet
      BY <1>4, <2>2 DEF EventHead, PageSet, SlotPages
    <2> QED BY <2>1, <2>3 DEF Operations, Program, Idle
  <1> HIDE DEF op
  <1>7. r \in Stores
    <2>1. "page0" \in Jobs BY DEF Jobs, PageJobs
    <2> QED BY <1>1, <1>6, <2>1 DEF Stores
  <1>8. /\ Same(r, m) /\ r.mode = m.mode /\ r.job = "page0" /\ r.op = op
        /\ r.resume = m.resume /\ r.active /\ r.act = m.act
    BY <1>1 DEF Same, Stores
  <1> HIDE DEF r
  <1>9. Quiet(fl, r) /\ r.resume = "none" BY <1>2, <1>3, <1>7, <1>8, QuietSame DEF Quiet
  <1>10. Behind(r) BY <1>1, <1>3, <1>7, <1>8, SameParts
  <1>11. FinalSector([r.act EXCEPT !.count = @ + 1]) + SectorPages <= Pages
    <2> DEFINE a == [m.act EXCEPT !.count = @ + 1]
    <2>1. m.act \in Descriptions BY <1>1 DEF Stores
    <2>2. a.begin = m.act.begin /\ a.count = m.act.count + 1
      BY <1>4, <2>1 DEF Descriptions
    <2> HIDE DEF a
    <2>3. Slot(a.begin, a.count) = slot + 2
      BY <1>4, <2>2 DEF Slot
    <2>4. FinalSector(a) = AlignUp(slot + 2) BY <2>3 DEF FinalSector
    <2> QED BY <1>8, <2>4 DEF a
  <1>12. RecordingOK(r) /\ ReclaimOK(r)
    BY <1>8, <1>10, <1>11 DEF RecordingOK, ReclaimOK
  <1>13. JobOK(r)
    BY <1>2, <1>5, <1>6, <1>8, <1>9 DEF JobOK, JournalJobs, RotationJobs, PageJobs
  <1>14. StoreOK(fl, r)
    BY <1>8, <1>9, <1>12, <1>13, QuietParts DEF PageJobs
  <1> QED BY <1>14 DEF r, op

LEMMA CheckpointStarts ==
  ASSUME NEW fl, NEW m, StoreOK(fl, m), m.active, m.job = "none"
  PROVE  StoreOK(fl, Journal(m, Entry("checkpoint",
                             ActiveInfo(m.act, Slot(m.act.begin, m.act.count))), "checkpoint"))
  <1> DEFINE s == ActiveInfo(m.act, Slot(m.act.begin, m.act.count))
             e == Entry("checkpoint", s)
  <1>1. m \in Stores /\ Base(m) /\ JobOK(m) BY StoreParts DEF Base
  <1>2. m.mode \in {"ready", "busy"} BY <1>1 DEF JobOK, Stores
  <1>3. Quiet(fl, m) /\ Behind(m) BY <1>2, Waits
  <1>4. s \in Descriptions
    <2>1. PICK p \in Nat : p = Slot(m.act.begin, m.act.count) BY <1>1, <1>3, RecordingPlace
    <2>2. PICK f \in Nat : f = FinalSector(m.act) /\ p <= f /\ f + SectorPages <= Pages
      BY <1>1, <1>3, <2>1, RecordingPlace
    <2>3. p \in 0 .. Pages BY <2>1, <2>2, Sizes
    <2> QED BY <1>1, <1>3, <2>1, <2>3, RecordingPlace
  <1> HIDE DEF s
  <1>5. e \in Entries /\ e.type = "checkpoint"
    BY <1>4, EntryForms DEF EntryTypes, Counted, OfFinals
  <1> HIDE DEF e
  <1>6. Fits(m, "checkpoint", e) BY <1>5 DEF Fits, Releases
  <1>7. Purposes(m, "checkpoint") BY DEF Purposes, Releases
  <1>8. StoreOK(fl, Journal(m, e, "checkpoint"))
    BY <1>3, <1>6, <1>7, JournalGoes DEF JournalJobs
  <1> QED BY <1>8 DEF e, s

LEMMA FinalizeStarts ==
  ASSUME NEW fl, NEW m, StoreOK(fl, m), m.active, m.job = "none"
  PROVE  StoreOK(fl, [m EXCEPT !.mode = "busy", !.job = "end",
                               !.op = Program(FinalSector(m.act),
                                              EndPage(m.act.id, m.act.count))])
  <1> DEFINE op == Program(FinalSector(m.act), EndPage(m.act.id, m.act.count))
             r == [m EXCEPT !.mode = "busy", !.job = "end", !.op = op]
  <1>1. m \in Stores /\ Base(m) /\ JobOK(m) BY StoreParts DEF Base
  <1>2. m.mode \in {"ready", "busy"} BY <1>1 DEF JobOK, Stores
  <1>3. Quiet(fl, m) /\ Behind(m) BY <1>2, Waits
  <1>4. PICK f \in Nat : f = FinalSector(m.act) /\ f + SectorPages <= Pages
    BY <1>1, <1>3, RecordingPlace
  <1>5. f \in Chip /\ f < Pages BY <1>4, Sizes DEF Chip
  <1>6. op \in Operations /\ op.do = "program" /\ op.at = f /\ op # Idle
    <2>1. m.act.id \in Ids BY <1>3 DEF Behind
    <2>2. m.act.count \in Nat BY <1>1, <1>3, RecordingPlace
    <2>3. EndPage(m.act.id, m.act.count) \in PageSet
      BY <2>1, <2>2 DEF EndPage, PageSet, EndPages
    <2> QED BY <1>4, <1>5, <2>3 DEF Operations, Program, Idle
  <1> HIDE DEF op
  <1>7. r \in Stores
    <2>1. "end" \in Jobs BY DEF Jobs, PageJobs
    <2> QED BY <1>1, <1>6, <2>1 DEF Stores
  <1>8. /\ Same(r, m) /\ r.mode = "busy" /\ r.job = "end" /\ r.op = op
        /\ r.resume = m.resume /\ r.active /\ r.act = m.act
    BY <1>1 DEF Same, Stores
  <1> HIDE DEF r
  <1>9. Quiet(fl, r) /\ r.resume = "none" BY <1>3, <1>7, <1>8, QuietSame DEF Quiet
  <1>10. Behind(r) BY <1>1, <1>3, <1>7, <1>8, SameParts
  <1>11. RecordingOK(r) /\ ReclaimOK(r) BY <1>8, <1>10 DEF RecordingOK, ReclaimOK
  <1>12. JobOK(r)
    BY <1>5, <1>6, <1>8, <1>9 DEF JobOK, JournalJobs, RotationJobs, PageJobs
  <1>13. StoreOK(fl, r) BY <1>8, <1>9, <1>11, <1>12, QuietParts DEF PageJobs
  <1> QED BY <1>13 DEF r, op

LEMMA ConfirmStarts ==
  ASSUME NEW fl, NEW m, StoreOK(fl, m), m.mode = "ready", m.job = "none", ~m.active,
         NEW d \in m.dir, ~d.confirmed, NEW s, s = [d EXCEPT !.next = d.begin]
  PROVE  StoreOK(fl, Journal([m EXCEPT !.dir = Replace(@, s), !.foreign = FALSE,
                                       !.reclaim = s],
                             Entry("confirmed", s), "confirm"))
  <1> DEFINE dir == Replace(m.dir, s)
             r == [m EXCEPT !.dir = Replace(@, s), !.foreign = FALSE, !.reclaim = s]
             e == Entry("confirmed", s)
  <1>1. m \in Stores /\ Base(m) /\ DirectoryOK(m) /\ Quiet(fl, m)
    BY StoreParts, Waits DEF Base
  <1>2. d \in Finals /\ d \in Descriptions /\ d.id < m.nextId
    BY <1>1 DEF Stores, DirectoryOK, Finals
  <1>3. /\ s.id = d.id /\ s.begin = d.begin /\ s.end = d.end /\ ~s.confirmed
        /\ s.next = d.begin /\ s.owner = d.owner
    BY <1>2 DEF Descriptions
  <1>4. s \in Finals
    <2>1. s \in Descriptions BY <1>2 DEF Descriptions
    <2>2. d.begin \in 0 .. Pages /\ d.end \in 0 .. Pages /\ d.begin <= d.end
      BY <1>2, Sizes DEF Finals, Descriptions
    <2> QED BY <1>2, <1>3, <2>1, <2>2 DEF Finals
  <1>5. /\ dir \in SUBSET Finals /\ IsFiniteSet(dir) /\ Cardinality(dir) <= MaxSessions
        /\ Separate(dir) /\ s \in dir
        /\ \A x \in dir : x = s \/ (x \in m.dir /\ x.id # s.id)
        /\ \A x \in dir : x.id < m.nextId
        /\ Covered(m) => \A x \in dir : x.end <= m.head
    BY ONLY <1>1, <1>3, <1>4, d \in m.dir, DirectoryUpdate
  <1> HIDE DEF dir
  <1>6. r = [m EXCEPT !.dir = dir, !.foreign = FALSE, !.reclaim = s] BY DEF dir
  <1> HIDE DEF r
  <1>7. r \in Stores BY <1>1, <1>4, <1>5, <1>6 DEF Stores
  <1>8. /\ r.dir = dir /\ r.reclaim = s /\ r.nextId = m.nextId /\ r.head = m.head
        /\ r.mode = "ready" /\ ~r.active /\ r.cur = m.cur /\ r.next = m.next
        /\ r.gen = m.gen /\ r.resume = m.resume
    BY <1>1, <1>6 DEF Stores
  <1>9. DirectoryOK(r) /\ Covered(r) BY <1>1, <1>5, <1>8 DEF DirectoryOK, Covered, Quiet
  <1>10. \A x \in r.dir : x.confirmed => RecalledNow(fl, m, x.id)
    BY <1>1, <1>3, <1>5, <1>8 DEF Quiet
  <1>11. Quiet(fl, r)
    <2>1. r.resume = "none" BY <1>1, <1>8 DEF Quiet
    <2> QED BY <1>1, <1>7, <1>8, <1>9, <1>10, <2>1, QuietDirectory
  <1>12. e \in Entries /\ e.type = "confirmed" /\ e.s = s
    BY <1>4, EntryForms DEF EntryTypes, Counted
  <1> HIDE DEF e
  <1>13. Purposes(r, "confirm") BY <1>2, <1>3, <1>4, <1>8 DEF Purposes, Releases
  <1>14. Fits(r, "confirm", e) BY <1>8, <1>12 DEF Fits, Releases, Counted
  <1>15. StoreOK(fl, Journal(r, e, "confirm"))
    BY <1>8, <1>11, <1>13, <1>14, JournalGoes DEF JournalJobs
  <1> QED BY <1>15 DEF r, e

LEMMA PurgeStarts ==
  ASSUME NEW fl, NEW m, StoreOK(fl, m), m.mode = "ready", m.job = "none", ~m.active,
         NEW u \in Users
  PROVE  StoreOK(fl, Journal([m EXCEPT !.purge = u, !.mode = "busy"],
                             Entry("purge_begin", [NoSession EXCEPT !.owner = u]),
                             "purge_begin"))
  <1> DEFINE r == [m EXCEPT !.purge = u, !.mode = "busy"]
             s == [NoSession EXCEPT !.owner = u]
             e == Entry("purge_begin", s)
  <1>1. m \in Stores /\ Quiet(fl, m) BY StoreParts, Waits
  <1>2. u \in Owners BY DEF Owners
  <1>3. r \in Stores BY <1>1, <1>2 DEF Stores
  <1>4. Same(r, m) /\ r.mode = "busy" /\ r.resume = m.resume /\ ~r.active
    BY <1>1 DEF Same, Stores
  <1> HIDE DEF r
  <1>5. Quiet(fl, r) BY <1>1, <1>3, <1>4, QuietSame DEF Quiet
  <1>6. s \in Descriptions BY <1>2, NothingOK DEF Descriptions
  <1> HIDE DEF s
  <1>7. e \in Entries /\ e.type = "purge_begin"
    BY <1>6, EntryForms DEF EntryTypes, Counted, OfFinals
  <1> HIDE DEF e
  <1>8. Purposes(r, "purge_begin") BY <1>4 DEF Purposes, Releases
  <1>9. Fits(r, "purge_begin", e) BY <1>7 DEF Fits, Releases
  <1>10. StoreOK(fl, Journal(r, e, "purge_begin"))
    BY <1>4, <1>5, <1>8, <1>9, JournalGoes DEF JournalJobs
  <1> QED BY <1>10 DEF r, e, s

LEMMA ResumeStarts ==
  ASSUME NEW fl, NEW m, StoreOK(fl, m), m.mode = "ready", m.job = "none", ~m.active,
         NEW s \in m.dir, s.confirmed
  PROVE  StoreOK(fl, StartReclaim([m EXCEPT !.foreign = FALSE], s))
  <1> DEFINE r == [m EXCEPT !.foreign = FALSE]
  <1>1. m \in Stores /\ DirectoryOK(m) /\ Quiet(fl, m) BY StoreParts, Waits
  <1>2. r \in Stores BY <1>1 DEF Stores
  <1>3. Same(r, m) /\ r.mode = m.mode /\ r.resume = m.resume /\ ~r.active
    BY <1>1 DEF Same, Stores
  <1> HIDE DEF r
  <1>4. Quiet(fl, r) BY <1>1, <1>2, <1>3, QuietSame DEF Quiet
  <1>5. /\ s \in Finals /\ s.id < r.nextId /\ RecalledNow(fl, r, s.id)
        /\ \A d \in r.dir : d.id = s.id => d.begin = s.begin /\ d.end = s.end
    BY <1>1, <1>3, <1>4 DEF Stores, DirectoryOK, Separate, Quiet, Same
  <1>6. StoreOK(fl, StartReclaim(r, s)) BY <1>3, <1>4, <1>5, StartReclaimGoes
  <1> QED BY <1>6 DEF r

\* Whether a local recording has paused the erasing is nothing the rest depends on.
LEMMA PausedChangesNothing ==
  ASSUME NEW fl, NEW m, StoreOK(fl, m), NEW b \in BOOLEAN
  PROVE  StoreOK(fl, [m EXCEPT !.paused = b])
  <1> DEFINE r == [m EXCEPT !.paused = b]
  <1>1. m \in Stores BY StoreParts
  <1>2. r \in Stores BY <1>1 DEF Stores
  <1>3. /\ r.mode = m.mode /\ r.job = m.job /\ r.op = m.op /\ r.dir = m.dir /\ r.head = m.head
        /\ r.nextId = m.nextId /\ r.active = m.active /\ r.act = m.act
        /\ r.cur = m.cur /\ r.next = m.next /\ r.gen = m.gen /\ r.snap = m.snap
        /\ r.held = m.held /\ r.resume = m.resume /\ r.purge = m.purge
        /\ r.pending = m.pending /\ r.reclaim = m.reclaim /\ r.tomb = m.tomb
    BY <1>1 DEF Stores
  <1> HIDE DEF r
  <1>4. Base(r) BY <1>2, <1>3, StoreParts DEF Base, DirectoryOK
  <1>5. JobOK(r) BY <1>3 DEF StoreOK, JobOK, Purposes, Fits
  <1>6. ExtentsOK(r)
    BY <1>3 DEF StoreOK, ExtentsOK, RecordingOK, Recording, Behind, HeadOK, Covered,
                ReclaimOK, PendingOK
  <1>7. Mounted(r) => CursorOK(fl, r)
    BY <1>3 DEF StoreOK, Mounted, CursorOK, Writing
  <1>8. SnapshotPages(r) = SnapshotPages(m) /\ HeaderOf(r) = HeaderOf(m)
    BY <1>3 DEF SnapshotPages, HeaderOf
  <1>9. Mounted(r) => RotationOK(fl, r)
    BY <1>3, <1>8 DEF StoreOK, Mounted, RotationOK
  <1> QED BY <1>4, <1>5, <1>6, <1>7, <1>9 DEF StoreOK, r

-----------------------------------------------------------------------------
(* The invariant.                                                            *)

LEMMA StoreInit == ASSUME Init PROVE StoreInv
  <1> DEFINE header == Header(1, 1, NoUser, 0, FALSE)
  <1>1. header \in HeaderPages
    BY Sizes DEF Header, HeaderPages, Owners
  <1>2. flash \in [Chip -> PageSet] BY <1>1 DEF Init, PageSet
  <1>3. \A p \in Chip : flash[p] = IF p = Bank(0) THEN header ELSE Blank BY DEF Init
  <1> HIDE DEF header
  <1>4. \A k \in 0 .. 1, i \in 0 .. BankPages - 1 :
           flash[Bank(k) + i] = IF k = 0 /\ i = 0 THEN header ELSE Blank
    <2> TAKE k \in 0 .. 1, i \in 0 .. BankPages - 1
    <2>1. Bank(k) + i \in Chip /\ Bank(k) \in Nat BY BankAddresses
    <2>2. Bank(k) + i = Bank(0) <=> k = 0 /\ i = 0 BY Sizes, BankAddresses
    <2> QED BY <1>3, <2>1, <2>2
  <1>5. \A i \in 1 .. BankPages - 1 : flash[Bank(0) + i] = Blank
    BY <1>4, Sizes
  <1>6. ~IsEntry(Blank) /\ ~IsHeader(Blank) BY DEF IsEntry, IsHeader, Blank
  <1>7. flash[Bank(0)] = header /\ flash[Bank(1)] = Blank
    <2>1. 0 \in 0 .. BankPages - 1 /\ Bank(0) + 0 = Bank(0) /\ Bank(1) + 0 = Bank(1)
      BY Sizes, BankAddresses
    <2>2. flash[Bank(0) + 0] = header /\ flash[Bank(1) + 0] = Blank BY <1>4, <2>1
    <2> QED BY <2>1, <2>2
  <1>8. Stop(flash, 0) = 1
    <2>1. 1 \in 1 .. BankPages /\ 1 \in 1 .. BankPages - 1 BY Sizes
    <2>2. \A i \in 1 .. 1 - 1 : IsEntry(flash[Bank(0) + i]) OBVIOUS
    <2> QED BY <1>5, <1>6, <2>1, <2>2, StopUnique
  <1>9. JournalOK(flash, 0)
    <2>1. IsHeader(flash[Bank(0)]) BY <1>7 DEF IsHeader, header, Header
    <2>2. ~IsHeader(flash[Bank(1 - 0)]) BY <1>6, <1>7
    <2>3. \A i \in 1 + 1 .. BankPages - 1 : flash[Bank(0) + i] = Blank BY <1>5, Sizes
    <2>4. \A i \in 1 .. 1 - 1 : FALSE OBVIOUS
    <2> QED BY <1>8, <2>1, <2>2, <2>3, <2>4 DEF JournalOK
  <1>10. FlashOK(flash) BY <1>2, <1>9 DEF FlashOK
  <1>11. store = Off BY DEF Init
  <1> QED BY <1>10, <1>11, LostOrFailed DEF StoreInv

LEMMA StoreNext == ASSUME StoreInv, [Next]_vars PROVE StoreInv'
  <1>1. FlashOK(flash) /\ StoreOK(flash, store) BY DEF StoreInv
  <1>2. store \in Stores /\ DirectoryOK(store) /\ JobOK(store) /\ store.op \in Operations
    BY <1>1, StoreParts
  <1>3. CASE OperationDone
    <2> DEFINE fl == Completed(flash, store.op)
               m  == IF ~Verified(fl, store.op) THEN Failed
                     ELSE IF store.mode = "recovering" THEN RecoveryStep(store)
                     ELSE RuntimeStep(store)
    <2>1. store.op # Idle /\ flash' = fl /\ store' = m BY <1>3 DEF OperationDone, Do
    <2>2. fl \in Interrupted(flash, store.op) BY <1>1, <1>2, CompletedMayHappen DEF FlashOK
    <2> HIDE DEF fl
    <2>3. FlashOK(fl) BY <1>1, <2>2, CutKeepsFlash
    <2>4. StoreOK(fl, m) BY <1>1, <2>1, <2>2, StepGoes
    <2> HIDE DEF m
    <2>5. PICK new, r : new = fl /\ r = m OBVIOUS
    <2>6. flash' = new /\ store' = r /\ FlashOK(new) /\ StoreOK(new, r)
      BY <2>1, <2>3, <2>4, <2>5
    <2> QED BY <2>6 DEF StoreInv
  <1>4. ASSUME NEW r, StoreOK(flash, r), store' = r, UNCHANGED flash PROVE StoreInv'
    <2>1. PICK fl : fl = flash /\ FlashOK(fl) /\ StoreOK(fl, r) BY <1>1, <1>4
    <2>2. flash' = fl /\ store' = r BY <1>4, <2>1
    <2> QED BY <2>1, <2>2 DEF StoreInv
  <1>5. CASE Mount
    <2>1. StoreOK(flash, Replay(flash)) BY <1>1, ReplayGoes
    <2>2. PICK r : r = Replay(flash) OBVIOUS
    <2>3. store' = r /\ UNCHANGED flash BY <1>5, <2>2 DEF Mount, Do
    <2> QED BY <1>4, <2>1, <2>2, <2>3
  <1>6. CASE Recover
    <2>1. PICK w : /\ w = Walk(flash, Claims(store)) /\ UNCHANGED flash
                   /\ LET c == Scanned(store, w)
                          m == [store EXCEPT !.nextId = c.nextId]
                      IN  store' = IF ~c.ok THEN Failed
                                   ELSE IF c.repair # <<>>
                                   THEN [m EXCEPT !.op = Head(c.repair), !.job = "repair"]
                                   ELSE RecoveryComplete([m EXCEPT !.dir = c.dir])
      BY <1>6 DEF Recover, Do
    <2>2. w \in WalkResults /\ store.job = "scan"
      BY <1>1, <1>6, <2>1, WalkGoes DEF FlashOK, Recover
    <2> DEFINE c == Scanned(store, w)
               m == [store EXCEPT !.nextId = c.nextId]
               r == [store EXCEPT !.nextId = c.nextId, !.dir = c.dir]
    <2>3. CASE ~c.ok
      <3>1. store' = Failed BY <2>1, <2>3
      <3> QED BY <1>4, <2>1, <3>1, LostOrFailed
    <2>4. CASE c.ok /\ c.repair # <<>>
      <3> DEFINE q == [m EXCEPT !.op = Head(c.repair), !.job = "repair"]
      <3>1. StoreOK(flash, q) BY <1>1, <2>2, <2>4, RepairStarts
      <3>2. store' = q BY <2>1, <2>4
      <3> HIDE DEF q, c
      <3> QED BY <1>4, <2>1, <3>1, <3>2
    <2>5. CASE c.ok /\ ~(c.repair # <<>>)
      <3>1. StoreOK(flash, RecoveryComplete(r)) BY <1>1, <2>2, <2>5, RecoveryGoes
      <3>2. [m EXCEPT !.dir = c.dir] = r
        <4> HIDE DEF c
        <4> QED BY <1>2 DEF Stores
      <3>3. store' = RecoveryComplete(r) BY <2>1, <2>5, <3>2
      <3> HIDE DEF r, c, m
      <3> QED BY <1>4, <2>1, <3>1, <3>3
    <2> QED BY <2>3, <2>4, <2>5
  <1>7. ASSUME NEW u \in Users, BeginSession(u) PROVE StoreInv'
    <2>1. PICK a : a = Session(store.nextId, u, AlignUp(store.head), AlignUp(store.head), 0)
      OBVIOUS
    <2>2. PICK r : r = [store EXCEPT !.act = a, !.nextId = @ + 1, !.mode = "busy",
                                     !.job = "begin",
                                     !.op = Program(AlignUp(store.head), BeginPage(a.id, u))]
      OBVIOUS
    <2>3. /\ store.mode = "ready" /\ store.job = "none" /\ ~store.active
          /\ store.head + RoomToBegin <= Pages /\ store.nextId < IdLimit
          /\ store' = r /\ UNCHANGED flash
      BY <1>7, <2>1, <2>2 DEF BeginSession, Resting, HasRoom, HasPages, Do
    <2>4. StoreOK(flash, r) BY <1>1, <2>1, <2>2, <2>3, BeginStarts
    <2> QED BY <1>4, <2>3, <2>4
  <1>8. CASE AppendEvent
    <2>1. PICK slot : slot = Slot(store.act.begin, store.act.count) OBVIOUS
    <2>2. PICK r : r = [store EXCEPT !.job = "page0",
                          !.op = Program(slot, EventHead(store.act.id, store.act.count))]
      OBVIOUS
    <2>3. /\ store.active /\ store.job = "none" /\ AlignUp(slot + 2) + SectorPages <= Pages
          /\ store' = r /\ UNCHANGED flash
      BY <1>8, <2>1, <2>2 DEF AppendEvent, Do
    <2>4. StoreOK(flash, r) BY <1>1, <2>1, <2>2, <2>3, AppendStarts
    <2> QED BY <1>4, <2>3, <2>4
  <1>9. CASE Checkpoint
    <2>1. PICK r : r = Journal(store, Entry("checkpoint",
                         ActiveInfo(store.act, Slot(store.act.begin, store.act.count))),
                         "checkpoint")
      OBVIOUS
    <2>2. store.active /\ store.job = "none" /\ store' = r /\ UNCHANGED flash
      BY <1>9, <2>1 DEF Checkpoint, Do
    <2>3. StoreOK(flash, r) BY <1>1, <2>1, <2>2, CheckpointStarts
    <2> QED BY <1>4, <2>2, <2>3
  <1>10. CASE FinalizeSession
    <2>1. PICK r : r = [store EXCEPT !.mode = "busy", !.job = "end",
                          !.op = Program(FinalSector(store.act),
                                         EndPage(store.act.id, store.act.count))]
      OBVIOUS
    <2>2. store.active /\ store.job = "none" /\ store' = r /\ UNCHANGED flash
      BY <1>10, <2>1 DEF FinalizeSession, Do
    <2>3. StoreOK(flash, r) BY <1>1, <2>1, <2>2, FinalizeStarts
    <2> QED BY <1>4, <2>2, <2>3
  <1>11. \A u : OwnedBy(store.dir, u) \in SUBSET Finals /\ OwnedBy(store.dir, u) \subseteq store.dir
    BY <1>2 DEF OwnedBy, Stores
  <1>12. ASSUME NEW u \in Users, ConfirmSession(u) PROVE StoreInv'
    <2>1. PICK d : d = Latest(OwnedBy(store.dir, u)) OBVIOUS
    <2>2. PICK s : s = [d EXCEPT !.next = d.begin] OBVIOUS
    <2>3. PICK r : r = Journal([store EXCEPT !.dir = Replace(@, s), !.foreign = FALSE,
                                             !.reclaim = s],
                               Entry("confirmed", s), "confirm")
      OBVIOUS
    <2>4. /\ store.mode = "ready" /\ store.job = "none" /\ ~store.active
          /\ OwnedBy(store.dir, u) # {} /\ ~d.confirmed
          /\ store' = r /\ UNCHANGED flash
      BY <1>12, <2>1, <2>2, <2>3 DEF ConfirmSession, Resting, Do
    <2>5. d \in store.dir BY <1>11, <2>1, <2>4, LatestIs
    <2>6. StoreOK(flash, r) BY <1>1, <2>2, <2>3, <2>4, <2>5, ConfirmStarts
    <2> QED BY <1>4, <2>4, <2>6
  <1>13. ASSUME NEW u \in Purgers, PurgeRequest(u) PROVE StoreInv'
    <2>1. PICK r : r = Journal([store EXCEPT !.purge = u, !.mode = "busy"],
                               Entry("purge_begin", [NoSession EXCEPT !.owner = u]),
                               "purge_begin")
      OBVIOUS
    <2>2. /\ store.mode = "ready" /\ store.job = "none" /\ ~store.active
          /\ store' = r /\ UNCHANGED flash
      BY <1>13, <2>1 DEF PurgeRequest, Resting, Do
    <2>3. u \in Users BY StorageAssumption
    <2>4. StoreOK(flash, r) BY <1>1, <2>1, <2>2, <2>3, PurgeStarts
    <2> QED BY <1>4, <2>2, <2>4
  <1>14. CASE PauseReclaim \/ ReleaseReclaim
    <2>1. PICK b \in BOOLEAN : store' = [store EXCEPT !.paused = b] /\ UNCHANGED flash
      BY <1>14 DEF PauseReclaim, ReleaseReclaim, Do
    <2>2. PICK r : r = [store EXCEPT !.paused = b] OBVIOUS
    <2>3. StoreOK(flash, r) BY <1>1, <2>2, PausedChangesNothing
    <2> QED BY <1>4, <2>1, <2>2, <2>3
  <1>15. ASSUME NEW u \in Users, ResumeReclaim(u) PROVE StoreInv'
    <2>1. PICK s : s = Latest(OwnedBy(store.dir, u)) OBVIOUS
    <2>2. PICK r : r = StartReclaim([store EXCEPT !.foreign = FALSE], s) OBVIOUS
    <2>3. /\ store.mode = "ready" /\ store.job = "none" /\ ~store.active
          /\ OwnedBy(store.dir, u) # {} /\ s.confirmed
          /\ store' = r /\ UNCHANGED flash
      BY <1>15, <2>1, <2>2 DEF ResumeReclaim, Resting, Do
    <2>4. s \in store.dir BY <1>11, <2>1, <2>3, LatestIs
    <2>5. StoreOK(flash, r) BY <1>1, <2>2, <2>3, <2>4, ResumeStarts
    <2> QED BY <1>4, <2>3, <2>5
  <1>16. CASE PowerLoss \/ FlashFault
    <2>1. PICK new, r : /\ new \in Interrupted(flash, store.op) /\ r \in {Off, Failed}
                        /\ flash' = new /\ store' = r
      BY <1>16 DEF PowerLoss, FlashFault, Do
    <2>2. FlashOK(new) BY <1>1, <2>1, CutKeepsFlash
    <2>3. StoreOK(new, r) BY <2>1, LostOrFailed
    <2> QED BY <2>1, <2>2, <2>3 DEF StoreInv
  <1>17. CASE UNCHANGED vars BY <1>17 DEF vars, StoreInv
  <1> QED
    BY <1>3, <1>5, <1>6, <1>7, <1>8, <1>9, <1>10, <1>12, <1>13, <1>14, <1>15, <1>16, <1>17
    DEF Next

(* What a mount finds, and every step leaves, in order: the Flash in the    *)
(* shapes that the code writes with one bank that can be replayed to its    *)
(* end, and a store whose job, extents and journal cursor agree with it.    *)
THEOREM StoreInvariant == Spec => []StoreInv
  <1>1. Init => StoreInv BY StoreInit
  <1>2. StoreInv /\ [Next]_vars => StoreInv' BY StoreNext
  <1> QED BY <1>1, <1>2, PTL DEF Spec

(* Whatever was cut short, every field of the store stays in its range: the *)
(* sessions it lists never overlap nor share an identity, its directory is  *)
(* never over-full, and it has an operation in flight when a job wants one. *)
THEOREM StorageTypeCorrect == Spec => []StorageTypeOK
  <1>1. ASSUME StoreInv PROVE StorageTypeOK
    <2>1. store \in Stores /\ DirectoryOK(store) /\ JobOK(store)
      BY <1>1, StoreParts DEF StoreInv
    <2>2. /\ store.mode \in {"off", "recovering", "ready", "busy", "error"}
          /\ store.nextId \in 1 .. IdLimit /\ store.head \in 0 .. Pages
          /\ store.next \in 1 .. BankPages /\ store.cur \in 0 .. 1
      BY <2>1 DEF Stores
    <2>3. \A s \in store.dir :
             /\ s.id \in Ids /\ s.owner \in Users
             /\ s.begin < s.end /\ s.end <= Pages /\ s.next <= s.end
             /\ \A d \in store.dir : s # d => s.id # d.id /\ ~Overlaps(s, d)
      BY <2>1 DEF Stores, Finals, Descriptions, DirectoryOK, Separate
    <2> QED BY <2>1, <2>2, <2>3 DEF StorageTypeOK, DirectoryOK, JobOK
  <1> QED BY <1>1, StoreInvariant, PTL

=============================================================================
