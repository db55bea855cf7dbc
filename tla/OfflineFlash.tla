----------------------------- MODULE OfflineFlash -----------------------------
(***************************************************************************)
(* The external Flash of the offline store and what its readers make of    *)
(* it: zy100_offline_v2_storage.c, zy100_offline_v2_journal.c.             *)
(*                                                                         *)
(* Addresses count pages.  The result area comes first, in sectors of      *)
(* SectorPages pages, then the two journal banks.  A session is a BEGIN    *)
(* page at the start of a sector, event slots of two pages each, and an    *)
(* END page at the start of a sector of its own; slots straddle sectors.   *)
(*                                                                         *)
(* A page is a record: what was meant to be in it, and `ok` when its CRC   *)
(* and commit word hold.  A page that is not ok still shows its magic and  *)
(* identity (a torn program whose head is legible); Scrap shows nothing.   *)
(***************************************************************************)
EXTENDS Integers, FiniteSets, Sequences

CONSTANTS
    Sectors,        \* sectors of the result area (0x2E8000 / 4096 in the code)
    SectorPages,    \* pages of a sector (16)
    BankPages,      \* pages of a journal bank (128)
    MaxSessions,    \* OFFLINE_V2_SESSION_MAX (64)
    Users,          \* owners of sessions
    NoUser,         \* user id 0
    Tears           \* what may be left of a program cut short: a legible "head"
                    \* or nothing ("garbled"); of an erase: "scrap", and even
                    \* where the page was blank ("spoiled")

ASSUME FlashAssumption ==
    /\ Sectors \in Nat \ {0} /\ MaxSessions \in Nat \ {0}
    /\ SectorPages \in Nat /\ SectorPages >= 4 /\ SectorPages % 2 = 0
    /\ BankPages \in Nat /\ BankPages >= MaxSessions + 3
    /\ NoUser \notin Users
    /\ Tears \subseteq {"head", "garbled", "scrap", "spoiled"}

Pages == Sectors * SectorPages
Bank(k) == Pages + k * BankPages
Chip == 0 .. Pages + 2 * BankPages - 1

AlignUp(p) == ((p + SectorPages - 1) \div SectorPages) * SectorPages

-----------------------------------------------------------------------------
(* Pages *)

Blank == [kind |-> "blank", ok |-> FALSE]
Scrap == [kind |-> "scrap", ok |-> FALSE]

BeginPage(id, u) == [kind |-> "begin", ok |-> TRUE, id |-> id, owner |-> u]
EventHead(id, k) == [kind |-> "event", ok |-> TRUE, id |-> id, seq |-> k]
\* The second page of a slot; ok once its commit word is programmed.
EventTail(id, k) == [kind |-> "tail", ok |-> TRUE, id |-> id, seq |-> k]
EndPage(id, n) == [kind |-> "end", ok |-> TRUE, id |-> id, count |-> n]

(* What the journal and the directory know of a session.  The journal's     *)
(* detail word (transfer id or purge token) is kept as far as the store     *)
(* decides by it: whether the session was discarded by a purge.             *)
Session(id, u, begin, end, n) ==
    [id |-> id, owner |-> u, begin |-> begin, end |-> end, count |-> n,
     next |-> begin, confirmed |-> FALSE, discard |-> FALSE]
NoSession == Session(0, NoUser, 0, 0, 0)

Entry(type, s) == [kind |-> "entry", ok |-> TRUE, type |-> type, s |-> s]
Header(gen, nextId, purge, snap, runtime) ==
    [kind |-> "header", ok |-> TRUE, gen |-> gen, nextId |-> nextId,
     purge |-> purge, snap |-> snap, runtime |-> runtime]

Torn(page) == [page EXCEPT !.ok = FALSE]

-----------------------------------------------------------------------------
(* Operations of the chip *)

Idle == [do |-> "none"]
Program(p, page) == [do |-> "program", at |-> p, page |-> page]
Erase(first, n) == [do |-> "erase", at |-> first, upto |-> first + n - 1]

\* A program only clears bits: it is as meant on a blank page, and when it
\* adds the commit word to the same page.
Programmed(old, new) == IF old \in {Blank, Torn(new)} THEN new ELSE Scrap

Completed(flash, op) ==
    CASE op.do = "none"    -> flash
      [] op.do = "program" -> [flash EXCEPT ![op.at] = Programmed(@, op.page)]
      [] op.do = "erase"   ->
            [p \in Chip |-> IF p \in op.at .. op.upto THEN Blank ELSE flash[p]]

\* What an erase that was cut short leaves of a page.
Erasing(how, old) ==
    CASE how = "old" -> old
      [] how = "blank" -> Blank
      [] how = "scrap" -> IF old = Blank THEN Blank ELSE Scrap
      [] how = "spoiled" -> Scrap

\* What the chip may hold after `op` was cut short at any instant.
Interrupted(flash, op) ==
    CASE op.do = "none"    -> {flash}
      [] op.do = "program" ->
            {flash, Completed(flash, op)}
              \cup {[flash EXCEPT ![op.at] =
                        IF how = "head" /\ @ = Blank THEN Torn(op.page) ELSE Scrap] :
                    how \in Tears \cap {"head", "garbled"}}
      [] op.do = "erase"   ->
            LET ways == {"old", "blank"} \cup (Tears \cap {"scrap", "spoiled"})
            IN  {[p \in Chip |->
                    IF p = op.at THEN Erasing(first, flash[p])
                    ELSE IF p \in op.at .. op.upto THEN Erasing(rest, flash[p])
                    ELSE flash[p]] : first \in ways, rest \in ways}

-----------------------------------------------------------------------------
(* Reading a session back: jobs RECOVERY_SCAN_EVENT to RECOVERY_SCAN_END.   *)

Slot(begin, k) == begin + 1 + 2 * k
SlotFits(begin, k) == Slot(begin, k) + 2 <= Pages

EventAt(flash, begin, id, k) ==
    /\ SlotFits(begin, k)
    /\ flash[Slot(begin, k)] = EventHead(id, k)
    /\ flash[Slot(begin, k) + 1] = EventTail(id, k)

\* The continuous prefix of committed events.
EventCount(flash, begin, id) ==
    CHOOSE n \in 0 .. Pages :
        /\ \A k \in 0 .. n - 1 : EventAt(flash, begin, id, k)
        /\ ~EventAt(flash, begin, id, n)

\* The second page of a slot at a sector's end belongs to END when the first
\* page is blank.
SlotTail(flash, a) ==
    IF flash[a] = Blank /\ (a + 1) % SectorPages = 0 THEN Blank ELSE flash[a + 1]

\* The slot after the prefix may be dirty, when it is this session's next one.
DirtySpan(flash, a) == IF flash[a] = Blank /\ SlotTail(flash, a) = Blank THEN 0 ELSE 2

Legible(page, kind, id) == page.kind = kind /\ page.id = id

(* What recovery makes of the session whose BEGIN is at `begin`: whether it *)
(* accepts the layout, the session, and the END it would have to write.     *)
ReadSession(flash, begin) ==
    LET id    == flash[begin].id
        n     == EventCount(flash, begin, id)
        a     == Slot(begin, n)
        dirty == DirtySpan(flash, a)
        final == AlignUp(a + dirty)
        last  == final + SectorPages - 1
        ends  == {p \in final .. last : flash[p] # Blank}
        whole == {p \in ends : flash[p].ok}
        free  == (final .. last) \ ends
        sound ==
            /\ SlotFits(begin, n)
            /\ dirty > 0 => Legible(flash[a], "event", id) /\ flash[a].seq = n
            /\ last < Pages
            /\ \A p \in a + dirty .. final - 1 : flash[p] = Blank
            /\ \A p \in ends : Legible(flash[p], "end", id)
            /\ \A p \in whole : flash[p].count = n
            /\ Cardinality(whole) <= 1
            /\ whole # {} \/ free # {}
    IN  IF ~sound THEN [ok |-> FALSE]
        ELSE [ok     |-> TRUE,
              \* storage_add_recovered_session leaves reclaim_next at zero.
              s      |-> [Session(id, flash[begin].owner, begin, last + 1, n)
                            EXCEPT !.next = 0],
              repair |-> IF whole # {} THEN <<>>
                         ELSE <<Program(CHOOSE p \in free : \A q \in free : p <= q,
                                        EndPage(id, n))>>]

\* storage_recovery_reclaim_page: what may stand in the extent of session r.
Reclaimable(page, r) == page.kind \in {"begin", "event", "end"} => page.id = r.id

\* What the walk comes to from sector i on, when it comes to walk[j] from j on.
WalkStep(flash, claims, walk, i) ==
    LET b       == i * SectorPages
        sector  == b .. b + SectorPages - 1
        owners  == {r \in claims : r.begin <= b /\ b < r.end}
        others  == \A p \in sector \ {b} : flash[p] = Blank
        c       == ReadSession(flash, b)
        refused == [ok |-> FALSE, found |-> <<>>, repair |-> <<>>]
    IN  CASE owners # {} ->
                IF \A p \in sector, r \in owners : Reclaimable(flash[p], r)
                THEN walk[i + 1] ELSE refused
          [] owners = {} /\ flash[b].kind = "begin" /\ flash[b].ok ->
                IF ~c.ok THEN refused
                ELSE LET w == walk[c.s.end \div SectorPages]
                     IN  [ok |-> w.ok, found |-> <<c.s>> \o w.found,
                          repair |-> c.repair \o w.repair]
          [] owners = {} /\ flash[b] = Blank /\ others -> walk[i + 1]
          [] owners = {} /\ flash[b].kind = "begin" /\ ~flash[b].ok /\ others ->
                [walk[i + 1] EXCEPT !.repair = <<Erase(b, SectorPages)>> \o @]
          [] OTHER -> refused

(* The walk over the result area: whether it is all accounted for, the      *)
(* sessions found outside the extents of `claims`, and the repairs it calls *)
(* for, in order.  An extent in `claims` is skipped: the journal already    *)
(* says that it goes.                                                       *)
Walks(flash, claims) ==
    LET walk[i \in 0 .. Sectors] ==
            IF i = Sectors THEN [ok |-> TRUE, found |-> <<>>, repair |-> <<>>]
            ELSE WalkStep(flash, claims, walk, i)
    IN  walk
Walk(flash, claims) == Walks(flash, claims)[0]

=============================================================================
