------------------------- MODULE OnlineSpool_proofs -------------------------
(***************************************************************************)
(* The safety properties of the online spool, and that it implements        *)
(* RecordLog, for every region, sector and record size SpoolAssumption       *)
(* admits.                                                                  *)
(*                                                                         *)
(* SpoolInv adds to the properties where the records, the gap, the          *)
(* reservation and the cursors stand to each other, which headers the Flash *)
(* can hold, and which of its sectors are blank.                            *)
(***************************************************************************)
EXTENDS OnlineSpool, DivModLemmas, SequenceTheorems, WellFoundedInduction

-----------------------------------------------------------------------------
(* Sizes, pages and sectors.                                                 *)

\* What the assumption on the constants says of the numbers in use.
LEMMA Sizes ==
  /\ RegionPages \in Nat \ {0} /\ SectorPages \in Nat \ {0}
  /\ InFlightMax \in Nat \ {0} /\ MaxGeneration \in Nat /\ SessionLimit \in Nat
  /\ \A n \in RecordSizes : n \in Nat /\ 2 <= n /\ n <= BlockPages
  /\ BlockPages \in Nat
  <1>1. BlockSectors \in Nat \ {0} /\ SectorPages \in Nat \ {0} BY SpoolAssumption
  <1>2. BlockPages \in Nat BY <1>1 DEF BlockPages
  <1> QED BY <1>1, <1>2, SpoolAssumption

\* There is a largest record.
LEMMA LargestIsLargest ==
  LargestRecord \in RecordSizes /\ \A m \in RecordSizes : m <= LargestRecord
  <1> DEFINE room == { BlockPages - m : m \in RecordSizes }
  <1>1. room \subseteq Nat /\ room # {}
    <2>1. \A m \in RecordSizes : BlockPages - m \in Nat BY Sizes
    <2>2. RecordSizes # {} BY SpoolAssumption
    <2> QED BY <2>1, <2>2
  <1>2. PICK least \in room : \A y \in room : << y, least >> \notin OpToRel(<, Nat)
    <2> HIDE DEF room
    <2> QED BY <1>1, WFMin, NatLessThanWellFounded
  <1>3. \A y \in room : ~(y < least) BY <1>1, <1>2 DEF OpToRel
  <1>4. PICK n \in RecordSizes : least = BlockPages - n BY <1>2
  <1>5. \A m \in RecordSizes : m <= n
    <2> TAKE m \in RecordSizes
    <2>1. BlockPages - m \in room OBVIOUS
    <2>2. ~(BlockPages - m < BlockPages - n) BY <1>3, <1>4, <2>1
    <2> QED BY <2>2, Sizes
  <1> QED BY <1>5 DEF LargestRecord

\* A position is its generation in regions and its page.
LEMMA PageFacts ==
  ASSUME NEW pos \in Nat
  PROVE  /\ Page(pos) \in 0 .. RegionPages - 1 /\ Page(pos) \in Pages /\ Page(pos) \in Nat
         /\ Generation(pos) \in Nat
         /\ pos = RegionPages * Generation(pos) + Page(pos)
  <1>1. pos \in Int /\ RegionPages \in Nat \ {0} BY Sizes
  <1>2. /\ pos = RegionPages * (pos \div RegionPages) + (pos % RegionPages)
        /\ pos % RegionPages \in 0 .. RegionPages - 1
    BY ONLY <1>1, DivModDef
  <1>3. pos \div RegionPages \in Nat BY <1>1, DivNat
  <1> QED BY <1>2, <1>3 DEF Page, Generation, Pages

\* A position is known from its generation and its page.
LEMMA SamePlace ==
  ASSUME NEW a \in Nat, NEW b \in Nat, Page(a) = Page(b), Generation(a) = Generation(b)
  PROVE  a = b
  BY PageFacts

\* Ahead of a position, before the region ends.
LEMMA PageAhead ==
  ASSUME NEW pos \in Nat, NEW k \in Nat, Page(pos) + k < RegionPages
  PROVE  Page(pos + k) = Page(pos) + k /\ Generation(pos + k) = Generation(pos)
  <1>1. PICK g \in Nat : g = Generation(pos) BY PageFacts
  <1>2. PICK p \in 0 .. RegionPages - 1 : p = Page(pos) BY PageFacts
  <1>3. pos = RegionPages * g + p BY <1>1, <1>2, PageFacts
  <1>4. /\ RegionPages \in Nat \ {0} /\ g \in Int /\ p + k \in 0 .. RegionPages - 1
        /\ pos + k \in Int
    BY <1>2, Sizes
  <1>5. pos + k = RegionPages * g + (p + k) BY <1>3, <1>4
  <1>6. (pos + k) % RegionPages = p + k /\ (pos + k) \div RegionPages = g
    BY ONLY <1>4, <1>5, DivModUnique
  <1> QED BY <1>1, <1>2, <1>6 DEF Page, Generation

\* At the end of the region the next generation begins.
LEMMA PageAtEnd ==
  ASSUME NEW pos \in Nat, NEW k \in Nat, Page(pos) + k = RegionPages
  PROVE  Page(pos + k) = 0 /\ Generation(pos + k) = Generation(pos) + 1
  <1>1. PICK g \in Nat : g = Generation(pos) BY PageFacts
  <1>2. PICK p \in 0 .. RegionPages - 1 : p = Page(pos) BY PageFacts
  <1>3. pos = RegionPages * g + p BY <1>1, <1>2, PageFacts
  <1>4. /\ RegionPages \in Nat \ {0} /\ g + 1 \in Int /\ 0 \in 0 .. RegionPages - 1
        /\ pos + k \in Int
    BY Sizes
  <1>5. pos + k = RegionPages * g + RegionPages BY <1>2, <1>3
  <1>6. pos + k = RegionPages * (g + 1) + 0 BY <1>4, <1>5
  <1>7. (pos + k) % RegionPages = 0 /\ (pos + k) \div RegionPages = g + 1
    BY ONLY <1>4, <1>6, DivModUnique
  <1> QED BY <1>1, <1>7 DEF Page, Generation

\* Positions less than a region apart are on different pages.
LEMMA PageOnce ==
  ASSUME NEW a \in Nat, NEW b \in Nat, a < b, b - a < RegionPages
  PROVE  Page(a) # Page(b)
  <1> SUFFICES ASSUME Page(a) = Page(b) PROVE FALSE OBVIOUS
  <1>1. PICK g \in Nat : g = Generation(a) BY PageFacts
  <1>2. PICK h \in Nat : h = Generation(b) BY PageFacts
  <1>3. PICK p \in 0 .. RegionPages - 1 : p = Page(a) BY PageFacts
  <1>4. a = RegionPages * g + p /\ b = RegionPages * h + p
    BY <1>1, <1>2, <1>3, PageFacts
  <1>5. RegionPages \in Nat BY Sizes
  <1>6. b - a = RegionPages * (h - g) BY <1>3, <1>4, <1>5
  <1>7. ~(h - g >= 1) BY <1>5, <1>6, MulGe
  <1>8. (g - h) * RegionPages >= 0 BY <1>5, <1>7
  <1>9. a - b = (g - h) * RegionPages BY <1>3, <1>4, <1>5
  <1> QED BY <1>8, <1>9

\* A generation that fits the header makes a position that fits the model.
LEMMA PositionBound ==
  ASSUME NEW pos \in Nat, Generation(pos) <= MaxGeneration
  PROVE  pos \in Positions
  <1>1. PICK g \in Nat : g = Generation(pos) BY PageFacts
  <1>2. PICK p \in 0 .. RegionPages - 1 : p = Page(pos) BY PageFacts
  <1>3. pos = RegionPages * g + p BY <1>1, <1>2, PageFacts
  <1>4. RegionPages \in Nat /\ MaxGeneration \in Nat BY Sizes
  <1>5. g * RegionPages <= MaxGeneration * RegionPages BY <1>1, <1>4, MulMono
  <1>6. (MaxGeneration + 1) * RegionPages = MaxGeneration * RegionPages + RegionPages
    BY <1>4
  <1>7. RegionPages * g = g * RegionPages /\ g * RegionPages \in Nat
        /\ MaxGeneration * RegionPages \in Nat
    BY <1>4
  <1>8. pos <= (MaxGeneration + 1) * RegionPages
    BY <1>2, <1>3, <1>4, <1>5, <1>6, <1>7
  <1> QED BY <1>8 DEF Positions

LEMMA PositionsAreNat == Positions \subseteq Nat
  <1>1. (MaxGeneration + 1) * RegionPages \in Nat BY Sizes
  <1> QED BY <1>1 DEF Positions

\* Every page is in a sector.
LEMMA SectorOfPage ==
  ASSUME NEW p \in Pages
  PROVE  SectorOf(p) \in Sectors /\ SectorOf(p) \in Nat
  <1>1. p \in Nat /\ p <= RegionPages - 1 /\ RegionPages \in Nat /\ SectorPages \in Nat \ {0}
    BY Sizes DEF Pages
  <1>2. SectorOf(p) \in Nat /\ SectorOf(p) * SectorPages <= p
    BY <1>1, DivNat DEF SectorOf
  <1>3. PICK count \in Nat : count = SectorCount BY <1>1, DivNat DEF SectorCount
  <1>4. RegionPages = count * SectorPages
    <2>1. BlockSectors \in Nat \ {0} BY SpoolAssumption
    <2>2. PICK block \in Nat \ {0} : block = BlockPages
      <3>1. BlockSectors * SectorPages >= BlockSectors BY <1>1, <2>1, MulGe
      <3> QED BY <1>1, <2>1, <3>1 DEF BlockPages
    <2>3. PICK q \in Int : q = RegionPages \div block
      <3>1. RegionPages \in Int /\ block \in Nat \ {0} BY <1>1
      <3>2. RegionPages \div block \in Int BY ONLY <3>1, DivModDef
      <3> QED BY <3>2
    <2>4. RegionPages = block * q
      <3>1. RegionPages \in Int /\ block \in Nat \ {0} BY <1>1, <2>2
      <3>2. RegionPages = block * (RegionPages \div block) + (RegionPages % block)
        BY ONLY <3>1, DivModDef
      <3>3. RegionPages % block = 0 BY <2>2, SpoolAssumption
      <3> QED BY <2>2, <2>3, <3>2, <3>3
    <2>5. PICK k \in Int : k = BlockSectors * q BY <2>1, <2>3
    <2>6. RegionPages = k * SectorPages
      BY <1>1, <2>1, <2>2, <2>3, <2>4, <2>5 DEF BlockPages
    <2>7. RegionPages \div SectorPages = k BY <1>1, <2>6, <2>5, DivOfMultiple
    <2> QED BY <1>3, <2>6, <2>7 DEF SectorCount
  <1>5. ~(count <= SectorOf(p))
    <2> SUFFICES ASSUME count <= SectorOf(p) PROVE FALSE OBVIOUS
    <2>1. count * SectorPages <= SectorOf(p) * SectorPages
      BY <1>1, <1>2, <1>3, MulMono
    <2>2. SectorOf(p) * SectorPages \in Nat BY <1>1, <1>2
    <2> QED BY <1>1, <1>2, <1>4, <2>1, <2>2
  <1> QED BY <1>2, <1>3, <1>5 DEF Sectors

\* A later page is in the same sector or a later one.
LEMMA SectorMono ==
  ASSUME NEW p \in Pages, NEW q \in Pages, p <= q
  PROVE  SectorOf(p) <= SectorOf(q)
  <1>1. p \in Int /\ q \in Int /\ SectorPages \in Nat \ {0} BY Sizes DEF Pages
  <1> QED BY <1>1, DivMono DEF SectorOf

\* A page that does not begin its sector shares it with the page before.
LEMMA PageBefore ==
  ASSUME NEW q \in Pages, q % SectorPages # 0
  PROVE  q - 1 \in Pages /\ SectorOf(q - 1) = SectorOf(q)
  <1>1. q \in Int /\ q \in Nat /\ SectorPages \in Nat \ {0} BY Sizes DEF Pages
  <1>2. PICK s \in Int : s = q \div SectorPages BY <1>1, DivModDef
  <1>3. PICK r \in 0 .. SectorPages - 1 : r = q % SectorPages BY <1>1, DivModDef
  <1>4. q = SectorPages * s + r
    <2>1. q = SectorPages * (q \div SectorPages) + (q % SectorPages)
      BY ONLY <1>1, DivModDef
    <2> QED BY <1>2, <1>3, <2>1
  <1>5. r - 1 \in 0 .. SectorPages - 1 BY <1>1, <1>3
  <1>6. q - 1 = SectorPages * s + (r - 1) /\ q - 1 \in Int BY <1>1, <1>3, <1>4
  <1>7. (q - 1) \div SectorPages = s BY ONLY <1>1, <1>2, <1>5, <1>6, DivModUnique
  <1>8. q # 0
    <2>1. 0 % SectorPages = 0
      <3>1. 0 = SectorPages * 0 + 0 /\ 0 \in 0 .. SectorPages - 1 /\ 0 \in Int BY <1>1
      <3> QED BY ONLY <1>1, <3>1, DivModUnique
    <2> QED BY <2>1
  <1>9. q - 1 \in Pages
    <2>1. RegionPages \in Nat /\ q \in 0 .. RegionPages - 1 BY Sizes DEF Pages
    <2> QED BY <1>8, <2>1 DEF Pages
  <1> QED BY <1>2, <1>7, <1>9 DEF SectorOf

-----------------------------------------------------------------------------
(* What the invariant says of numbers and pages.                             *)

\* The numbers in the state.
LEMMA Numbers ==
  ASSUME SpoolInv
  PROVE  /\ reservePos \in Nat /\ commitPos \in Nat /\ ackPos \in Nat
         /\ sendPos \in Nat /\ gapStart \in Nat
         /\ gapPages \in Nat /\ sessionId \in Nat
         /\ Len(pending) \in Nat /\ Len(sent) \in Nat
         /\ resv.start \in Nat /\ resv.total \in Nat /\ resv.done \in Nat
         /\ resv # NoResv => resv.total >= 2
         /\ \A i \in 1 .. Len(pending) :
              /\ pending[i] \in RecordSet /\ pending[i].at \in Nat
              /\ pending[i].total \in Nat /\ pending[i].total >= 2
              /\ RecordEnd(pending[i]) \in Nat
         /\ Used = reservePos - ackPos
  <1>1. SpoolTypeOK /\ pending \in Seq(RecordSet) /\ sent \in Seq(RecordSet) /\ ReservationInv
    BY DEF SpoolInv
  <1>2. /\ reservePos \in Nat /\ commitPos \in Nat /\ ackPos \in Nat
        /\ sendPos \in Nat /\ gapStart \in Nat /\ sessionId \in Nat
    <2>1. /\ reservePos \in Positions /\ commitPos \in Positions /\ ackPos \in Positions
          /\ sendPos \in Positions /\ gapStart \in Positions
          /\ sessionId \in 0 .. SessionLimit
      BY <1>1 DEF SpoolTypeOK
    <2>2. SessionLimit \in Nat BY Sizes
    <2> QED BY <2>1, <2>2, PositionsAreNat
  <1>3. gapPages \in Nat
    <2>1. LargestRecord \in Nat BY LargestIsLargest, Sizes
    <2> QED BY <1>1, <2>1 DEF SpoolTypeOK
  <1>4. Len(pending) \in Nat /\ Len(sent) \in Nat BY <1>1, LenProperties
  <1>5. resv.start \in Nat /\ resv.total \in Nat /\ resv.done \in Nat
    <2>1. LargestRecord \in Nat BY LargestIsLargest, Sizes
    <2>2. resv.start \in Positions /\ resv.total \in RecordSizes \cup {0}
          /\ resv.done \in 0 .. LargestRecord
      BY <1>1 DEF SpoolTypeOK
    <2>3. resv.start \in Nat BY <2>2, PositionsAreNat
    <2>4. resv.total \in Nat BY <2>2, Sizes
    <2> QED BY <2>1, <2>2, <2>3, <2>4
  <1>6. resv # NoResv => resv.total >= 2
    BY <1>1, Sizes DEF ReservationInv
  <1>7. ASSUME NEW i \in 1 .. Len(pending)
        PROVE /\ pending[i] \in RecordSet /\ pending[i].at \in Nat
              /\ pending[i].total \in Nat /\ pending[i].total >= 2
              /\ RecordEnd(pending[i]) \in Nat
    <2>1. pending[i] \in RecordSet BY <1>1, LenProperties
    <2>2. pending[i].at \in Nat /\ pending[i].total \in RecordSizes
      BY <2>1, PositionsAreNat DEF RecordSet
    <2>3. pending[i].total \in Nat /\ pending[i].total >= 2 BY <2>2, Sizes
    <2> QED BY <2>1, <2>2, <2>3 DEF RecordEnd
  <1> QED BY <1>2, <1>3, <1>4, <1>5, <1>6, <1>7 DEF Used

\* A reservation lies within one turn of the region.
LEMMA ReservationPages ==
  ASSUME SpoolInv, resv # NoResv, NEW k \in Nat, k < resv.total
  PROVE  /\ Page(resv.start + k) = Page(resv.start) + k
         /\ Page(resv.start + k) \in Pages
         /\ Generation(resv.start + k) = Generation(resv.start)
         /\ resv.start + k \in Nat
  <1>1. PICK start \in Nat : start = resv.start BY Numbers
  <1>2. PICK total \in Nat : total = resv.total BY Numbers
  <1>3. Page(start) + total <= RegionPages BY <1>1, <1>2 DEF SpoolInv, ReservationInv
  <1>4. Page(start) \in 0 .. RegionPages - 1 /\ RegionPages \in Nat BY PageFacts, Sizes
  <1>5. Page(start) + k < RegionPages BY <1>2, <1>3, <1>4
  <1> QED BY <1>1, <1>5, PageAhead, PageFacts

\* So the pages of a reservation are distinct.
LEMMA ReservationOnce ==
  ASSUME SpoolInv, resv # NoResv, NEW k \in Nat, k < resv.total,
         NEW m \in Nat, m < resv.total, k # m
  PROVE  Page(resv.start + k) # Page(resv.start + m)
  <1>1. Page(resv.start + k) = Page(resv.start) + k
        /\ Page(resv.start + m) = Page(resv.start) + m
    BY ReservationPages
  <1>2. Page(resv.start) \in Nat BY Numbers, PageFacts
  <1> QED BY <1>1, <1>2

\* They are no pages of a pending record either.
LEMMA ReservationApart ==
  ASSUME SpoolInv, Running, resv # NoResv, NEW m \in Nat, m < resv.total,
         NEW i \in 1 .. Len(pending), NEW k \in Nat, k < pending[i].total
  PROVE  Page(pending[i].at + k) # Page(resv.start + m)
  <1>1. /\ ackPos <= pending[i].at /\ RecordEnd(pending[i]) <= commitPos
        /\ resv.start = SkipGap(commitPos)
        /\ reservePos = resv.start + resv.total
        /\ reservePos - ackPos <= RegionPages
    BY DEF SpoolInv, PendingInv, CursorsInv
  <1>2. PICK at \in Nat, total \in Nat : at = pending[i].at /\ total = pending[i].total
    BY Numbers
  <1>3. PICK start \in Nat, all \in Nat : start = resv.start /\ all = resv.total
    BY Numbers
  <1>4. commitPos <= start /\ at + total <= commitPos /\ ackPos <= at
        /\ start + all - ackPos <= RegionPages
    <2>1. commitPos \in Nat /\ gapPages \in Nat BY Numbers
    <2>2. commitPos <= SkipGap(commitPos) BY <2>1 DEF SkipGap
    <2>3. RecordEnd(pending[i]) = at + total BY <1>2 DEF RecordEnd
    <2>4. ackPos \in Nat /\ RegionPages \in Nat BY Numbers, Sizes
    <2> QED BY <1>1, <1>2, <1>3, <2>1, <2>2, <2>3, <2>4
  <1>5. commitPos \in Nat /\ ackPos \in Nat /\ RegionPages \in Nat BY Numbers, Sizes
  <1>6. k < total /\ m < all BY <1>2, <1>3
  <1>7. at + k < start + m /\ (start + m) - (at + k) < RegionPages
    BY <1>4, <1>5, <1>6
  <1>8. Page(at + k) # Page(start + m) BY <1>7, PageOnce
  <1> QED BY <1>2, <1>3, <1>8

\* The pages of a pending record are pages of the region.
LEMMA PendingPages ==
  ASSUME SpoolInv, NEW i \in 1 .. Len(pending), NEW k \in Nat, k < pending[i].total
  PROVE  /\ Page(pending[i].at + k) \in Pages
         /\ Page(pending[i].at + k) \in RecordPages(pending[i])
         /\ pending[i].at + k \in Nat
  <1>1. pending[i].at \in Nat /\ pending[i].total \in Nat BY Numbers
  <1>2. pending[i].at + k \in pending[i].at .. pending[i].at + pending[i].total - 1
    BY <1>1
  <1>3. Page(pending[i].at + k) \in RecordPages(pending[i]) BY <1>2 DEF RecordPages
  <1>4. pending[i].at + k \in Nat BY <1>1
  <1> QED BY <1>3, <1>4, PageFacts

\* A pending record still holds when the pages it is on do not change.
LEMMA RecordKept ==
  ASSUME SpoolInv, NEW i \in 1 .. Len(pending), pending'[i] = pending[i],
         \A k \in Nat : k < pending[i].total =>
           flash'[Page(pending[i].at + k)] = flash[Page(pending[i].at + k)]
  PROVE  Holds(pending[i])'
  <1>1. PICK total \in Nat : total = pending[i].total /\ total >= 2 BY Numbers
  <1>2. PICK at \in Nat : at = pending[i].at BY Numbers
  <1>3. \A k \in Nat : k < total => flash'[Page(at + k)] = flash[Page(at + k)]
    BY <1>1, <1>2
  <1>4. flash'[Page(at)] = flash[Page(at)]
    <2>1. at + 0 = at /\ 0 < total BY <1>1
    <2> QED BY <1>3, <2>1
  <1>5. \A k \in 1 .. total - 1 : flash'[Page(at + k)] = flash[Page(at + k)] BY <1>3
  <1>6. i \in DOMAIN pending BY LenProperties DEF SpoolInv
  <1>7. Holds(pending[i]) BY <1>6 DEF SpoolInv, LiveBytesIntact
  <1> QED BY <1>1, <1>2, <1>4, <1>5, <1>7 DEF Holds

\* An erased page and a spoilt one are contents too.
LEMMA BlankAndBad == Blank \in Contents /\ Bad \in Contents
  <1>1. LargestRecord \in Nat BY LargestIsLargest, Sizes
  <1>2. (MaxGeneration + 1) * RegionPages \in Nat /\ SessionLimit \in Nat BY Sizes
  <1>3. 0 \in Positions /\ 0 \in 0 .. LargestRecord /\ 0 \in 0 .. SessionLimit
    BY <1>1, <1>2 DEF Positions
  <1> QED BY <1>3 DEF Blank, Bad, Contents

-----------------------------------------------------------------------------
(* Steps that leave most of the spool alone.                                 *)

\* The bookkeeping of the ring, when nothing of it changes but how far the
\* reservation is.
LEMMA CursorsKept ==
  ASSUME SpoolInv, Running' => Running,
         sessionId' = sessionId, UNCHANGED positions, pending' = pending,
         resv' = NoResv <=> resv = NoResv,
         resv'.start = resv.start, resv'.total = resv.total,
         resv'.phase = "headerVerify" => resv.phase = "headerVerify"
  PROVE  CursorsInv' /\ PendingInv' /\ GapInv'
  <1> USE DEF SpoolInv, positions
  <1>1. CursorsInv' BY DEF CursorsInv, SkipGap
  <1>2. PendingInv' BY DEF PendingInv, SkipGap, EndBefore, RecordEnd
  <1>3. GapInv' BY DEF GapInv, RecordEnd
  <1> QED BY <1>1, <1>2, <1>3

\* What is known of the records sent and of the headers, when they stay.
LEMMA HeadersKept ==
  ASSUME SpoolInv, Running' => Running,
         sessionId' = sessionId, UNCHANGED positions, resv' = resv, UNCHANGED records,
         flash' = flash
  PROVE  SendInv' /\ HeadersInv'
  <1> USE DEF SpoolInv, positions, records
  <1>1. SendInv' BY DEF SendInv, SkipGap, EndBefore, RecordEnd, NoHeaderFor
  <1>2. HeadersInv' BY DEF HeadersInv, NoHeaderFor
  <1> QED BY <1>1, <1>2

\* What the pages hold of the records, when neither changes.
LEMMA BytesKept ==
  ASSUME SpoolInv, sessionId' = sessionId, resv' = resv, pending' = pending,
         flash' = flash
  PROVE  LiveBytesIntact' /\ ReservedRoomIsErased'
  <1> USE DEF SpoolInv
  <1>1. LiveBytesIntact' BY DEF LiveBytesIntact, Holds
  <1>2. ReservedRoomIsErased' BY DEF ReservedRoomIsErased
  <1> QED BY <1>1, <1>2

\* A call that fails moves nothing; a commit fails on a spoilt header only.
LEMMA FailKeeps ==
  ASSUME SpoolInv, failed = "none",
         NEW call \in {"reserve", "verify", "commit", "erase", "flash"},
         call = "commit" => resv.phase = "headerVerify" /\ flash[Page(resv.start)] = Bad,
         Fails(call), retryPending' \in BOOLEAN,
         UNCHANGED << positions, resv, records, sectors, flash, busy >>
  PROVE  SpoolInv'
  <1> USE DEF Fails
  <1>1. Running' => Running BY DEF Running
  <1>2. CursorsInv' /\ PendingInv' /\ GapInv' BY <1>1, CursorsKept DEF records
  <1>3. SendInv' /\ HeadersInv' BY <1>1, HeadersKept
  <1>4. LiveBytesIntact' /\ ReservedRoomIsErased' BY BytesKept DEF records
  <1>5. SpoolTypeOK' BY DEF SpoolInv, SpoolTypeOK, positions, records, sectors
  <1>6. pending' \in Seq(RecordSet) /\ sent' \in Seq(RecordSet) BY DEF SpoolInv, records
  <1>7. QuietInv' BY DEF SpoolInv, QuietInv, positions, records, sectors
  <1>8. ReservationInv' BY DEF SpoolInv, ReservationInv
  <1>9. ErasedInv' BY DEF SpoolInv, ErasedInv, positions, records, sectors
  <1>10. FailedInv' /\ RetryIsReported' /\ BookkeepingNeverFails'
    BY DEF FailedInv, RetryIsReported, BookkeepingNeverFails
  <1> QED BY <1>2, <1>3, <1>4, <1>5, <1>6, <1>7, <1>8, <1>9, <1>10 DEF SpoolInv

-----------------------------------------------------------------------------
(* Sessions.                                                                 *)

\* A session begins on an empty ring, and no header in the Flash is of it.
LEMMA BeginKeeps == ASSUME SpoolInv, Begin PROVE SpoolInv'
  <1>1. /\ reservePos = 0 /\ commitPos = 0 /\ ackPos = 0 /\ sendPos = 0
        /\ gapPages = 0 /\ txRecord = NoRecord /\ pending = << >> /\ sent = << >>
        /\ resv = NoResv /\ ~capturing
    BY DEF SpoolInv, QuietInv, Begin, SpoolTypeOK
  <1>2. sessionId \in Nat /\ sessionId' = sessionId + 1 /\ sessionId' \in 0 .. SessionLimit
    BY Sizes DEF Begin, SpoolInv, SpoolTypeOK
  <1>3. Len(pending) = 0 /\ Len(sent) = 0 /\ DOMAIN pending = {} BY <1>1
  <1>4. \A p \in Pages : flash[p].kind = "header" =>
          flash[p].s \in Nat /\ flash[p].s <= sessionId
    BY DEF SpoolInv, HeadersInv
  <1> USE DEF Begin, positions, records
  <1>5. SpoolTypeOK' BY <1>1, <1>2, <1>3 DEF SpoolInv, SpoolTypeOK
  <1>6. pending' \in Seq(RecordSet) /\ sent' \in Seq(RecordSet) BY DEF SpoolInv
  <1>7. QuietInv' BY <1>1, <1>2 DEF QuietInv
  <1>8. ReservationInv' BY <1>1 DEF ReservationInv
  <1>9. CursorsInv'
    <2>1. RegionPages \in Nat BY Sizes
    <2> QED BY <1>1, <2>1 DEF CursorsInv, NoResv
  <1>10. PendingInv' BY <1>1, <1>3 DEF PendingInv, EndBefore
  <1>11. GapInv' BY <1>1 DEF GapInv
  <1>12. SendInv' BY <1>1, <1>3 DEF SendInv, EndBefore
  <1>13. HeadersInv'
    <2>1. \A p \in Pages : flash[p].kind = "header" => flash[p].s # sessionId'
      BY <1>2, <1>4
    <2>2. \A p \in Pages : flash[p].kind = "header" => flash[p].s <= sessionId'
      BY <1>2, <1>4
    <2> QED BY <1>1, <2>1, <2>2 DEF SpoolInv, HeadersInv, NoResv
  <1>14. ErasedInv' BY <1>1, <1>3 DEF ErasedInv, SpoolInv
  <1>15. FailedInv' /\ RetryIsReported' /\ BookkeepingNeverFails'
    BY <1>1 DEF FailedInv, RetryIsReported, BookkeepingNeverFails, NoResv
  <1>16. LiveBytesIntact' /\ ReservedRoomIsErased'
    BY <1>1, <1>3 DEF LiveBytesIntact, ReservedRoomIsErased
  <1> QED BY <1>5, <1>6, <1>7, <1>8, <1>9, <1>10, <1>11, <1>12, <1>13, <1>14, <1>15,
             <1>16 DEF SpoolInv

LEMMA StopCaptureKeeps == ASSUME SpoolInv, StopCapture PROVE SpoolInv'
  <1> USE DEF StopCapture
  <1>1. Running' => Running BY DEF Running, SpoolInv, SpoolTypeOK
  <1>2. CursorsInv' /\ PendingInv' /\ GapInv' BY <1>1, CursorsKept DEF records
  <1>3. SendInv' /\ HeadersInv' BY <1>1, HeadersKept DEF device
  <1>4. LiveBytesIntact' /\ ReservedRoomIsErased' BY BytesKept DEF records, device
  <1>5. SpoolTypeOK' BY DEF SpoolInv, SpoolTypeOK, positions, records, sectors, device
  <1>6. pending' \in Seq(RecordSet) /\ sent' \in Seq(RecordSet) BY DEF SpoolInv, records
  <1>7. QuietInv' BY DEF SpoolInv, QuietInv, SpoolTypeOK, positions, records, sectors
  <1>8. ReservationInv' BY DEF SpoolInv, ReservationInv
  <1>9. ErasedInv' BY DEF SpoolInv, ErasedInv, positions, records, sectors, device
  <1>10. FailedInv' /\ RetryIsReported' /\ BookkeepingNeverFails'
    BY DEF SpoolInv, FailedInv, RetryIsReported, BookkeepingNeverFails, NoResv
  <1> QED BY <1>2, <1>3, <1>4, <1>5, <1>6, <1>7, <1>8, <1>9, <1>10 DEF SpoolInv

\* The tail of a capture is dropped: the reserve position goes back to where
\* the reservation began, before the gap if it made one.
LEMMA DiscardTailKeeps == ASSUME SpoolInv, DiscardTail PROVE SpoolInv'
  <1> USE DEF DiscardTail
  <1>1. ~Running' BY DEF Running, SpoolInv, SpoolTypeOK
  <1>2. Running BY DEF Running, SpoolInv, SpoolTypeOK
  <1>3. reservePos' \in Positions /\ gapStart' \in Positions /\ gapPages' \in 0 .. LargestRecord - 1
    <2>1. CASE resv = NoResv BY <2>1 DEF SpoolInv, SpoolTypeOK
    <2>2. CASE resv # NoResv
      <3>1. reservePos = resv.start + resv.total BY <1>2, <2>2 DEF SpoolInv, CursorsInv
      <3>2. reservePos - resv.total = resv.start BY <3>1, Numbers
      <3>3. resv.start \in Positions /\ gapStart \in Positions BY DEF SpoolInv, SpoolTypeOK
      <3>4. 0 \in Positions /\ 0 \in 0 .. LargestRecord - 1
        <4>1. LargestRecord \in Nat /\ LargestRecord >= 2 BY LargestIsLargest, Sizes
        <4>2. (MaxGeneration + 1) * RegionPages \in Nat BY Sizes
        <4> QED BY <4>1, <4>2 DEF Positions
      <3>5. gapPages \in 0 .. LargestRecord - 1 BY DEF SpoolInv, SpoolTypeOK
      <3> QED BY <2>2, <3>2, <3>3, <3>4, <3>5 DEF AbortReservation, ReleaseGap, KeepGap
    <2> QED BY <2>1, <2>2
  <1>4. resv' = NoResv /\ failed' # "none" /\ ~capturing' /\ session
    BY DEF SpoolInv, SpoolTypeOK
  <1>5. SpoolTypeOK'
    <2>1. resv' \in [phase: {"none", "page", "verify", "header", "headerVerify"},
                     start: Positions, total: RecordSizes \cup {0}, done: 0 .. LargestRecord]
      <3>1. LargestRecord \in Nat BY LargestIsLargest, Sizes
      <3>2. (MaxGeneration + 1) * RegionPages \in Nat BY Sizes
      <3>3. 0 \in Positions /\ 0 \in 0 .. LargestRecord BY <3>1, <3>2 DEF Positions
      <3> QED BY <1>4, <3>3 DEF NoResv
    <2>2. failed' \in {"none", "reserve", "verify", "commit", "peek", "sent", "ack",
                       "erase", "flash", "discarded"}
      BY DEF SpoolInv, SpoolTypeOK
    <2> QED BY <1>3, <1>4, <2>1, <2>2 DEF SpoolInv, SpoolTypeOK, records, sectors, device
  <1>6. pending' \in Seq(RecordSet) /\ sent' \in Seq(RecordSet) BY DEF SpoolInv, records
  <1>7. QuietInv' BY <1>4 DEF SpoolInv, QuietInv
  <1>8. ReservationInv' BY DEF ReservationInv
  <1>9. CursorsInv' /\ PendingInv' /\ GapInv' /\ SendInv'
    BY <1>1, <1>4 DEF CursorsInv, PendingInv, GapInv, SendInv
  <1>10. HeadersInv'
    BY <1>1, <1>4 DEF SpoolInv, HeadersInv, NoResv, device
  <1>11. ErasedInv' BY <1>4 DEF SpoolInv, ErasedInv, records, sectors, device
  <1>12. FailedInv' /\ RetryIsReported' /\ BookkeepingNeverFails'
    BY <1>4 DEF SpoolInv, FailedInv, RetryIsReported, BookkeepingNeverFails
  <1>13. LiveBytesIntact' /\ ReservedRoomIsErased'
    BY <1>4 DEF SpoolInv, LiveBytesIntact, Holds, ReservedRoomIsErased, records, device
  <1> QED BY <1>5, <1>6, <1>7, <1>8, <1>9, <1>10, <1>11, <1>12, <1>13 DEF SpoolInv

\* After a cleanup the ring is empty.
LEMMA CleanupKeeps ==
  ASSUME SpoolInv, ~capturing, CleanupDone
  PROVE  SpoolInv'
  <1> USE DEF CleanupDone, ReleaseGap
  <1>1. ~Running' /\ resv' = NoResv /\ ~capturing' BY DEF Running, SpoolInv, QuietInv
  <1>2. Len(pending') = 0 /\ Len(sent') = 0 /\ DOMAIN pending' = {} OBVIOUS
  <1>3. SpoolTypeOK'
    <2>1. LargestRecord \in Nat /\ LargestRecord >= 2 BY LargestIsLargest, Sizes
    <2>2. (MaxGeneration + 1) * RegionPages \in Nat /\ InFlightMax \in Nat BY Sizes
    <2>3. 0 \in Positions /\ 0 \in 0 .. LargestRecord - 1 BY <2>1, <2>2 DEF Positions
    <2>4. {reservePos, commitPos, ackPos, sendPos, gapStart}' \subseteq Positions
      BY <2>3
    <2>5. /\ gapPages' \in 0 .. LargestRecord - 1 /\ Len(sent') <= InFlightMax
          /\ reclaimable' \subseteq Sectors
      BY <1>2, <2>2, <2>3
    <2> QED BY <1>1, <1>2, <2>4, <2>5 DEF SpoolInv, SpoolTypeOK, device
  <1>4. pending' \in Seq(RecordSet) /\ sent' \in Seq(RecordSet) OBVIOUS
  <1>5. QuietInv' BY <1>1 DEF QuietInv
  <1>6. ReservationInv' BY <1>1 DEF ReservationInv
  <1>7. CursorsInv' /\ PendingInv' /\ GapInv' /\ SendInv'
    BY <1>1 DEF CursorsInv, PendingInv, GapInv, SendInv
  <1>8. HeadersInv' BY <1>1 DEF SpoolInv, HeadersInv, NoResv, device
  <1>9. ErasedInv' BY <1>1, <1>2 DEF SpoolInv, ErasedInv, device
  <1>10. FailedInv' /\ RetryIsReported' /\ BookkeepingNeverFails'
    BY <1>1 DEF SpoolInv, FailedInv, RetryIsReported, BookkeepingNeverFails, device, NoResv
  <1>11. LiveBytesIntact' /\ ReservedRoomIsErased'
    BY <1>1, <1>2 DEF LiveBytesIntact, ReservedRoomIsErased
  <1> QED BY <1>3, <1>4, <1>5, <1>6, <1>7, <1>8, <1>9, <1>10, <1>11 DEF SpoolInv

-----------------------------------------------------------------------------
(* Erasing.                                                                  *)

\* The record pages between the ACK and the reserve position are live.
LEMMA PendingIsLive ==
  ASSUME SpoolInv, Running, NEW i \in 1 .. Len(pending), NEW p \in RecordPages(pending[i])
  PROVE  p \in LivePages /\ p \in Pages
  <1>1. PICK x \in pending[i].at .. pending[i].at + pending[i].total - 1 : p = Page(x)
    BY DEF RecordPages
  <1>2. PICK at \in Nat, total \in Nat : at = pending[i].at /\ total = pending[i].total
    BY Numbers
  <1>3. ackPos \in Nat /\ reservePos \in Nat /\ commitPos \in Nat BY Numbers
  <1>4. RecordEnd(pending[i]) = at + total BY <1>2 DEF RecordEnd
  <1>5. ackPos <= at /\ at + total <= commitPos /\ commitPos <= reservePos
    BY <1>2, <1>4 DEF SpoolInv, PendingInv, CursorsInv
  <1>6. x \in at .. at + total - 1 BY <1>1, <1>2
  <1>7. x \in ackPos .. reservePos - 1 /\ x \in Nat BY <1>3, <1>5, <1>6
  <1> QED BY <1>1, <1>7, PageFacts DEF LivePages

\* An erase of sectors without records destroys none.
LEMMA EraseKeeps ==
  ASSUME SpoolInv, NEW set, set \subseteq Sectors, IssueErase(set),
         erasing = {}, resv = NoResv,
         \A i \in 1 .. Len(pending) : \A p \in RecordPages(pending[i]) : SectorOf(p) \notin set,
         UNCHANGED << control, positions, resv, records, erased, dirty, reclaimable,
                      retryPending >>
  PROVE  SpoolInv'
  <1> USE DEF control, positions, records
  <1>1. flash' = [p \in Pages |-> IF p \in PagesOf(set) THEN Bad ELSE flash[p]]
        /\ erasing' = set /\ busy'
    BY DEF IssueErase
  <1>2. \A p \in Pages : /\ flash'[p].kind = "header" => flash'[p] = flash[p]
                         /\ SectorOf(p) \notin set => flash'[p] = flash[p]
    BY <1>1 DEF PagesOf, Bad
  <1>3. Running' = Running BY DEF Running
  <1>4. SpoolTypeOK'
    <2>1. flash' \in [Pages -> Contents] BY <1>1, BlankAndBad DEF SpoolInv, SpoolTypeOK
    <2> QED BY <1>1, <2>1 DEF SpoolInv, SpoolTypeOK
  <1>5. pending' \in Seq(RecordSet) /\ sent' \in Seq(RecordSet) BY DEF SpoolInv
  <1>6. QuietInv' BY DEF SpoolInv, QuietInv
  <1>7. ReservationInv' BY DEF SpoolInv, ReservationInv
  <1>8. CursorsInv' /\ PendingInv' /\ GapInv' BY <1>3, CursorsKept
  <1>10. SendInv'
    <2>1. sendPos \in Nat BY Numbers
    <2>2. NoHeaderFor(sendPos) => NoHeaderFor(sendPos)'
      BY <1>2, <2>1, PageFacts DEF NoHeaderFor
    <2> QED BY <1>3, <2>2 DEF SpoolInv, SendInv, EndBefore, RecordEnd, SkipGap
  <1>11. HeadersInv'
    <2>1. gapStart \in Nat BY Numbers
    <2>2. NoHeaderFor(gapStart) => NoHeaderFor(gapStart)'
      BY <1>2, <2>1, PageFacts DEF NoHeaderFor
    <2>3. resv.phase # "headerVerify" BY DEF NoResv
    <2> QED BY <1>2, <1>3, <2>2, <2>3 DEF SpoolInv, HeadersInv
  <1>12. ErasedInv'
    <2>1. \A p \in Pages : SectorOf(p) \in erased \ set => flash'[p] = Blank
      BY <1>2 DEF SpoolInv, ErasedInv
    <2>2. \A i \in 1 .. Len(pending) : \A p \in RecordPages(pending[i]) :
            SectorOf(p) \notin erased \cup set
      BY DEF SpoolInv, ErasedInv
    <2>3. capturing /\ Page(reservePos) % SectorPages # 0 =>
            \A p \in Pages :
              /\ SectorOf(p) = SectorOf(Page(reservePos)) /\ Page(reservePos) <= p
              /\ SectorOf(p) \in dirty \ set
              => flash'[p] = Blank
      BY <1>2 DEF SpoolInv, ErasedInv
    <2> QED BY <1>1, <2>1, <2>2, <2>3 DEF ErasedInv, RecordPages
  <1>13. FailedInv' /\ RetryIsReported'
    BY DEF SpoolInv, FailedInv, RetryIsReported
  <1>14. BookkeepingNeverFails'
    BY DEF SpoolInv, FailedInv, BookkeepingNeverFails, NoResv
  <1>15. LiveBytesIntact'
    <2> SUFFICES ASSUME NEW i \in DOMAIN pending PROVE Holds(pending[i])'
      BY DEF LiveBytesIntact
    <2>1. i \in 1 .. Len(pending) BY LenProperties DEF SpoolInv
    <2>2. \A k \in Nat : k < pending[i].total =>
            flash'[Page(pending[i].at + k)] = flash[Page(pending[i].at + k)]
      BY <1>2, <2>1, PendingPages
    <2> QED BY <2>1, <2>2, RecordKept
  <1>16. ReservedRoomIsErased' BY DEF ReservedRoomIsErased
  <1> QED BY <1>4, <1>5, <1>6, <1>7, <1>8, <1>10, <1>11, <1>12, <1>13, <1>14, <1>15,
             <1>16 DEF SpoolInv

\* The block erased ahead of the writer holds no record that is not acked.
LEMMA EraseForwardKeeps ==
  ASSUME SpoolInv, NEW target, EraseForward(target)
  PROVE  SpoolInv'
  <1>1. CASE failed' = "erase" /\ Plan(LargestRecord) = "error"
    <2>1. Fails("erase") /\ UNCHANGED << erasing, flash, busy >>
      BY <1>1 DEF EraseForward, PumpRuns, control
    <2>2. failed = "none" BY DEF EraseForward, PumpRuns
    <2>3. retryPending' \in BOOLEAN BY DEF EraseForward, SpoolInv, SpoolTypeOK
    <2> QED BY <2>1, <2>2, <2>3, FailKeeps DEF EraseForward, sectors
  <1>2. CASE ~(failed' = "erase" /\ Plan(LargestRecord) = "error")
    <2> DEFINE start == StartPos(LargestRecord)
               free  == RegionPages - Used - WrapGap(LargestRecord)
               block == Block(SectorOf(Page(start + ErasedFrom(start, free))))
    <2>1. BlockReclaimable(block) /\ IssueErase(block) /\ UNCHANGED control
      BY <1>2 DEF EraseForward, Fails
    <2>2. PumpRuns /\ resv = NoResv
          /\ UNCHANGED << positions, resv, records, erased, dirty, reclaimable, retryPending >>
      BY DEF EraseForward
    <2>3. block \subseteq Sectors BY DEF Block
    <2> HIDE DEF block
    <2>4. session /\ Running /\ erasing = {}
      BY <2>2 DEF PumpRuns, Running, SpoolInv, SpoolTypeOK
    <2>5. ASSUME NEW i \in 1 .. Len(pending), NEW p \in RecordPages(pending[i])
          PROVE  SectorOf(p) \notin block
      <3> SUFFICES ASSUME SectorOf(p) \in block PROVE FALSE OBVIOUS
      <3>1. SectorOf(p) \notin erased BY <2>5 DEF SpoolInv, ErasedInv
      <3>2. ~SectorProtected(SectorOf(p)) BY <2>1, <3>1 DEF BlockReclaimable
      <3>3. p \in LivePages /\ p \in Pages BY <2>4, <2>5, PendingIsLive
      <3>4. p \in PagesOf({SectorOf(p)}) BY <3>3 DEF PagesOf
      <3> QED BY <2>4, <3>2, <3>3, <3>4 DEF SectorProtected
    <2> QED BY <2>1, <2>2, <2>3, <2>4, <2>5, EraseKeeps
  <1> QED BY <1>1, <1>2

\* Between sessions there is nothing to be lost.
LEMMA EraseIdleKeeps == ASSUME SpoolInv, EraseIdle PROVE SpoolInv'
  <1>1. pending = << >> /\ resv = NoResv /\ erasing = {}
    BY DEF EraseIdle, SpoolInv, QuietInv, SpoolTypeOK
  <1>2. Len(pending) = 0 BY <1>1
  <1>3. PICK set : set \subseteq Sectors /\ IssueErase(set) BY DEF EraseIdle, Block
  <1> QED BY <1>1, <1>2, <1>3, EraseKeeps DEF EraseIdle

\* An erase that is over has left blank sectors.
LEMMA PollEraseKeeps == ASSUME SpoolInv, PollErase PROVE SpoolInv'
  <1> USE DEF PollErase
  <1>1. Running' = Running /\ resv = NoResv BY DEF Running, control, SpoolInv, QuietInv
  <1>2. CursorsInv' /\ PendingInv' /\ GapInv' BY <1>1, CursorsKept DEF records, control
  <1>3. SendInv' /\ HeadersInv' BY <1>1, HeadersKept DEF device, control
  <1>4. LiveBytesIntact' /\ ReservedRoomIsErased' BY BytesKept DEF records, device, control
  <1>5. SpoolTypeOK' BY DEF SpoolInv, SpoolTypeOK, positions, records, device, control
  <1>6. pending' \in Seq(RecordSet) /\ sent' \in Seq(RecordSet) BY DEF SpoolInv, records
  <1>7. QuietInv' BY DEF SpoolInv, QuietInv, positions, records, control
  <1>8. ReservationInv' BY DEF SpoolInv, ReservationInv
  <1>9. ErasedInv'
    <2>1. \A p \in Pages : SectorOf(p) \in erased' => flash[p] = Blank
      BY DEF SpoolInv, ErasedInv
    <2>2. \A i \in 1 .. Len(pending) : \A p \in RecordPages(pending[i]) :
            SectorOf(p) \notin erased'
      BY DEF SpoolInv, ErasedInv
    <2>3. capturing /\ Page(reservePos) % SectorPages # 0 =>
            \A p \in Pages :
              /\ SectorOf(p) = SectorOf(Page(reservePos)) /\ Page(reservePos) <= p
              /\ SectorOf(p) \in dirty'
              => flash[p] = Blank
      BY DEF SpoolInv, ErasedInv
    <2> QED BY <1>1, <2>1, <2>2, <2>3
        DEF ErasedInv, RecordPages, control, positions, records, device
  <1>10. FailedInv' /\ RetryIsReported' /\ BookkeepingNeverFails'
    BY DEF SpoolInv, FailedInv, RetryIsReported, BookkeepingNeverFails, control, device
  <1> QED BY <1>2, <1>3, <1>4, <1>5, <1>6, <1>7, <1>8, <1>9, <1>10 DEF SpoolInv

\* What the Flash finishes is a program, or an erase beside which there is no
\* reservation and in whose sectors there is no record.
LEMMA DeviceDoneKeeps == ASSUME SpoolInv, DeviceDone PROVE SpoolInv'
  <1> USE DEF DeviceDone, control, positions, records, sectors
  <1>1. flash' = [p \in Pages |-> IF p \in PagesOf(erasing) THEN Blank ELSE flash[p]]
        /\ ~busy'
    OBVIOUS
  <1>2. \A p \in Pages : /\ flash'[p].kind = "header" => flash'[p] = flash[p]
                         /\ flash[p] = Blank => flash'[p] = Blank
                         /\ SectorOf(p) \in erasing => flash'[p] = Blank
                         /\ SectorOf(p) \notin erasing => flash'[p] = flash[p]
    BY <1>1 DEF PagesOf, Blank
  <1>3. Running' = Running BY DEF Running
  <1>4. resv # NoResv => flash' = flash
    <2>1. resv # NoResv => erasing = {} BY DEF SpoolInv, QuietInv
    <2>2. flash = [p \in Pages |-> flash[p]]
      BY DEF SpoolInv, SpoolTypeOK
    <2>3. erasing = {} => flash' = [p \in Pages |-> flash[p]] BY <1>1 DEF PagesOf
    <2> QED BY <2>1, <2>2, <2>3
  <1>5. SpoolTypeOK'
    <2>1. flash' \in [Pages -> Contents] BY <1>1, BlankAndBad DEF SpoolInv, SpoolTypeOK
    <2> QED BY <1>1, <2>1 DEF SpoolInv, SpoolTypeOK
  <1>6. pending' \in Seq(RecordSet) /\ sent' \in Seq(RecordSet) BY DEF SpoolInv
  <1>7. QuietInv' BY DEF SpoolInv, QuietInv
  <1>8. ReservationInv' BY DEF SpoolInv, ReservationInv
  <1>9. CursorsInv' /\ PendingInv' /\ GapInv' BY <1>3, CursorsKept
  <1>10. SendInv'
    <2>1. sendPos \in Nat BY Numbers
    <2>2. NoHeaderFor(sendPos) => NoHeaderFor(sendPos)'
      BY <1>2, <2>1, PageFacts DEF NoHeaderFor
    <2> QED BY <1>3, <2>2 DEF SpoolInv, SendInv, EndBefore, RecordEnd, SkipGap
  <1>11. HeadersInv'
    <2>1. gapStart \in Nat BY Numbers
    <2>2. NoHeaderFor(gapStart) => NoHeaderFor(gapStart)'
      BY <1>2, <2>1, PageFacts DEF NoHeaderFor
    <2>3. resv.phase = "headerVerify" => flash' = flash BY <1>4 DEF NoResv
    <2> QED BY <1>2, <1>3, <2>2, <2>3 DEF SpoolInv, HeadersInv
  <1>12. ErasedInv'
    <2>1. \A p \in Pages : SectorOf(p) \in erased \ erasing => flash'[p] = Blank
      BY <1>2 DEF SpoolInv, ErasedInv
    <2>2. \A p \in Pages : SectorOf(p) \in erasing => flash'[p] = Blank BY <1>2
    <2>3. capturing /\ Page(reservePos) % SectorPages # 0 =>
            \A p \in Pages :
              /\ SectorOf(p) = SectorOf(Page(reservePos)) /\ Page(reservePos) <= p
              /\ SectorOf(p) \in dirty \ erasing
              => flash'[p] = Blank
      BY <1>2 DEF SpoolInv, ErasedInv
    <2> QED BY <2>1, <2>2, <2>3 DEF SpoolInv, ErasedInv, RecordPages
  <1>13. FailedInv' /\ RetryIsReported' BY DEF SpoolInv, FailedInv, RetryIsReported
  <1>14. BookkeepingNeverFails'
    <2>1. failed = "commit" /\ capturing => flash' = flash
      BY <1>4 DEF SpoolInv, FailedInv, NoResv
    <2> QED BY <2>1 DEF SpoolInv, BookkeepingNeverFails
  <1>15. LiveBytesIntact'
    <2>1. ASSUME NEW i \in DOMAIN pending PROVE Holds(pending[i])'
      <3>1. i \in 1 .. Len(pending) BY <2>1, LenProperties DEF SpoolInv
      <3>2. \A p \in RecordPages(pending[i]) : SectorOf(p) \notin erasing
        BY <3>1 DEF SpoolInv, ErasedInv
      <3>3. \A k \in Nat : k < pending[i].total =>
              flash'[Page(pending[i].at + k)] = flash[Page(pending[i].at + k)]
        BY <1>2, <3>1, <3>2, PendingPages
      <3> QED BY <3>1, <3>3, RecordKept
    <2> QED BY <1>4, <2>1 DEF SpoolInv, LiveBytesIntact
  <1>16. ReservedRoomIsErased' BY <1>4 DEF SpoolInv, ReservedRoomIsErased
  <1> QED BY <1>5, <1>6, <1>7, <1>8, <1>9, <1>10, <1>11, <1>12, <1>13, <1>14, <1>15,
             <1>16 DEF SpoolInv

LEMMA FlashErrorKeeps == ASSUME SpoolInv, FlashError PROVE SpoolInv'
  <1>1. failed = "none" /\ Fails("flash") BY DEF FlashError
  <1>2. retryPending' \in BOOLEAN BY DEF FlashError, device, SpoolInv, SpoolTypeOK
  <1> QED BY <1>1, <1>2, FailKeeps DEF FlashError, device

-----------------------------------------------------------------------------
(* Writing a record.                                                         *)

\* Programming changes one page.
LEMMA ProgramEffect ==
  ASSUME SpoolInv, NEW pos \in Nat, NEW content \in Contents, Program(pos, content)
  PROVE  /\ \A p \in Pages : p # Page(pos) => flash'[p] = flash[p]
         /\ flash'[Page(pos)] \in {content, Bad}
         /\ flash' \in [Pages -> Contents] /\ busy' = TRUE /\ retryPending' = TRUE
  <1>1. flash \in [Pages -> Contents] /\ Page(pos) \in Pages
    BY PageFacts DEF SpoolInv, SpoolTypeOK
  <1>2. PICK stored \in BOOLEAN :
          flash' = [flash EXCEPT ![Page(pos)] =
                      IF stored /\ flash[Page(pos)] = Blank THEN content ELSE Bad]
    BY DEF Program
  <1> QED BY <1>1, <1>2, BlankAndBad DEF Program

\* The positions of a reservation lie before the reserve position.
LEMMA ReservationPositions ==
  ASSUME SpoolInv, Running, resv # NoResv, NEW m \in Nat, m < resv.total
  PROVE  resv.start + m \in Nat /\ resv.start + m < reservePos /\ resv.start + m \in Positions
  <1>1. PICK start \in Nat, total \in Nat : start = resv.start /\ total = resv.total
    BY Numbers
  <1>2. reservePos = start + total BY <1>1 DEF SpoolInv, CursorsInv
  <1>3. start + m < start + total /\ start + m \in Nat BY <1>1
  <1>4. PICK last \in Nat : last = (MaxGeneration + 1) * RegionPages BY Sizes
  <1>5. start + total <= last BY <1>2, <1>4 DEF SpoolInv, SpoolTypeOK, Positions
  <1>6. start + m \in 0 .. last BY <1>3, <1>5
  <1> QED BY <1>1, <1>2, <1>3, <1>4, <1>6 DEF Positions

\* What a program on a page of the reservation leaves of the rest: every record,
\* every erased sector, and the room behind the reservation.
LEMMA ReservedProgramKeeps ==
  ASSUME SpoolInv, Running, resv # NoResv, NEW m \in Nat, m < resv.total,
         NEW content \in Contents, Program(resv.start + m, content),
         UNCHANGED << sessionId, capturing, reservePos, pending, sectors >>,
         resv'.start = resv.start, resv'.total = resv.total, resv' # NoResv
  PROVE  /\ flash' \in [Pages -> Contents]
         /\ \A p \in Pages : p # Page(resv.start + m) => flash'[p] = flash[p]
         /\ flash'[Page(resv.start + m)] \in {content, Bad}
         /\ \A k \in Nat : k < resv.total /\ k # m =>
              flash'[Page(resv.start + k)] = flash[Page(resv.start + k)]
         /\ \A i \in DOMAIN pending : Holds(pending[i])'
         /\ ErasedInv'
  <1>1. PICK pos \in Nat : pos = resv.start + m BY ReservationPages
  <1>2. /\ \A p \in Pages : p # Page(pos) => flash'[p] = flash[p]
        /\ flash'[Page(pos)] \in {content, Bad}
        /\ flash' \in [Pages -> Contents] /\ busy' = TRUE
    BY <1>1, ProgramEffect
  <1>3. \A k \in Nat : k < resv.total /\ k # m =>
          flash'[Page(resv.start + k)] = flash[Page(resv.start + k)]
    BY <1>1, <1>2, ReservationOnce, ReservationPages
  <1>4. ASSUME NEW i \in DOMAIN pending PROVE Holds(pending[i])'
    <2>1. i \in 1 .. Len(pending) BY <1>4, LenProperties DEF SpoolInv
    <2>2. \A k \in Nat : k < pending[i].total =>
            flash'[Page(pending[i].at + k)] = flash[Page(pending[i].at + k)]
      BY <1>1, <1>2, <2>1, ReservationApart, PendingPages
    <2> QED BY <2>1, <2>2, RecordKept
  <1>5. Page(pos) \in Pages /\ SectorOf(Page(pos)) \notin erased
    <2>1. pos \in resv.start .. resv.start + resv.total - 1
      <3>1. PICK start \in Nat, total \in Nat : start = resv.start /\ total = resv.total
        BY Numbers
      <3>2. m < total /\ pos = start + m BY <1>1, <3>1
      <3>3. pos \in start .. start + total - 1 BY <3>2
      <3> QED BY <3>1, <3>3
    <2>2. Page(pos) \in RecordPages(Record(sessionId, resv.start, resv.total))
      BY <2>1 DEF RecordPages, Record
    <2> QED BY <2>2, PageFacts DEF SpoolInv, ErasedInv
  <1>6. Page(reservePos) % SectorPages # 0 => Page(pos) < Page(reservePos)
    <2>1. PICK start \in Nat, total \in Nat : start = resv.start /\ total = resv.total
      BY Numbers
    <2>2. reservePos = start + total /\ Page(start) + total <= RegionPages
      BY <2>1 DEF SpoolInv, CursorsInv, ReservationInv
    <2>3. Page(start) \in Nat /\ RegionPages \in Nat BY PageFacts, Sizes
    <2>4. CASE Page(start) + total = RegionPages
      <3>1. Page(reservePos) = 0 BY <2>2, <2>4, PageAtEnd
      <3>2. 0 % SectorPages = 0
        <4>1. SectorPages \in Nat \ {0} /\ 0 \in Int /\ 0 \in 0 .. SectorPages - 1 BY Sizes
        <4> QED BY ONLY <4>1, ModSmall
      <3> QED BY <3>1, <3>2
    <2>5. CASE Page(start) + total < RegionPages
      <3>1. Page(reservePos) = Page(start) + total BY <2>2, <2>5, PageAhead
      <3>2. Page(pos) = Page(start) + m BY <1>1, <2>1, ReservationPages
      <3>3. m < total BY <2>1
      <3> QED BY <2>3, <3>1, <3>2, <3>3
    <2> QED BY <2>2, <2>3, <2>4, <2>5
  <1>7. ErasedInv'
    <2> USE DEF sectors
    <2>1. \A p \in Pages : SectorOf(p) \in erased \ erasing => flash'[p] = Blank
      BY <1>2, <1>5 DEF SpoolInv, ErasedInv
    <2>2. capturing /\ Page(reservePos) % SectorPages # 0 =>
            \A p \in Pages :
              /\ SectorOf(p) = SectorOf(Page(reservePos)) /\ Page(reservePos) <= p
              /\ SectorOf(p) \in dirty \ erasing
              => flash'[p] = Blank
      <3>1. Page(reservePos) \in Nat /\ Page(pos) \in Nat BY Numbers, PageFacts
      <3>2. ASSUME Page(reservePos) % SectorPages # 0,
                   NEW p \in Pages, Page(reservePos) <= p
            PROVE  p # Page(pos)
        BY <1>6, <3>1, <3>2 DEF Pages
      <3> QED BY <1>2, <3>2 DEF SpoolInv, ErasedInv
    <2>3. \A p \in RecordPages(Record(sessionId, resv.start, resv.total)) :
            SectorOf(p) \notin erased
      BY DEF SpoolInv, ErasedInv
    <2> QED BY <1>2, <2>1, <2>2, <2>3 DEF SpoolInv, ErasedInv, RecordPages, Record
  <1> QED BY <1>1, <1>2, <1>3, <1>4, <1>7

\* A data page of a reservation is programmed.
LEMMA WritePageKeeps == ASSUME SpoolInv, WritePage PROVE SpoolInv'
  <1>1. /\ capturing /\ failed = "none" /\ erasing = {} /\ resv.phase = "page"
        /\ Program(DataPos, Data(sessionId, DataPos, resv.done))
        /\ resv' = [resv EXCEPT !.phase = "verify"]
        /\ UNCHANGED << control, positions, records, sectors >>
    BY DEF WritePage, PumpRuns
  <1>2. Running /\ resv # NoResv /\ (Running' <=> Running)
    BY <1>1 DEF Running, NoResv, SpoolInv, SpoolTypeOK, control
  <1>3. PICK done \in Nat : done = resv.done BY Numbers
  <1>4. PICK total \in Nat : total = resv.total /\ total \in RecordSizes /\ done + 1 < total
    BY <1>1, <1>2, <1>3, Numbers DEF SpoolInv, ReservationInv
  <1>5. PICK start \in Nat : start = resv.start BY Numbers
  <1>6. PICK m \in Nat : m = 1 + done OBVIOUS
  <1>7. DataPos = start + m /\ m < resv.total /\ m < total
    BY <1>3, <1>4, <1>5, <1>6 DEF DataPos
  <1>8. Data(sessionId, DataPos, done) \in Contents
    <2>1. DataPos \in Positions BY <1>2, <1>5, <1>7, ReservationPositions
    <2>2. LargestRecord \in Nat /\ total <= LargestRecord BY <1>4, LargestIsLargest, Sizes
    <2>3. done \in 0 .. LargestRecord BY <1>4, <2>2
    <2> QED BY <2>1, <2>3 DEF Data, Contents, SpoolInv, SpoolTypeOK
  <1>9. /\ resv'.phase = "verify" /\ resv'.start = resv.start /\ resv'.total = resv.total
        /\ resv'.done = resv.done /\ resv' # NoResv
        /\ resv' \in [phase: {"none", "page", "verify", "header", "headerVerify"},
                      start: Positions, total: RecordSizes \cup {0}, done: 0 .. LargestRecord]
    BY <1>1 DEF SpoolInv, SpoolTypeOK, NoResv
  <1> DEFINE content == Data(sessionId, DataPos, done)
  <1>10. Program(resv.start + m, content) BY <1>1, <1>3, <1>5, <1>7
  <1>11. content.kind # "header" /\ Bad.kind # "header" BY DEF Data, Bad
  <1> HIDE DEF content
  <1>12. UNCHANGED << sessionId, capturing, reservePos, pending, sectors >>
    BY <1>1 DEF control, positions, records
  <1>13. /\ flash' \in [Pages -> Contents]
         /\ \A p \in Pages : p # Page(resv.start + m) => flash'[p] = flash[p]
         /\ flash'[Page(resv.start + m)] \in {content, Bad}
         /\ \A k \in Nat : k < resv.total /\ k # m =>
              flash'[Page(resv.start + k)] = flash[Page(resv.start + k)]
         /\ \A i \in DOMAIN pending : Holds(pending[i])'
         /\ ErasedInv'
    BY <1>2, <1>7, <1>8, <1>9, <1>10, <1>12, ReservedProgramKeeps DEF content
  <1>14. \A p \in Pages : flash'[p].kind = "header" => flash'[p] = flash[p]
    BY <1>11, <1>13
  <1>15. busy' = TRUE /\ retryPending' = TRUE BY <1>1 DEF Program
  <1> USE DEF control, positions, records, sectors
  <1>16. SpoolTypeOK' BY <1>1, <1>9, <1>13, <1>15 DEF SpoolInv, SpoolTypeOK
  <1>17. pending' \in Seq(RecordSet) /\ sent' \in Seq(RecordSet) BY <1>1 DEF SpoolInv
  <1>18. QuietInv' BY <1>1 DEF SpoolInv, QuietInv
  <1>19. ReservationInv' BY <1>1, <1>2, <1>9 DEF SpoolInv, ReservationInv
  <1>20. CursorsInv' /\ PendingInv' /\ GapInv' BY <1>1, <1>2, <1>9, CursorsKept
  <1>21. SendInv'
    <2>1. sendPos \in Nat BY Numbers
    <2>2. NoHeaderFor(sendPos) => NoHeaderFor(sendPos)'
      BY <1>1, <1>14, <2>1, PageFacts DEF NoHeaderFor
    <2> QED BY <1>1, <1>2, <2>2 DEF SpoolInv, SendInv, EndBefore, RecordEnd, SkipGap
  <1>22. HeadersInv'
    <2>1. gapStart \in Nat BY Numbers
    <2>2. NoHeaderFor(gapStart) => NoHeaderFor(gapStart)'
      BY <1>1, <1>14, <2>1, PageFacts DEF NoHeaderFor
    <2> QED BY <1>1, <1>2, <1>9, <1>14, <2>2 DEF SpoolInv, HeadersInv
  <1>23. FailedInv' /\ RetryIsReported' /\ BookkeepingNeverFails'
    BY <1>1, <1>15 DEF FailedInv, RetryIsReported, BookkeepingNeverFails
  <1>24. LiveBytesIntact'
    <2>1. ASSUME NEW i \in 1 .. resv.done
          PROVE flash'[Page(resv.start + i)] = Data(sessionId, resv.start + i, i - 1)
      <3>1. i \in 1 .. done /\ i \in Nat BY <1>3
      <3>2. i < total /\ i # m BY <1>4, <1>6, <3>1
      <3>3. flash[Page(resv.start + i)] = Data(sessionId, resv.start + i, i - 1)
        BY <1>2 DEF SpoolInv, LiveBytesIntact
      <3> QED BY <1>4, <1>13, <3>1, <3>2, <3>3
    <2> QED BY <1>1, <1>9, <1>13, <2>1 DEF LiveBytesIntact
  <1>25. ReservedRoomIsErased'
    <2>1. ASSUME NEW k \in Nat, k < total, k = 0 \/ k >= done + 2
          PROVE flash'[Page(resv.start + k)] = Blank
      <3>1. k # m BY <1>6, <2>1
      <3>2. flash[Page(resv.start + k)] = Blank
        <4>1. CASE k = 0
          <5>1. start + k = start BY <4>1
          <5>2. flash[Page(start)] = Blank
            BY <1>1, <1>2, <1>5 DEF SpoolInv, ReservedRoomIsErased
          <5> QED BY <1>5, <5>1, <5>2
        <4>2. CASE k >= done + 2
          <5>1. k \in done + 1 .. total - 1 BY <1>4, <2>1, <4>2
          <5>2. \A i \in done + 1 .. total - 1 : flash[Page(resv.start + i)] = Blank
            BY <1>1, <1>2, <1>3, <1>4 DEF SpoolInv, ReservedRoomIsErased
          <5> QED BY <5>1, <5>2
        <4> QED BY <2>1, <4>1, <4>2
      <3> QED BY <1>4, <1>13, <2>1, <3>1, <3>2
    <2>2. \A k \in done + 2 .. total - 1 : flash'[Page(start + k)] = Blank
      BY <1>4, <1>5, <2>1
    <2>3. flash'[Page(start)] = Blank
      <3>1. start + 0 = start /\ 0 < total BY <1>4
      <3> QED BY <1>5, <2>1, <3>1
    <2> QED BY <1>3, <1>4, <1>5, <1>9, <2>2, <2>3 DEF ReservedRoomIsErased
  <1> QED BY <1>13, <1>16, <1>17, <1>18, <1>19, <1>20, <1>21, <1>22, <1>23, <1>24, <1>25
          DEF SpoolInv

\* A page is read back as it was programmed, or the session fails.
LEMMA ReadBackKeeps == ASSUME SpoolInv, ReadBack PROVE SpoolInv'
  <1>1. /\ capturing /\ failed = "none" /\ erasing = {} /\ resv.phase = "verify"
        /\ retryPending' = FALSE
        /\ UNCHANGED << positions, records, sectors, flash, busy >>
    BY DEF ReadBack, PumpRuns
  <1>2. CASE ~ReadBackMatches
    <2>1. Fails("verify") /\ resv' = resv BY <1>2 DEF ReadBack
    <2> QED BY <1>1, <2>1, FailKeeps
  <1>3. CASE ReadBackMatches
    <2>1. PICK done \in Nat : done = resv.done BY Numbers
    <2>2. resv # NoResv BY <1>1 DEF NoResv
    <2>3. PICK total \in Nat : total = resv.total /\ total \in RecordSizes /\ done + 1 < total
      BY <1>1, <2>1, <2>2, Numbers DEF SpoolInv, ReservationInv
    <2>4. PICK start \in Nat : start = resv.start BY Numbers
    <2>5. PICK next : next = IF done + 2 = total THEN "header" ELSE "page" OBVIOUS
    <2>6. UNCHANGED control /\ resv' = [resv EXCEPT !.done = done + 1, !.phase = next]
      BY <1>3, <2>1, <2>3, <2>5 DEF ReadBack
    <2>7. next \in {"header", "page"} BY <2>5
    <2>8. /\ resv'.phase = next /\ resv'.start = start /\ resv'.total = total
          /\ resv'.done = done + 1 /\ resv' # NoResv
          /\ resv' \in [phase: {"none", "page", "verify", "header", "headerVerify"},
                        start: Positions, total: RecordSizes \cup {0},
                        done: 0 .. LargestRecord]
      <3>1. LargestRecord \in Nat /\ total <= LargestRecord
        BY <2>3, LargestIsLargest, Sizes
      <3>2. done + 1 \in 0 .. LargestRecord BY <2>3, <3>1
      <3> QED BY <2>1, <2>3, <2>4, <2>6, <2>7, <3>2 DEF SpoolInv, SpoolTypeOK, NoResv
    <2>9. flash[Page(start + done + 1)] = Data(sessionId, start + done + 1, done)
      <3>1. DataPos = start + done + 1 BY <2>1, <2>4 DEF DataPos
      <3> QED BY <1>3, <2>1, <3>1 DEF ReadBackMatches
    <2> USE DEF control, positions, records, sectors
    <2>10. Running' = Running BY <2>6 DEF Running
    <2>11. SpoolTypeOK' BY <1>1, <2>6, <2>8 DEF SpoolInv, SpoolTypeOK
    <2>12. pending' \in Seq(RecordSet) /\ sent' \in Seq(RecordSet) BY <1>1 DEF SpoolInv
    <2>13. QuietInv' BY <1>1, <2>6 DEF SpoolInv, QuietInv
    <2>14. ReservationInv'
      <3>1. next = "header" => (done + 1) + 1 = total BY <2>3, <2>5
      <3>2. next = "page" => (done + 1) + 1 < total BY <2>3, <2>5
      <3>3. Page(start) + total <= RegionPages /\ Generation(start) <= MaxGeneration
        BY <2>2, <2>3, <2>4 DEF SpoolInv, ReservationInv
      <3> QED BY <2>3, <2>7, <2>8, <3>1, <3>2, <3>3 DEF ReservationInv
    <2>15. CursorsInv' /\ PendingInv' /\ GapInv'
      BY <1>1, <2>2, <2>3, <2>4, <2>6, <2>7, <2>8, <2>10, CursorsKept
    <2>16. SendInv'
      BY <1>1, <2>6, <2>10
      DEF SpoolInv, SendInv, SkipGap, EndBefore, RecordEnd, NoHeaderFor
    <2>17. HeadersInv'
      BY <1>1, <2>6, <2>7, <2>8, <2>10 DEF SpoolInv, HeadersInv, NoHeaderFor
    <2>18. ErasedInv'
      BY <1>1, <2>2, <2>3, <2>4, <2>6, <2>8 DEF SpoolInv, ErasedInv, Record, RecordPages
    <2>19. FailedInv' /\ RetryIsReported' /\ BookkeepingNeverFails'
      BY <1>1, <2>6, <2>7, <2>8 DEF FailedInv, RetryIsReported, BookkeepingNeverFails
    <2>20. LiveBytesIntact'
      <3>1. ASSUME NEW i \in 1 .. done + 1
            PROVE flash[Page(start + i)] = Data(sessionId, start + i, i - 1)
        <4>1. CASE i = done + 1
          <5>1. start + i = start + done + 1 /\ i - 1 = done BY <4>1
          <5> QED BY <2>9, <5>1
        <4>2. CASE i # done + 1
          <5>1. i \in 1 .. done BY <4>2
          <5> QED BY <2>1, <2>2, <2>4, <5>1 DEF SpoolInv, LiveBytesIntact
        <4> QED BY <4>1, <4>2
      <3>2. \A i \in DOMAIN pending : Holds(pending[i])'
        BY <1>1 DEF SpoolInv, LiveBytesIntact, Holds
      <3> QED BY <1>1, <2>6, <2>8, <3>1, <3>2 DEF LiveBytesIntact
    <2>21. ReservedRoomIsErased'
      <3>1. \A k \in done + 2 .. total - 1 : flash[Page(start + k)] = Blank
        BY <1>1, <2>1, <2>2, <2>3, <2>4 DEF SpoolInv, ReservedRoomIsErased
      <3>2. flash[Page(start)] = Blank
        BY <1>1, <2>2, <2>4 DEF SpoolInv, ReservedRoomIsErased
      <3>3. (done + 1) + 1 = done + 2
            /\ \A k \in (done + 1) + 2 .. total - 1 : k \in done + 2 .. total - 1
        OBVIOUS
      <3> QED BY <1>1, <2>8, <3>1, <3>2, <3>3 DEF ReservedRoomIsErased
    <2> QED BY <2>11, <2>12, <2>13, <2>14, <2>15, <2>16, <2>17, <2>18, <2>19, <2>20, <2>21
            DEF SpoolInv
  <1> QED BY <1>2, <1>3

\* Behind the gap there is no second one.
LEMMA SkipGapTwice ==
  ASSUME SpoolInv, NEW pos \in Nat
  PROVE  SkipGap(pos) \in Nat /\ pos <= SkipGap(pos) /\ SkipGap(SkipGap(pos)) = SkipGap(pos)
  <1>1. gapPages \in Nat /\ gapStart \in Nat BY Numbers
  <1>2. CASE gapPages # 0 /\ pos = gapStart
    <2>1. SkipGap(pos) = pos + gapPages BY <1>2 DEF SkipGap
    <2>2. pos + gapPages # gapStart BY <1>1, <1>2
    <2>3. SkipGap(pos + gapPages) = pos + gapPages BY <2>2 DEF SkipGap
    <2> QED BY <1>1, <2>1, <2>3
  <1>3. CASE ~(gapPages # 0 /\ pos = gapStart) BY <1>3 DEF SkipGap
  <1> QED BY <1>2, <1>3

\* The commit position goes over the gap to the reservation.
LEMMA CommitSkipsGap ==
  ASSUME SpoolInv, Running, resv # NoResv, Running' => Running,
         commitPos' = resv.start,
         UNCHANGED << sessionId, reservePos, ackPos, sendPos, gapStart, gapPages, pending >>,
         resv'.start = resv.start, resv'.total = resv.total, resv' # NoResv
  PROVE  CursorsInv' /\ PendingInv' /\ GapInv'
  <1>1. PICK commit \in Nat, start \in Nat, total \in Nat :
          commit = commitPos /\ start = resv.start /\ total = resv.total
    BY Numbers
  <1>2. start = SkipGap(commit) /\ commit <= start /\ SkipGap(start) = start
    BY <1>1, SkipGapTwice DEF SpoolInv, CursorsInv
  <1>3. \A pos : SkipGap(pos)' = SkipGap(pos) BY DEF SkipGap
  <1>4. ackPos \in Nat /\ ackPos <= commit /\ reservePos = start + total
        /\ reservePos - ackPos <= RegionPages
    BY <1>1, Numbers DEF SpoolInv, CursorsInv
  <1>5. CursorsInv'
    <2>1. ackPos <= start /\ start <= start + total BY <1>1, <1>2, <1>4
    <2>2. SkipGap(commitPos)' = start BY <1>1, <1>2, <1>3 DEF SkipGap
    <2> QED BY <1>1, <1>4, <2>1, <2>2 DEF CursorsInv
  <1>6. PendingInv'
    <2>1. ASSUME NEW i \in 1 .. Len(pending)
          PROVE /\ pending[i].s = sessionId
                /\ pending[i].at = SkipGap(EndBefore(i))
                /\ ackPos <= pending[i].at /\ RecordEnd(pending[i]) <= start
      <3>1. RecordEnd(pending[i]) \in Nat BY Numbers
      <3>2. RecordEnd(pending[i]) <= commit BY <1>1 DEF SpoolInv, PendingInv
      <3> QED BY <1>2, <3>1, <3>2 DEF SpoolInv, PendingInv
    <2>2. PICK end \in Nat : end = EndBefore(Len(pending) + 1)
      <3>1. CASE Len(pending) = 0 BY <1>4, <3>1 DEF EndBefore
      <3>2. CASE Len(pending) # 0
        <4>1. Len(pending) \in 1 .. Len(pending) /\ (Len(pending) + 1) - 1 = Len(pending)
              /\ Len(pending) + 1 # 1
          BY <3>2, Numbers
        <4> QED BY <4>1, Numbers DEF EndBefore
      <3> QED BY <3>1, <3>2
    <2>3. commit \in {end, SkipGap(end)} BY <1>1, <2>2 DEF SpoolInv, PendingInv
    <2>4. start = SkipGap(end) BY <1>2, <2>3, SkipGapTwice
    <2>5. \A i : EndBefore(i)' = EndBefore(i) BY DEF EndBefore, RecordEnd
    <2>6. \A i, j \in 1 .. Len(pending) : i < j => RecordEnd(pending[i]) <= pending[j].at
      BY DEF SpoolInv, PendingInv
    <2> QED BY <1>1, <1>3, <2>1, <2>2, <2>4, <2>5, <2>6
            DEF PendingInv, RecordEnd, SkipGap, EndBefore
  <1>7. GapInv' BY DEF SpoolInv, GapInv, RecordEnd
  <1> QED BY <1>5, <1>6, <1>7

\* The header is programmed behind the gap, or the call has to be made again.
\* It always goes to the page that was reserved for it.
LEMMA HeaderProgramKeeps == ASSUME SpoolInv, HeaderProgram PROVE SpoolInv'
  <1>1. /\ capturing /\ failed = "none" /\ erasing = {} /\ resv.phase = "header"
        /\ commitPos' = SkipGap(commitPos)
        /\ UNCHANGED << reservePos, ackPos, sendPos, gapStart, gapPages, records, sectors >>
    BY DEF HeaderProgram, PumpRuns
  <1>2. Running /\ resv # NoResv BY <1>1 DEF Running, NoResv, SpoolInv, SpoolTypeOK
  <1>3. PICK start \in Nat, total \in Nat :
          start = resv.start /\ total = resv.total /\ total \in RecordSizes
    BY <1>2, Numbers DEF SpoolInv, ReservationInv
  <1>4. SkipGap(commitPos) = start BY <1>2, <1>3 DEF SpoolInv, CursorsInv
  <1>5. Generation(start) <= MaxGeneration /\ Generation(start) \in Nat /\ MaxGeneration \in Nat
        /\ resv.done + 1 = total
    BY <1>1, <1>2, <1>3, PageFacts, Sizes DEF SpoolInv, ReservationInv
  <1>6. ~(Page(start) # Page(resv.start) \/ Generation(start) > MaxGeneration)
    BY <1>3, <1>5
  <1>7. UNCHANGED control
        /\ \/ /\ Program(start, Header(sessionId, start, total))
              /\ resv' = [resv EXCEPT !.phase = "headerVerify"]
           \/ UNCHANGED << resv, device >>
    BY <1>3, <1>4, <1>6 DEF HeaderProgram
  <1>8. /\ resv'.start = start /\ resv'.total = total /\ resv'.done = resv.done
        /\ resv'.phase \in {"header", "headerVerify"} /\ resv' # NoResv
        /\ resv' \in [phase: {"none", "page", "verify", "header", "headerVerify"},
                      start: Positions, total: RecordSizes \cup {0}, done: 0 .. LargestRecord]
    BY <1>1, <1>3, <1>7 DEF SpoolInv, SpoolTypeOK, NoResv
  <1>9. commitPos' = start BY <1>1, <1>4
  <1>10. Running' = Running BY <1>7 DEF Running, control
  <1> USE DEF control, records, sectors
  <1>11. pending' \in Seq(RecordSet) /\ sent' \in Seq(RecordSet) BY <1>1 DEF SpoolInv
  <1>12. QuietInv' BY <1>1, <1>2, <1>7 DEF SpoolInv, QuietInv, Running
  <1>13. ReservationInv'
    BY <1>2, <1>3, <1>5, <1>8 DEF SpoolInv, ReservationInv
  <1>14. CursorsInv' /\ PendingInv' /\ GapInv'
    BY <1>1, <1>2, <1>3, <1>7, <1>8, <1>9, <1>10, CommitSkipsGap
  <1>15. start \in Positions /\ start < reservePos
    <2>1. start + 0 = start /\ 0 < total BY <1>3, Sizes
    <2> QED BY <1>2, <1>3, <2>1, ReservationPositions
  <1>16. CASE UNCHANGED << resv, device >>
    <2> USE DEF device
    <2>1. SpoolTypeOK' BY <1>1, <1>7, <1>9, <1>15, <1>16 DEF SpoolInv, SpoolTypeOK
    <2>2. SendInv'
      BY <1>1, <1>7, <1>10, <1>16
      DEF SpoolInv, SendInv, SkipGap, EndBefore, RecordEnd, NoHeaderFor
    <2>3. HeadersInv' BY <1>1, <1>7, <1>10, <1>16 DEF SpoolInv, HeadersInv, NoHeaderFor
    <2>4. ErasedInv' BY <1>1, <1>7, <1>16 DEF SpoolInv, ErasedInv
    <2>5. FailedInv' /\ RetryIsReported' /\ BookkeepingNeverFails'
      BY <1>1, <1>7, <1>16 DEF FailedInv, RetryIsReported, BookkeepingNeverFails
    <2>6. LiveBytesIntact' /\ ReservedRoomIsErased' BY <1>1, <1>7, <1>16, BytesKept
    <2> QED BY <1>11, <1>12, <1>13, <1>14, <2>1, <2>2, <2>3, <2>4, <2>5, <2>6 DEF SpoolInv
  <1>17. CASE /\ Program(start, Header(sessionId, start, total))
              /\ resv' = [resv EXCEPT !.phase = "headerVerify"]
    <2>1. resv'.phase = "headerVerify" BY <1>1, <1>17 DEF SpoolInv, SpoolTypeOK
    <2> DEFINE content == Header(sessionId, start, total)
    <2>2. content \in Contents
      <3>1. LargestRecord \in Nat /\ total <= LargestRecord
        BY <1>3, LargestIsLargest, Sizes
      <3>2. total \in 0 .. LargestRecord BY <1>3, <3>1
      <3> QED BY <1>15, <3>2 DEF Header, Contents, SpoolInv, SpoolTypeOK
    <2>3. content.s = sessionId /\ content.at = start BY DEF Header
    <2>4. content = Header(sessionId, start, total) OBVIOUS
    <2> HIDE DEF content
    <2>5. start + 0 = start /\ 0 < total /\ total >= 2 BY <1>3, Sizes
    <2>6. /\ flash' \in [Pages -> Contents]
          /\ \A p \in Pages : p # Page(start) => flash'[p] = flash[p]
          /\ flash'[Page(start)] \in {content, Bad}
          /\ \A k \in Nat : k < total /\ k # 0 =>
               flash'[Page(start + k)] = flash[Page(start + k)]
          /\ \A i \in DOMAIN pending : Holds(pending[i])'
          /\ ErasedInv'
      <3>1. Program(resv.start + 0, content) BY <1>3, <1>17, <2>4, <2>5
      <3>2. 0 < resv.total /\ 0 \in Nat BY <1>3, <2>5
      <3>3. UNCHANGED << sessionId, capturing, reservePos, pending, sectors >>
        BY <1>1, <1>7
      <3>4. resv'.start = resv.start /\ resv'.total = resv.total BY <1>3, <1>8
      <3>5. resv.start + 0 = start BY <1>3, <2>5
      <3> HIDE DEF sectors
      <3>6. /\ flash' \in [Pages -> Contents]
            /\ \A p \in Pages : p # Page(resv.start + 0) => flash'[p] = flash[p]
            /\ flash'[Page(resv.start + 0)] \in {content, Bad}
            /\ \A k \in Nat : k < resv.total /\ k # 0 =>
                 flash'[Page(resv.start + k)] = flash[Page(resv.start + k)]
            /\ \A i \in DOMAIN pending : Holds(pending[i])'
            /\ ErasedInv'
        BY <1>2, <1>8, <2>2, <3>1, <3>2, <3>3, <3>4, ReservedProgramKeeps
      <3> QED BY <1>3, <3>5, <3>6
    <2>7. busy' = TRUE /\ retryPending' = TRUE BY <1>17 DEF Program
    <2>8. SpoolTypeOK'
      BY <1>1, <1>7, <1>8, <1>9, <1>15, <2>6, <2>7 DEF SpoolInv, SpoolTypeOK
    <2>9. \A pos \in Nat : pos # start /\ NoHeaderFor(pos) =>
            (flash'[Page(pos)].kind = "header" /\ flash'[Page(pos)].s = sessionId
               => flash'[Page(pos)].at # pos)
      <3>1. Bad.kind # "header" BY DEF Bad
      <3> QED BY <2>3, <2>6, <3>1, PageFacts DEF NoHeaderFor
    <2>10. SendInv'
      <3>1. sendPos \in Nat /\ ackPos \in Nat /\ commitPos \in Nat BY Numbers
      <3>2. ackPos <= commitPos /\ commitPos <= start
        BY <1>2, <1>4, <3>1, SkipGapTwice DEF SpoolInv, CursorsInv
      <3>3. sendPos < ackPos => sendPos # start BY <3>1, <3>2
      <3>4. sendPos < ackPos /\ NoHeaderFor(sendPos) => NoHeaderFor(sendPos)'
        BY <1>1, <1>7, <2>9, <3>1, <3>3 DEF NoHeaderFor
      <3> QED BY <1>1, <1>10, <3>4 DEF SpoolInv, SendInv, SkipGap, EndBefore, RecordEnd
    <2>11. HeadersInv'
      <3>1. ASSUME NEW p \in Pages, flash'[p].kind = "header"
            PROVE /\ flash'[p].s \in Nat /\ flash'[p].s <= sessionId
                  /\ flash'[p].at \in Nat /\ Page(flash'[p].at) = p
                  /\ Running /\ flash'[p].s = sessionId => flash'[p].at < reservePos
        <4>1. CASE p # Page(start)
          BY <2>6, <3>1, <4>1 DEF SpoolInv, HeadersInv
        <4>2. CASE p = Page(start)
          <5>1. flash'[p] = content BY <2>6, <3>1, <4>2 DEF Bad
          <5> QED BY <1>15, <2>3, <4>2, <5>1, Numbers
        <4> QED BY <4>1, <4>2
      <3>2. gapPages # 0 => gapStart # start
        <4>1. gapPages # 0 => gapStart + gapPages <= start
          BY <1>2, <1>3 DEF SpoolInv, GapInv
        <4> QED BY <4>1, Numbers
      <3>3. Running /\ gapPages # 0 => NoHeaderFor(gapStart)'
        BY <1>1, <1>7, <2>9, <3>2, Numbers DEF SpoolInv, HeadersInv, NoHeaderFor
      <3>4. flash'[Page(start)] \in {Header(sessionId, start, total), Bad}
        BY <2>4, <2>6
      <3> QED BY <1>1, <1>7, <1>8, <1>10, <3>1, <3>3, <3>4 DEF HeadersInv
    <2>12. FailedInv' /\ RetryIsReported' /\ BookkeepingNeverFails'
      BY <1>1, <1>7, <2>7 DEF FailedInv, RetryIsReported, BookkeepingNeverFails
    <2>13. LiveBytesIntact'
      <3>1. ASSUME NEW i \in 1 .. resv.done
            PROVE flash'[Page(start + i)] = Data(sessionId, start + i, i - 1)
        <4>1. PICK done \in Nat : done = resv.done BY Numbers
        <4>2. i \in Nat /\ i # 0 /\ i < total BY <1>5, <4>1
        <4>3. flash[Page(start + i)] = Data(sessionId, start + i, i - 1)
          BY <1>2, <1>3 DEF SpoolInv, LiveBytesIntact
        <4> QED BY <2>6, <4>2, <4>3
      <3> QED BY <1>1, <1>7, <1>8, <2>6, <3>1 DEF LiveBytesIntact
    <2>14. ReservedRoomIsErased'
      <3>1. PICK done \in Nat : done = resv.done BY Numbers
      <3>2. \A k \in done + 2 .. total - 1 : FALSE BY <1>3, <1>5, <3>1
      <3> QED BY <1>8, <2>1, <3>1, <3>2 DEF ReservedRoomIsErased
    <2> QED BY <1>11, <1>12, <1>13, <1>14, <2>6, <2>8, <2>10, <2>11, <2>12, <2>13, <2>14
            DEF SpoolInv
  <1> QED BY <1>7, <1>16, <1>17

\* A verified header commits the record: it joins the pending ones behind the
\* last of them.
LEMMA HeaderVerifyKeeps == ASSUME SpoolInv, HeaderVerify PROVE SpoolInv'
  <1>1. /\ capturing /\ failed = "none" /\ erasing = {} /\ resv.phase = "headerVerify"
        /\ retryPending' = FALSE
        /\ UNCHANGED << reservePos, ackPos, sendPos, gapStart, gapPages, txRecord, sent,
                        sectors, flash, busy >>
    BY DEF HeaderVerify, PumpRuns
  <1>2. Running /\ resv # NoResv BY <1>1 DEF Running, NoResv, SpoolInv, SpoolTypeOK
  <1>3. PICK start \in Nat, total \in Nat :
          start = resv.start /\ total = resv.total /\ total \in RecordSizes /\ total >= 2
    BY <1>2, Numbers DEF SpoolInv, ReservationInv
  <1>4. commitPos = start /\ reservePos = start + total /\ SkipGap(start) = start
    BY <1>1, <1>2, <1>3 DEF SpoolInv, CursorsInv
  <1>5. flash[Page(start)] \in {Header(sessionId, start, total), Bad}
    BY <1>1, <1>3 DEF SpoolInv, HeadersInv
  <1>6. CASE flash[Page(start)] = Bad
    <2>1. Fails("commit") /\ UNCHANGED << commitPos, pending, resv >>
      BY <1>4, <1>6 DEF HeaderVerify, HeaderAt, Bad
    <2>2. UNCHANGED << positions, resv, records, sectors, flash, busy >>
      BY <1>1, <2>1 DEF positions, records
    <2>3. retryPending' \in BOOLEAN BY <1>1
    <2>4. flash[Page(resv.start)] = Bad BY <1>3, <1>6
    <2> QED BY <1>1, <2>1, <2>2, <2>3, <2>4, FailKeeps
  <1>7. CASE flash[Page(start)] = Header(sessionId, start, total)
    <2> DEFINE rec == Record(sessionId, start, total)
    <2>1. /\ commitPos' = start + total
          /\ pending' = Append(pending, rec) /\ resv' = NoResv /\ UNCHANGED control
      BY <1>3, <1>4, <1>7 DEF HeaderVerify, HeaderAt, Header
    <2>2. /\ rec.s = sessionId /\ rec.at = start /\ rec.total = total
          /\ rec \in RecordSet /\ RecordEnd(rec) = start + total
          /\ rec \in [s: {sessionId}, at: Positions, total: RecordSizes]
      BY <1>3, Numbers DEF Record, RecordSet, RecordEnd, SpoolInv, SpoolTypeOK
    <2>3. Holds(rec)
      <3>1. \A i \in 1 .. total - 1 : flash[Page(start + i)] = Data(sessionId, start + i, i - 1)
        <4>1. PICK done \in Nat : done = resv.done BY Numbers
        <4>2. done + 1 = total BY <1>1, <1>2, <1>3, <4>1 DEF SpoolInv, ReservationInv
        <4>3. \A i \in 1 .. done : flash[Page(start + i)] = Data(sessionId, start + i, i - 1)
          BY <1>2, <1>3, <4>1 DEF SpoolInv, LiveBytesIntact
        <4>4. total - 1 = done BY <4>2
        <4> QED BY <4>3, <4>4
      <3> QED BY <1>7, <2>2, <3>1 DEF Holds
    <2>4. \A p \in RecordPages(rec) : SectorOf(p) \notin erased
      BY <1>2, <1>3 DEF SpoolInv, ErasedInv
    <2> HIDE DEF rec
    <2>5. PICK n \in Nat : n = Len(pending) BY Numbers
    <2>6. /\ pending' \in Seq(RecordSet) /\ Len(pending') = n + 1
          /\ \A i \in 1 .. n : pending'[i] = pending[i]
          /\ pending'[n + 1] = rec
      BY <2>1, <2>2, <2>5, AppendProperties DEF SpoolInv
    <2>7. DOMAIN pending' = 1 .. n + 1 /\ DOMAIN pending = 1 .. n
      BY <2>5, <2>6, LenProperties DEF SpoolInv
    <2>8. \A i \in 1 .. n + 1 : i \in 1 .. n \/ i = n + 1 OBVIOUS
    <2> USE DEF control, sectors
    <2>9. Running' = Running BY <2>1 DEF Running
    <2>10. SpoolTypeOK'
      <3>1. \A i \in DOMAIN pending' : pending'[i] \in
              [s: {sessionId}, at: Positions, total: RecordSizes]
        BY <2>2, <2>6, <2>7, <2>8 DEF SpoolInv, SpoolTypeOK
      <3>2. commitPos' \in Positions BY <1>4, <2>1 DEF SpoolInv, SpoolTypeOK
      <3>3. resv' \in [phase: {"none", "page", "verify", "header", "headerVerify"},
                       start: Positions, total: RecordSizes \cup {0}, done: 0 .. LargestRecord]
        <4>1. LargestRecord \in Nat BY LargestIsLargest, Sizes
        <4>2. (MaxGeneration + 1) * RegionPages \in Nat BY Sizes
        <4>3. 0 \in Positions /\ 0 \in 0 .. LargestRecord BY <4>1, <4>2 DEF Positions
        <4> QED BY <2>1, <4>3 DEF NoResv
      <3> QED BY <1>1, <2>1, <3>1, <3>2, <3>3 DEF SpoolInv, SpoolTypeOK
    <2>11. sent' \in Seq(RecordSet) BY <1>1 DEF SpoolInv
    <2>12. QuietInv' BY <1>1, <1>2, <2>1 DEF SpoolInv, QuietInv, Running
    <2>13. ReservationInv' BY <2>1 DEF ReservationInv
    <2>14. CursorsInv'
      <3>1. ackPos \in Nat /\ ackPos <= start BY <1>2, <1>4, Numbers DEF SpoolInv, CursorsInv
      <3>2. ackPos <= start + total /\ start + total <= start + total BY <3>1
      <3>3. NoResv.phase # "headerVerify" BY DEF NoResv
      <3> QED BY <1>1, <1>2, <1>4, <2>1, <3>2, <3>3 DEF SpoolInv, CursorsInv
    <2>15. /\ \A i \in 1 .. n + 1 : EndBefore(i)' = EndBefore(i)
           /\ EndBefore(n + 2)' = start + total
      <3>1. \A i \in 1 .. n + 1 : i # 1 => i - 1 \in 1 .. n OBVIOUS
      <3>2. n + 2 # 1 /\ (n + 2) - 1 = n + 1 OBVIOUS
      <3>3. \A i \in 1 .. n + 1 : EndBefore(i)' = EndBefore(i)
        BY <1>1, <2>6, <3>1 DEF EndBefore, RecordEnd
      <3> QED BY <2>2, <2>6, <3>2, <3>3 DEF EndBefore, RecordEnd
    <2>16. \A pos : SkipGap(pos)' = SkipGap(pos) BY <1>1 DEF SkipGap
    <2>17. start = SkipGap(EndBefore(n + 1)) /\ EndBefore(n + 1) \in Nat
      <3>1. EndBefore(n + 1) \in Nat
        <4>1. CASE n = 0 BY <4>1, Numbers DEF EndBefore
        <4>2. CASE n # 0
          <5>1. n \in 1 .. n /\ (n + 1) - 1 = n /\ n + 1 # 1 BY <4>2
          <5> QED BY <2>5, <5>1, Numbers DEF EndBefore
        <4> QED BY <4>1, <4>2
      <3>2. start \in {EndBefore(n + 1), SkipGap(EndBefore(n + 1))}
        BY <1>2, <1>4, <2>5 DEF SpoolInv, PendingInv
      <3> QED BY <1>4, <3>1, <3>2
    <2>18. PendingInv'
      <3>1. ASSUME NEW i \in 1 .. n + 1
            PROVE /\ pending'[i].s = sessionId
                  /\ pending'[i].at = SkipGap(EndBefore(i))
                  /\ ackPos <= pending'[i].at /\ RecordEnd(pending'[i]) <= start + total
        <4>1. CASE i \in 1 .. n
          <5>1. RecordEnd(pending[i]) \in Nat /\ RecordEnd(pending[i]) <= start
            BY <1>2, <1>4, <2>5, <4>1, Numbers DEF SpoolInv, PendingInv
          <5>2. RecordEnd(pending[i]) <= start + total BY <5>1
          <5> QED BY <1>2, <2>5, <2>6, <4>1, <5>2 DEF SpoolInv, PendingInv
        <4>2. CASE i = n + 1
          <5>1. ackPos <= start BY <1>2, <1>4 DEF SpoolInv, CursorsInv
          <5> QED BY <2>2, <2>6, <2>17, <4>2, <5>1
        <4> QED BY <2>8, <4>1, <4>2
      <3>2. ASSUME NEW i \in 1 .. n + 1, NEW j \in 1 .. n + 1, i < j
            PROVE RecordEnd(pending'[i]) <= pending'[j].at
        <4>1. i \in 1 .. n BY <3>2
        <4>2. CASE j \in 1 .. n
          BY <1>2, <2>5, <2>6, <3>2, <4>1, <4>2 DEF SpoolInv, PendingInv
        <4>3. CASE j = n + 1
          BY <1>2, <1>4, <2>2, <2>5, <2>6, <4>1, <4>3 DEF SpoolInv, PendingInv
        <4> QED BY <2>8, <4>2, <4>3
      <3>3. (n + 1) + 1 = n + 2 OBVIOUS
      <3>4. commitPos' = EndBefore(n + 2)' BY <2>1, <2>15
      <3>5. \A i \in 1 .. n + 1 : SkipGap(EndBefore(i))' = SkipGap(EndBefore(i))
        BY <1>1, <2>15 DEF SkipGap
      <3>6. commitPos' = EndBefore(Len(pending) + 1)' BY <2>6, <3>3, <3>4 DEF EndBefore
      <3> QED BY <1>1, <2>1, <2>6, <3>1, <3>2, <3>5, <3>6 DEF PendingInv, RecordEnd
    <2>19. GapInv'
      <3>1. ASSUME gapPages # 0, NEW i \in 1 .. n + 1
            PROVE RecordEnd(pending'[i]) <= gapStart \/ gapStart + gapPages <= pending'[i].at
        <4>1. CASE i \in 1 .. n
          BY <1>2, <2>5, <2>6, <3>1, <4>1 DEF SpoolInv, GapInv
        <4>2. CASE i = n + 1
          BY <1>2, <1>3, <2>2, <2>6, <3>1, <4>2 DEF SpoolInv, GapInv
        <4> QED BY <2>8, <4>1, <4>2
      <3> QED BY <1>1, <1>2, <2>1, <2>6, <2>9, <3>1 DEF SpoolInv, GapInv, RecordEnd
    <2>20. SendInv'
      <3>1. PICK out \in Nat : out = Len(sent) BY Numbers
      <3>2. out <= n /\ \A i \in 1 .. out : sent[i] = pending[i]
        BY <1>2, <2>5, <3>1 DEF SpoolInv, SendInv
      <3>3. out <= n + 1 /\ out + 1 \in 1 .. n + 1 /\ \A i \in 1 .. out : i \in 1 .. n
        BY <3>2
      <3>4. EndBefore(out + 1)' = EndBefore(out + 1)
            /\ SkipGap(EndBefore(out + 1))' = SkipGap(EndBefore(out + 1))
        BY <1>1, <2>15, <3>3 DEF SkipGap
      <3>5. txRecord # NoRecord => /\ out < InFlightMax /\ out < n
                                   /\ txRecord = pending[out + 1] /\ sendPos = txRecord.at
        BY <1>2, <2>5, <3>1 DEF SpoolInv, SendInv
      <3>6. out < n => out < n + 1 /\ out + 1 \in 1 .. n OBVIOUS
      <3>7. \/ sendPos \in {EndBefore(out + 1), SkipGap(EndBefore(out + 1))}
            \/ sent = << >> /\ txRecord = NoRecord /\ sendPos < ackPos /\ NoHeaderFor(sendPos)
        BY <1>2, <3>1 DEF SpoolInv, SendInv
      <3>8. NoHeaderFor(sendPos)' = NoHeaderFor(sendPos) BY <1>1, <2>1 DEF NoHeaderFor
      <3>9. EndBefore(Len(sent) + 1)' = EndBefore(out + 1)
            /\ SkipGap(EndBefore(Len(sent) + 1))' = SkipGap(EndBefore(out + 1))
        BY <1>1, <3>1, <3>4 DEF SkipGap, EndBefore
      <3> QED BY <1>1, <2>6, <3>1, <3>2, <3>3, <3>5, <3>6, <3>7, <3>8, <3>9 DEF SendInv
    <2>21. HeadersInv'
      <3>1. NoResv.phase # "headerVerify" BY DEF NoResv
      <3> QED BY <1>1, <2>1, <2>9, <3>1 DEF SpoolInv, HeadersInv, NoHeaderFor
    <2>22. ErasedInv'
      <3>1. \A i \in 1 .. n + 1 : \A p \in RecordPages(pending'[i]) :
              SectorOf(p) \notin erased \cup erasing
        BY <1>1, <2>4, <2>5, <2>6, <2>8 DEF SpoolInv, ErasedInv
      <3> QED BY <1>1, <2>1, <2>6, <3>1 DEF SpoolInv, ErasedInv, RecordPages
    <2>23. FailedInv' /\ RetryIsReported' /\ BookkeepingNeverFails'
      BY <1>1, <2>1 DEF FailedInv, RetryIsReported, BookkeepingNeverFails, NoResv
    <2>24. LiveBytesIntact'
      <3>1. ASSUME NEW i \in 1 .. n + 1 PROVE Holds(pending[i])'
        <4>1. CASE i \in 1 .. n
          BY <1>1, <2>6, <2>7, <4>1 DEF SpoolInv, LiveBytesIntact, Holds
        <4>2. CASE i = n + 1
          BY <1>1, <2>3, <2>6, <4>2 DEF Holds
        <4> QED BY <2>8, <4>1, <4>2
      <3> QED BY <2>1, <2>7, <3>1 DEF LiveBytesIntact
    <2>25. ReservedRoomIsErased' BY <2>1 DEF ReservedRoomIsErased
    <2> QED BY <2>6, <2>10, <2>11, <2>12, <2>13, <2>14, <2>18, <2>19, <2>20, <2>21, <2>22,
               <2>23, <2>24, <2>25 DEF SpoolInv
  <1> QED BY <1>5, <1>6, <1>7

\* Where an accepted plan puts a record, and that the room is blank.
LEMMA PlannedRoom ==
  ASSUME SpoolInv, PumpRuns, resv = NoResv, NEW total \in RecordSizes, Plan(total) = "ok"
  PROVE  LET gap == WrapGap(total)  start == StartPos(total) IN
         /\ gap \in Nat /\ gap <= total - 1 /\ start \in Nat /\ start = reservePos + gap
         /\ gap # 0 => gapPages = 0 /\ Page(start) = 0
         /\ Page(start) + total <= RegionPages
         /\ (start + total) - ackPos <= RegionPages
         /\ Generation(start) <= MaxGeneration
         /\ start \in Positions /\ start + total \in Positions
         /\ \A k \in Nat : k < total =>
              /\ Page(start + k) = Page(start) + k /\ Page(start + k) \in Pages
              /\ flash[Page(start + k)] = Blank
              /\ SectorOf(Page(start + k)) \in
                   SectorOf(Page(start)) .. SectorOf(Page(start + total - 1))
  <1> DEFINE gap == WrapGap(total)  start == StartPos(total)
  <1>1. /\ ~(gap # 0 /\ gapPages # 0) /\ ~(gap + total > RegionPages - Used)
        /\ ~(Generation(start + total) > MaxGeneration) /\ SectorsReady(start, total)
    BY DEF Plan
  <1>2. PICK from \in Nat, ack \in Nat : from = reservePos /\ ack = ackPos BY Numbers
  <1>3. total \in Nat /\ total >= 2 /\ RegionPages \in Nat /\ MaxGeneration \in Nat
    BY Sizes
  <1>4. PICK p \in 0 .. RegionPages - 1 : p = Page(from) BY PageFacts
  <1>5. gap = IF p + total > RegionPages THEN RegionPages - p ELSE 0
    BY <1>2, <1>4 DEF WrapGap
  <1>6. start = from + gap BY <1>2 DEF StartPos
  <1> HIDE DEF gap, start
  <1>7. gap \in Nat /\ gap <= total - 1 /\ start \in Nat BY <1>3, <1>4, <1>5, <1>6
  <1>8. gap # 0 => Page(start) = 0
    <2>1. gap # 0 => p + gap = RegionPages BY <1>3, <1>4, <1>5
    <2> QED BY <1>4, <1>6, <1>7, <2>1, PageAtEnd
  <1>9. gap = 0 => start = from /\ p + total <= RegionPages
    BY <1>3, <1>4, <1>5, <1>6
  <1>10. Used = from - ack /\ ack <= from
    BY <1>2 DEF Used, SpoolInv, CursorsInv, PumpRuns, Running, SpoolTypeOK
  <1>11. gap + total <= RegionPages - (from - ack) BY <1>1, <1>2, <1>3, <1>7, <1>10
  <1>12. (start + total) - ack <= RegionPages /\ total <= RegionPages
    BY <1>3, <1>6, <1>7, <1>10, <1>11
  <1>13. PICK q \in 0 .. RegionPages - 1 : q = Page(start) BY <1>7, PageFacts
  <1>14. q + total <= RegionPages
    <2>1. CASE gap = 0
      <3>1. q = p BY <1>4, <1>9, <1>13, <2>1
      <3> QED BY <1>9, <2>1, <3>1
    <2>2. CASE gap # 0
      <3>1. q = 0 BY <1>8, <1>13, <2>2
      <3> QED BY <1>3, <1>12, <3>1
    <2> QED BY <2>1, <2>2
  <1>15. Generation(start) <= MaxGeneration /\ start + total \in Positions
         /\ start \in Positions
    <2>1. start + total \in Nat BY <1>3, <1>7
    <2>2. Generation(start + total) \in Nat /\ Generation(start) \in Nat
      BY <1>7, <2>1, PageFacts
    <2>3. start <= start + total /\ start \in Int /\ start + total \in Int
          /\ RegionPages \in Nat \ {0}
      BY <1>3, <1>7, Sizes
    <2>4. Generation(start) <= Generation(start + total)
      BY <2>3, DivMono DEF Generation
    <2>5. Generation(start) <= MaxGeneration /\ Generation(start + total) <= MaxGeneration
      BY <1>1, <1>3, <2>2, <2>4
    <2> QED BY <1>7, <2>1, <2>5, PositionBound
  <1>16. ASSUME NEW k \in Nat, k < total
         PROVE /\ Page(start + k) = q + k /\ Page(start + k) \in Pages
               /\ SectorOf(Page(start + k)) \in
                    SectorOf(Page(start)) .. SectorOf(Page(start + total - 1))
               /\ flash[Page(start + k)] = Blank
    <2>1. \A m \in Nat : m < total => Page(start + m) = q + m
      BY <1>3, <1>7, <1>13, <1>14, PageAhead
    <2>2. PICK last \in Nat : last = total - 1 /\ last < total BY <1>3
    <2>3. start + total - 1 = start + last BY <1>3, <1>7, <2>2
    <2>4. q \in Pages /\ q + k \in Pages /\ q + last \in Pages /\ q <= q + k
          /\ q + k <= q + last
      BY <1>3, <1>13, <1>14, <1>16, <2>2 DEF Pages
    <2>5. Page(start + total - 1) = q + last /\ Page(start + k) = q + k
      BY <1>16, <2>1, <2>2, <2>3
    <2>6. SectorOf(q) <= SectorOf(q + k) /\ SectorOf(q + k) <= SectorOf(q + last)
      BY <2>4, SectorMono
    <2>7. SectorOf(q + k) \in SectorOf(q) .. SectorOf(q + last)
      BY <2>4, <2>6, SectorOfPage
    <2>8. \/ SectorOf(q + k) \in erased
          \/ SectorOf(q + k) = SectorOf(q) /\ q % SectorPages # 0 /\ SectorOf(q + k) \in dirty
      BY <1>1, <1>13, <2>5, <2>7 DEF SectorsReady
    <2>9. erasing = {} /\ capturing BY DEF PumpRuns
    <2>10. CASE SectorOf(q + k) \in erased
      BY <1>13, <2>4, <2>5, <2>7, <2>9, <2>10 DEF SpoolInv, ErasedInv
    <2>11. CASE SectorOf(q + k) = SectorOf(q) /\ q % SectorPages # 0 /\ SectorOf(q + k) \in dirty
      <3>1. q # 0
        <4>1. SectorPages \in Nat \ {0} /\ 0 \in Int /\ 0 \in 0 .. SectorPages - 1 BY Sizes
        <4>2. 0 % SectorPages = 0 BY ONLY <4>1, ModSmall
        <4> QED BY <2>11, <4>2
      <3>2. q = Page(reservePos) BY <1>2, <1>8, <1>9, <1>13, <3>1
      <3>3. flash[q + k] = Blank
        BY <2>4, <2>9, <2>11, <3>2 DEF SpoolInv, ErasedInv
      <3> QED BY <1>13, <2>4, <2>5, <2>7, <3>3
    <2> QED BY <2>8, <2>10, <2>11
  <1>17. gap # 0 => gapPages = 0 BY <1>1
  <1> QED BY <1>2, <1>6, <1>7, <1>8, <1>12, <1>13, <1>14, <1>15, <1>16, <1>17
          DEF gap, start

\* Room is reserved behind the last record, over the end of the region when the
\* record does not fit before it.
LEMMA ReserveKeeps ==
  ASSUME SpoolInv, NEW total \in RecordSizes, Reserve(total)
  PROVE  SpoolInv'
  <1>1. /\ PumpRuns /\ resv = NoResv
        /\ UNCHANGED << commitPos, ackPos, sendPos, records, device >>
    BY DEF Reserve
  <1>2. /\ capturing /\ failed = "none" /\ erasing = {} /\ session /\ Running
        /\ resv.phase = "none"
    BY <1>1 DEF PumpRuns, SpoolInv, SpoolTypeOK, Running, NoResv
  <1>3. CASE Plan(total) = "error"
    <2>1. Fails("reserve") /\ UNCHANGED << resv, reservePos, gapStart, gapPages, sectors >>
      BY <1>3 DEF Reserve
    <2>2. retryPending' \in BOOLEAN BY <1>1 DEF device, SpoolInv, SpoolTypeOK
    <2> QED BY <1>1, <1>2, <2>1, <2>2, FailKeeps DEF positions, device
  <1>4. CASE Plan(total) = "ok"
    <2>1. PICK gap \in Nat : gap = WrapGap(total) BY <1>1, <1>4, PlannedRoom
    <2>2. PICK start \in Nat : start = StartPos(total) BY <1>1, <1>4, PlannedRoom
    <2>3. PICK from \in Nat, ack \in Nat : from = reservePos /\ ack = ackPos BY Numbers
    <2>4. total \in Nat /\ total >= 2 /\ total <= LargestRecord /\ LargestRecord \in Nat
      BY LargestIsLargest, Sizes
    <2>5. /\ gap <= total - 1 /\ start = from + gap
          /\ gap # 0 => gapPages = 0 /\ Page(start) = 0
          /\ Page(start) + total <= RegionPages
          /\ (start + total) - ack <= RegionPages
          /\ Generation(start) <= MaxGeneration
          /\ start \in Positions /\ start + total \in Positions
      BY <1>1, <1>4, <2>1, <2>2, <2>3, PlannedRoom
    <2> DEFINE taken == SectorOf(Page(start)) .. SectorOf(Page(start + total - 1))
    <2>6. \A k \in Nat : k < total =>
            /\ Page(start + k) = Page(start) + k /\ Page(start + k) \in Pages
            /\ flash[Page(start + k)] = Blank
            /\ SectorOf(Page(start + k)) \in taken
      BY <1>1, <1>4, <2>2, PlannedRoom
    <2>7. /\ resv' = [phase |-> "page", start |-> start, total |-> total, done |-> 0]
          /\ reservePos' = start + total
          /\ IF gap = 0 THEN KeepGap ELSE gapStart' = from /\ gapPages' = gap
          /\ erased' = erased \ taken
          /\ dirty' = dirty \cup taken
          /\ reclaimable' = reclaimable \ taken
          /\ UNCHANGED << control, erasing >>
      BY <1>4, <2>1, <2>2, <2>3 DEF Reserve
    <2>8. /\ resv'.phase = "page" /\ resv'.start = start /\ resv'.total = total
          /\ resv'.done = 0 /\ resv' # NoResv
      BY <2>7 DEF NoResv
    <2>9. commitPos = from /\ ack <= from
      BY <1>1, <1>2, <2>3 DEF SpoolInv, CursorsInv
    <2>10. taken \subseteq Sectors
      <3>1. PICK last \in Nat : last = total - 1 /\ last < total BY <2>4
      <3>2. start + total - 1 = start + last /\ start + 0 = start BY <2>4, <3>1
      <3>3. Page(start) \in Pages /\ Page(start + total - 1) \in Pages
        BY <2>6, <3>1, <3>2, PageFacts
      <3>4. SectorOf(Page(start)) \in Sectors /\ SectorOf(Page(start + total - 1)) \in Sectors
        BY <3>3, SectorOfPage
      <3>5. PICK count \in Int : count = SectorCount
        <4>1. RegionPages \in Nat /\ SectorPages \in Nat \ {0} BY Sizes
        <4> QED BY <4>1, DivNat DEF SectorCount
      <3>6. SectorOf(Page(start)) \in 0 .. count - 1
            /\ SectorOf(Page(start + total - 1)) \in 0 .. count - 1
        BY <3>4, <3>5 DEF Sectors
      <3> QED BY <3>5, <3>6 DEF Sectors
    <2> HIDE DEF taken
    <2>11. \A pos \in Nat : pos < from => SkipGap(pos)' = SkipGap(pos)
      <3>1. CASE gap = 0 BY <2>7, <3>1 DEF KeepGap, SkipGap
      <3>2. CASE gap # 0 BY <2>5, <2>7, <3>2 DEF SkipGap
      <3> QED BY <3>1, <3>2
    <2>12. SkipGap(from)' = start
      <3>1. CASE gap = 0
        <4>1. ~(gapPages # 0 /\ from = gapStart)
          BY <1>2, <2>3, Numbers DEF SpoolInv, GapInv
        <4> QED BY <2>5, <2>7, <3>1, <4>1 DEF KeepGap, SkipGap
      <3>2. CASE gap # 0 BY <2>5, <2>7, <3>2 DEF SkipGap
      <3> QED BY <3>1, <3>2
    <2> USE DEF control, records, device, positions
    <2>13. Running' = Running BY <2>7 DEF Running
    <2>14. SpoolTypeOK'
      <3>1. gapStart' \in Positions
        BY <2>3, <2>7 DEF KeepGap, SpoolInv, SpoolTypeOK
      <3>2. gapPages' \in 0 .. LargestRecord - 1
        <4>1. CASE gap = 0 BY <2>7, <4>1 DEF KeepGap, SpoolInv, SpoolTypeOK
        <4>2. CASE gap # 0 BY <2>4, <2>5, <2>7, <4>2
        <4> QED BY <4>1, <4>2
      <3>3. resv' \in [phase: {"none", "page", "verify", "header", "headerVerify"},
                       start: Positions, total: RecordSizes \cup {0}, done: 0 .. LargestRecord]
        BY <2>4, <2>5, <2>7
      <3>4. erased' \subseteq Sectors /\ dirty' \subseteq Sectors /\ reclaimable' \subseteq Sectors
        BY <2>7, <2>10 DEF SpoolInv, SpoolTypeOK
      <3> QED BY <1>1, <2>5, <2>7, <3>1, <3>2, <3>3, <3>4 DEF SpoolInv, SpoolTypeOK
    <2>15. pending' \in Seq(RecordSet) /\ sent' \in Seq(RecordSet) BY <1>1 DEF SpoolInv
    <2>16. QuietInv' BY <1>1, <1>2, <2>7 DEF SpoolInv, QuietInv
    <2>17. ReservationInv'
      <3>1. 0 + 1 < total BY <2>4
      <3> QED BY <2>5, <2>8, <3>1 DEF ReservationInv
    <2>18. CursorsInv'
      <3>1. from <= start + total BY <2>4, <2>5
      <3> QED BY <1>1, <2>3, <2>5, <2>7, <2>8, <2>9, <2>12, <3>1 DEF CursorsInv
    <2>19. PICK n \in Nat : n = Len(pending) BY Numbers
    <2>20. \A i \in 1 .. n : EndBefore(i) \in Nat /\ EndBefore(i) < from
      <3> TAKE i \in 1 .. n
      <3>1. PICK end \in Nat : end = EndBefore(i)
        <4>1. CASE i = 1 BY <2>3, <4>1 DEF EndBefore
        <4>2. CASE i # 1
          <5>1. i - 1 \in 1 .. Len(pending) BY <2>19, <4>2
          <5> QED BY <4>2, <5>1, Numbers DEF EndBefore
        <4> QED BY <4>1, <4>2
      <3>2. PICK at \in Nat, size \in Nat : at = pending[i].at /\ size = pending[i].total /\ size >= 2
        BY <2>19, Numbers
      <3>3. at + size <= from
        BY <1>2, <2>9, <2>19, <3>2 DEF SpoolInv, PendingInv, RecordEnd
      <3>4. end <= at
        <4>1. at = SkipGap(end) BY <1>2, <2>19, <3>1, <3>2 DEF SpoolInv, PendingInv
        <4> QED BY <4>1, SkipGapTwice
      <3> QED BY <3>1, <3>2, <3>3, <3>4
    <2>21. \A i : EndBefore(i)' = EndBefore(i) BY <1>1 DEF EndBefore, RecordEnd
    <2>22. EndBefore(n + 1) \in Nat /\ (EndBefore(n + 1) < from \/ EndBefore(n + 1) = from)
      <3>1. PICK end \in Nat : end = EndBefore(n + 1)
        <4>1. CASE n = 0 BY <2>3, <4>1 DEF EndBefore
        <4>2. CASE n # 0
          <5>1. n \in 1 .. n /\ (n + 1) - 1 = n /\ n + 1 # 1 BY <4>2
          <5> QED BY <2>19, <5>1, Numbers DEF EndBefore
        <4> QED BY <4>1, <4>2
      <3>2. from \in {end, SkipGap(end)}
        BY <1>2, <2>9, <2>19, <3>1 DEF SpoolInv, PendingInv
      <3>3. end <= from BY <3>1, <3>2, SkipGapTwice
      <3> QED BY <3>1, <3>3
    <2>23. PendingInv'
      <3>1. \A i \in 1 .. n : pending[i].at = SkipGap(EndBefore(i))'
        BY <1>2, <2>11, <2>19, <2>20, <2>21 DEF SpoolInv, PendingInv, SkipGap
      <3>2. from \in {EndBefore(n + 1), SkipGap(EndBefore(n + 1))'}
        <4>1. from \in {EndBefore(n + 1), SkipGap(EndBefore(n + 1))}
          BY <1>2, <2>9, <2>19 DEF SpoolInv, PendingInv
        <4>2. CASE EndBefore(n + 1) = from BY <4>2
        <4>3. CASE EndBefore(n + 1) < from
          <5>1. SkipGap(EndBefore(n + 1))' = SkipGap(EndBefore(n + 1))
            BY <2>11, <2>21, <2>22, <4>3 DEF SkipGap
          <5> QED BY <4>1, <5>1
        <4> QED BY <2>22, <4>2, <4>3
      <3>3. EndBefore(Len(pending) + 1)' = EndBefore(n + 1)
            /\ SkipGap(EndBefore(Len(pending) + 1))' = SkipGap(EndBefore(n + 1))'
        BY <1>1, <2>19, <2>21 DEF SkipGap, EndBefore
      <3> QED BY <1>1, <1>2, <2>7, <2>9, <2>19, <3>1, <3>2, <3>3
              DEF SpoolInv, PendingInv, RecordEnd
    <2>24. GapInv'
      <3>1. CASE gap = 0
        <4>1. gapPages # 0 => gapStart + gapPages <= start + total /\ gapStart + gapPages <= start
          <5>1. gapPages # 0 => gapStart + gapPages <= from
            BY <1>2, <2>3 DEF SpoolInv, GapInv
          <5> QED BY <2>4, <2>5, <3>1, <5>1, Numbers
        <4> QED BY <1>1, <1>2, <2>7, <2>8, <3>1, <4>1 DEF SpoolInv, GapInv, KeepGap, RecordEnd
      <3>2. CASE gap # 0
        <4>1. gapStart' = from /\ gapPages' = gap /\ from + gap = start BY <2>5, <2>7, <3>2
        <4>2. \A i \in 1 .. n : RecordEnd(pending[i]) <= from
          BY <1>2, <2>9, <2>19 DEF SpoolInv, PendingInv
        <4>3. from + gap <= start + total /\ from + gap <= start BY <2>4, <4>1
        <4> QED BY <1>1, <2>3, <2>5, <2>7, <2>8, <2>9, <2>19, <3>2, <4>1, <4>2, <4>3
                DEF GapInv, RecordEnd
      <3> QED BY <3>1, <3>2
    <2>25. SendInv'
      <3>1. PICK out \in Nat : out = Len(sent) BY Numbers
      <3>2. out <= n BY <1>2, <2>19, <3>1 DEF SpoolInv, SendInv
      <3>3. out + 1 \in 1 .. n \/ out + 1 = n + 1 BY <3>2
      <3>4. EndBefore(out + 1) < from \/ EndBefore(out + 1) = from
        BY <2>20, <2>22, <3>3
      <3>5. EndBefore(out + 1) \in Nat BY <2>20, <2>22, <3>3
      <3>6. \/ sendPos \in {EndBefore(out + 1), SkipGap(EndBefore(out + 1))}
            \/ sent = << >> /\ txRecord = NoRecord /\ sendPos < ackPos /\ NoHeaderFor(sendPos)
        BY <1>2, <3>1 DEF SpoolInv, SendInv
      <3>7. sendPos \in {EndBefore(out + 1), SkipGap(EndBefore(out + 1))} =>
              sendPos \in {EndBefore(out + 1), SkipGap(EndBefore(out + 1))'}
        <4>1. CASE EndBefore(out + 1) < from
          BY <2>11, <2>21, <3>5, <4>1 DEF SkipGap
        <4>2. CASE EndBefore(out + 1) = from
          <5>1. SkipGap(from) = from
            BY <1>2, <2>3, Numbers DEF SpoolInv, GapInv, SkipGap
          <5> QED BY <4>2, <5>1
        <4> QED BY <3>4, <4>1, <4>2
      <3>8. EndBefore(Len(sent) + 1)' = EndBefore(out + 1)
            /\ SkipGap(EndBefore(Len(sent) + 1))' = SkipGap(EndBefore(out + 1))'
        BY <1>1, <2>21, <3>1 DEF SkipGap, EndBefore
      <3>9. NoHeaderFor(sendPos)' = NoHeaderFor(sendPos) BY <1>1, <2>7 DEF NoHeaderFor
      <3> QED BY <1>1, <1>2, <2>7, <3>1, <3>6, <3>7, <3>8, <3>9 DEF SpoolInv, SendInv
    <2>26. HeadersInv'
      <3>1. \A p \in Pages : flash[p].kind = "header" =>
              (flash[p].s = sessionId => flash[p].at \in Nat /\ flash[p].at < from)
        BY <1>2, <2>3 DEF SpoolInv, HeadersInv
      <3>2. \A p \in Pages : flash[p].kind = "header" =>
              (flash[p].s = sessionId => flash[p].at < start + total)
        BY <2>4, <2>5, <3>1
      <3>3. gapPages' # 0 => NoHeaderFor(gapStart)'
        <4>1. CASE gap = 0
          BY <1>1, <1>2, <2>7, <4>1 DEF SpoolInv, HeadersInv, NoHeaderFor, KeepGap
        <4>2. CASE gap # 0
          <5>1. gapStart' = from /\ Page(from) \in Pages BY <2>7, <4>2, PageFacts
          <5> QED BY <1>1, <2>3, <2>7, <3>1, <5>1 DEF NoHeaderFor
        <4> QED BY <4>1, <4>2
      <3> QED BY <1>1, <2>7, <2>8, <3>2, <3>3 DEF SpoolInv, HeadersInv
    <2>27. ErasedInv'
      <3>1. \A p \in RecordPages(Record(sessionId, start, total)) : SectorOf(p) \in taken
        <4> TAKE p \in RecordPages(Record(sessionId, start, total))
        <4>1. PICK x \in start .. start + total - 1 : p = Page(x)
          BY DEF RecordPages, Record
        <4>2. PICK k \in Nat : k = x - start BY <4>1
        <4>3. k < total /\ x = start + k BY <2>4, <4>1, <4>2
        <4> QED BY <2>6, <4>1, <4>3
      <3>2. ASSUME Page(start + total) % SectorPages # 0,
                   NEW p \in Pages, SectorOf(p) = SectorOf(Page(start + total)),
                   Page(start + total) <= p
            PROVE  flash[p] = Blank
        <4>1. PICK q \in Nat : q = Page(start) /\ q + total <= RegionPages
          BY <2>5, PageFacts
        <4>2. q + total # RegionPages
          <5> SUFFICES ASSUME q + total = RegionPages PROVE FALSE OBVIOUS
          <5>1. Page(start + total) = 0 BY <2>4, <4>1, PageAtEnd
          <5>2. SectorPages \in Nat \ {0} /\ 0 \in Int /\ 0 \in 0 .. SectorPages - 1 BY Sizes
          <5>3. 0 % SectorPages = 0 BY ONLY <5>2, ModSmall
          <5> QED BY <3>2, <5>1, <5>3
        <4>3. q + total < RegionPages BY <2>4, <4>1, <4>2, Sizes
        <4>4. Page(start + total) = q + total /\ q + total \in Pages
          <5>1. Page(start + total) = q + total BY <2>4, <4>1, <4>3, PageAhead
          <5> QED BY <2>4, <4>3, <5>1, Sizes DEF Pages
        <4>5. SectorOf(q + total - 1) = SectorOf(p)
          <5>1. PICK e \in Nat : e = q + total /\ e \in Pages BY <2>4, <4>1, <4>4
          <5>2. e % SectorPages # 0 /\ SectorOf(p) = SectorOf(e) BY <3>2, <4>4, <5>1
          <5>3. SectorOf(e - 1) = SectorOf(e) BY <5>1, <5>2, PageBefore
          <5>4. e - 1 = q + total - 1 BY <2>4, <4>1, <5>1
          <5> QED BY <5>2, <5>3, <5>4
        <4>6. PICK last \in Nat : last = total - 1 /\ last < total BY <2>4
        <4>7. q + total - 1 = q + last /\ Page(start + last) = q + last
              /\ start + total - 1 = start + last
          BY <2>4, <2>6, <4>1, <4>6
        <4>8. q + last \in Pages /\ SectorOf(q + last) = SectorOf(p)
          BY <2>6, <4>5, <4>6, <4>7
        <4>9. \/ SectorOf(p) \in erased
              \/ SectorOf(p) = SectorOf(q) /\ q % SectorPages # 0 /\ SectorOf(p) \in dirty
          <5>1. SectorsReady(start, total) BY <1>4, <2>2 DEF Plan
          <5>2. q \in Pages /\ q <= q + last BY <4>1, PageFacts
          <5>3. SectorOf(q) <= SectorOf(q + last) /\ SectorOf(q) \in Nat /\ SectorOf(p) \in Nat
            BY <4>8, <5>2, SectorMono, SectorOfPage
          <5>4. SectorOf(p) \in SectorOf(q) .. SectorOf(q + last) BY <4>8, <5>3
          <5> QED BY <4>1, <4>7, <5>1, <5>4 DEF SectorsReady
        <4>10. CASE SectorOf(p) \in erased
          BY <1>2, <4>10 DEF SpoolInv, ErasedInv
        <4>11. CASE SectorOf(p) = SectorOf(q) /\ q % SectorPages # 0 /\ SectorOf(p) \in dirty
          <5>1. q # 0
            <6>1. SectorPages \in Nat \ {0} /\ 0 \in Int /\ 0 \in 0 .. SectorPages - 1 BY Sizes
            <6>2. 0 % SectorPages = 0 BY ONLY <6>1, ModSmall
            <6> QED BY <4>11, <6>2
          <5>2. q = Page(reservePos)
            <6>1. gap = 0 BY <2>5, <4>1, <5>1
            <6>2. start = from BY <2>5, <6>1
            <6> QED BY <2>3, <4>1, <6>2
          <5>3. q <= p
            <6>1. p \in Int BY <3>2 DEF Pages
            <6> QED BY <2>4, <3>2, <4>1, <4>4, <6>1
          <5> QED BY <1>2, <4>11, <5>2, <5>3 DEF SpoolInv, ErasedInv
        <4> QED BY <4>9, <4>10, <4>11
      <3>3. \A p \in Pages : SectorOf(p) \in erased' => flash[p] = Blank
        BY <1>2, <2>7 DEF SpoolInv, ErasedInv
      <3>4. \A i \in 1 .. n : \A p \in RecordPages(pending[i]) : SectorOf(p) \notin erased'
        BY <2>7, <2>19 DEF SpoolInv, ErasedInv
      <3>5. \A p \in RecordPages(Record(sessionId, start, total)) : SectorOf(p) \notin erased'
        BY <2>7, <3>1
      <3> QED BY <1>1, <1>2, <2>7, <2>8, <2>19, <3>2, <3>3, <3>4, <3>5
              DEF ErasedInv, RecordPages, Record
    <2>28. FailedInv' /\ RetryIsReported' /\ BookkeepingNeverFails'
      BY <1>2, <2>7, <2>8 DEF FailedInv, RetryIsReported, BookkeepingNeverFails
    <2>29. LiveBytesIntact'
      <3>1. \A i \in DOMAIN pending : Holds(pending[i])'
        BY <1>1 DEF SpoolInv, LiveBytesIntact, Holds
      <3>2. \A i \in 1 .. 0 : FALSE OBVIOUS
      <3> QED BY <1>1, <2>8, <3>1, <3>2 DEF LiveBytesIntact
    <2>30. ReservedRoomIsErased'
      <3>1. \A i \in 0 + 1 .. total - 1 : flash[Page(start + i)] = Blank
        BY <2>4, <2>6
      <3>2. start + 0 = start /\ 0 < total BY <2>4
      <3>3. flash[Page(start)] = Blank BY <2>6, <3>2
      <3> QED BY <1>1, <2>8, <3>1, <3>3 DEF ReservedRoomIsErased
    <2> QED BY <2>14, <2>15, <2>16, <2>17, <2>18, <2>23, <2>24, <2>25, <2>26, <2>27, <2>28,
               <2>29, <2>30 DEF SpoolInv
  <1> QED BY <1>3, <1>4 DEF Reserve

-----------------------------------------------------------------------------
(* Sending and acking.                                                       *)

\* Where the record before the i-th pending one ends, as a number.
LEMMA EndBeforeIsNat ==
  ASSUME SpoolInv, NEW i \in Nat, 1 <= i, i <= Len(pending) + 1
  PROVE  EndBefore(i) \in Nat
  <1>1. CASE i = 1 BY <1>1, Numbers DEF EndBefore
  <1>2. CASE i # 1
    <2>1. i - 1 \in 1 .. Len(pending) BY <1>2, Numbers
    <2> QED BY <1>2, <2>1, Numbers DEF EndBefore
  <1> QED BY <1>1, <1>2

\* A header that belongs at a position of this session names that position.
LEMMA HeaderIsFor ==
  ASSUME SpoolInv, NEW pos \in Nat, HeaderAt(pos)
  PROVE  flash[Page(pos)].at = pos /\ ~NoHeaderFor(pos)
  <1>1. /\ flash[Page(pos)].kind = "header" /\ flash[Page(pos)].s = sessionId
        /\ Generation(flash[Page(pos)].at) = Generation(pos) /\ Page(pos) \in Pages
    BY PageFacts DEF HeaderAt
  <1>2. flash[Page(pos)].at \in Nat /\ Page(flash[Page(pos)].at) = Page(pos)
    BY <1>1 DEF SpoolInv, HeadersInv
  <1>3. flash[Page(pos)].at = pos BY <1>1, <1>2, SamePlace
  <1> QED BY <1>1, <1>3 DEF NoHeaderFor

\* The next record to be sent is the one behind those that were sent, and its
\* header says so; a send position left before a gap finds no header.
LEMMA PeekTxKeeps == ASSUME SpoolInv, PeekTx PROVE SpoolInv'
  <1>1. /\ session /\ failed = "none" /\ txRecord = NoRecord /\ Running
        /\ UNCHANGED << reservePos, commitPos, ackPos, resv, pending, sent, sectors,
                        flash, busy >>
        /\ KeepGap
    BY DEF PeekTx, PeekKeepsGap, KeepGap, Running
  <1>2. PICK send \in Nat, commit \in Nat : send = sendPos /\ commit = commitPos BY Numbers
  <1>3. PICK at \in Nat : at = SkipGapBounded(sendPos, commitPos)
    BY <1>2, SkipGapTwice DEF SkipGapBounded
  <1>4. /\ sendPos' = at
        /\ \/ UNCHANGED << txRecord, retryPending, control >>
           \/ /\ ~WindowFull /\ at < commit /\ retryPending' = retryPending
              /\ HeaderAt(at)
              /\ txRecord' = Record(sessionId, at, flash[Page(at)].n)
              /\ UNCHANGED control
           \/ Fails("peek") /\ txRecord' = txRecord /\ retryPending' = retryPending
    BY <1>2, <1>3 DEF PeekTx, NothingToSend, RetryAfterTxRead
  <1>5. at \in Positions
    <2>1. send \in Positions /\ commit \in Positions
      BY <1>2 DEF SpoolInv, SpoolTypeOK
    <2>2. at = send \/ at <= commit
      BY <1>2, <1>3, SkipGapTwice DEF SkipGapBounded
    <2>3. PICK last \in Nat : last = (MaxGeneration + 1) * RegionPages BY Sizes
    <2> QED BY <2>1, <2>2, <2>3 DEF Positions
  <1>6. PICK out \in Nat, n \in Nat : out = Len(sent) /\ n = Len(pending) /\ out <= n
    BY <1>1, Numbers DEF SpoolInv, SendInv
  <1>7. PICK end \in Nat : end = EndBefore(out + 1)
    BY <1>6, EndBeforeIsNat
  <1>8. PICK next \in Nat : next = SkipGap(end) /\ SkipGap(next) = next /\ end <= next
    BY SkipGapTwice
  <1>9. \/ send \in {end, next} /\ at \in {end, next}
        \/ sent = << >> /\ send < ackPos /\ NoHeaderFor(send) /\ at = send
    <2>1. \/ send \in {end, next}
          \/ sent = << >> /\ send < ackPos /\ NoHeaderFor(send)
      BY <1>1, <1>2, <1>6, <1>7, <1>8 DEF SpoolInv, SendInv
    <2>2. send \in {end, next} => at \in {end, next}
      BY <1>2, <1>3, <1>8 DEF SkipGapBounded
    <2>3. send < ackPos => at = send
      <3>1. gapPages # 0 => ackPos <= gapStart BY <1>1 DEF SpoolInv, GapInv
      <3>2. send < ackPos => SkipGap(send) = send
        BY <1>2, <3>1, Numbers DEF SkipGap
      <3> QED BY <1>2, <1>3, <3>2 DEF SkipGapBounded
    <2> QED BY <2>1, <2>2, <2>3
  <1> USE DEF control, sectors
  <1>10. Running' => Running BY <1>1
  <1>11. \A call : Fails(call) => UNCHANGED << session, sessionId, capturing >> /\ failed' = call
    BY DEF Fails
  <1>12. UNCHANGED << session, sessionId, capturing >> /\ failed' \in {"none", "peek"}
    BY <1>1, <1>4, <1>11
  <1>13. retryPending' = retryPending BY <1>4
  <1>14. \A i : EndBefore(i)' = EndBefore(i) BY <1>1 DEF EndBefore, RecordEnd
  <1>15. \A pos : SkipGap(pos)' = SkipGap(pos) BY <1>1 DEF KeepGap, SkipGap
  <1>16. \/ txRecord' = NoRecord
         \/ /\ out < InFlightMax /\ out < n
            /\ txRecord' = pending[out + 1] /\ at = pending[out + 1].at
            /\ failed' = "none"
    <2>1. CASE /\ ~WindowFull /\ at < commit /\ HeaderAt(at)
               /\ txRecord' = Record(sessionId, at, flash[Page(at)].n)
               /\ UNCHANGED control
      <3>1. out < InFlightMax BY <1>6, <2>1, Sizes DEF WindowFull
      <3>2. flash[Page(at)].at = at /\ ~NoHeaderFor(at) BY <2>1, HeaderIsFor
      <3>3. send \in {end, next} /\ at \in {end, next} BY <1>9, <3>2
      <3>4. at = IF next > commit THEN end ELSE next
        <4>1. SkipGap(send) = next BY <1>8, <3>3
        <4>2. at = IF next > commit THEN send ELSE next
          BY <1>2, <1>3, <4>1 DEF SkipGapBounded
        <4>3. at < commit BY <2>1
        <4> QED BY <3>3, <4>2, <4>3
      <3>5. out < n
        <4> SUFFICES ASSUME out = n PROVE FALSE BY <1>6
        <4>1. commit \in {end, next}
          BY <1>1, <1>2, <1>6, <1>7, <1>8 DEF SpoolInv, PendingInv
        <4> QED BY <1>8, <2>1, <3>4, <4>1
      <3>6. out + 1 \in 1 .. n BY <3>5
      <3>7. pending[out + 1].at = next /\ pending[out + 1].s = sessionId
            /\ RecordEnd(pending[out + 1]) <= commit
        BY <1>1, <1>2, <1>6, <1>7, <1>8, <3>6 DEF SpoolInv, PendingInv
      <3>8. PICK total \in Nat : total = pending[out + 1].total /\ total >= 2
        BY <1>6, <3>6, Numbers
      <3>9. next + total <= commit BY <3>7, <3>8 DEF RecordEnd
      <3>10. at = next BY <3>4, <3>8, <3>9
      <3>11. flash[Page(next)] = Header(sessionId, next, total)
        <4>1. out + 1 \in DOMAIN pending BY <1>6, <3>6, LenProperties DEF SpoolInv
        <4> QED BY <3>7, <3>8, <4>1 DEF SpoolInv, LiveBytesIntact, Holds
      <3>12. txRecord' = Record(sessionId, next, total)
        BY <2>1, <3>10, <3>11 DEF Header
      <3>13. pending[out + 1] \in RecordSet BY <1>6, <3>6, Numbers
      <3>14. pending[out + 1] = Record(sessionId, next, total)
        BY <3>7, <3>8, <3>13 DEF Record, RecordSet
      <3> QED BY <1>1, <2>1, <3>1, <3>5, <3>7, <3>10, <3>12, <3>14
    <2> QED BY <1>1, <1>4, <2>1
  <1>17. SpoolTypeOK'
    <2>1. txRecord' = NoRecord \/ txRecord'.total \in RecordSizes
      <3>1. out < n => pending[out + 1] \in RecordSet
        <4>1. out < n => out + 1 \in 1 .. n OBVIOUS
        <4> QED BY <1>6, <4>1, Numbers
      <3> QED BY <1>16, <3>1 DEF RecordSet
    <2> QED BY <1>1, <1>4, <1>5, <1>12, <1>13, <2>1 DEF SpoolInv, SpoolTypeOK, KeepGap
  <1>18. pending' \in Seq(RecordSet) /\ sent' \in Seq(RecordSet) BY <1>1 DEF SpoolInv
  <1>19. QuietInv' BY <1>1, <1>12 DEF SpoolInv, QuietInv
  <1>20. ReservationInv' BY <1>1 DEF SpoolInv, ReservationInv
  <1>21. CursorsInv' BY <1>1, <1>10, <1>15 DEF SpoolInv, CursorsInv, KeepGap, SkipGap
  <1>22. PendingInv'
    BY <1>1, <1>10, <1>12 DEF SpoolInv, PendingInv, KeepGap, SkipGap, EndBefore, RecordEnd
  <1>23. GapInv' BY <1>1, <1>10 DEF SpoolInv, GapInv, KeepGap, RecordEnd
  <1>24. SendInv'
    <2>1. /\ EndBefore(Len(sent) + 1)' = end
          /\ SkipGap(EndBefore(Len(sent) + 1))' = next
      BY <1>1, <1>6, <1>7, <1>8 DEF SkipGap, EndBefore, RecordEnd, KeepGap
    <2>2. NoHeaderFor(sendPos)' <=> NoHeaderFor(at)
      BY <1>1, <1>4, <1>12 DEF NoHeaderFor
    <2>3. txRecord' = NoRecord \/ at \in {end, next}
      <3>1. CASE txRecord' = pending[out + 1] /\ at = pending[out + 1].at /\ out < n
        <4>1. out + 1 \in 1 .. n BY <3>1
        <4> QED BY <1>1, <1>6, <1>7, <1>8, <3>1, <4>1 DEF SpoolInv, PendingInv
      <3> QED BY <1>16, <3>1
    <2>4. \/ sendPos' \in {end, next}
          \/ sent' = << >> /\ txRecord' = NoRecord /\ sendPos' < ackPos' /\ NoHeaderFor(sendPos)'
      BY <1>1, <1>4, <1>9, <2>2, <2>3
    <2>5. \A i \in 1 .. out : sent[i] = pending[i] BY <1>1, <1>6 DEF SpoolInv, SendInv
    <2>6. txRecord' # NoRecord => /\ Len(sent)' < InFlightMax /\ Len(sent)' < Len(pending)'
                                  /\ txRecord' = pending'[Len(sent') + 1]
                                  /\ sendPos' = txRecord'.at
      BY <1>1, <1>4, <1>6, <1>16
    <2> QED BY <1>1, <1>6, <2>1, <2>4, <2>5, <2>6 DEF SendInv
  <1>25. HeadersInv' BY <1>1, <1>10, <1>12 DEF SpoolInv, HeadersInv, NoHeaderFor, KeepGap
  <1>26. ErasedInv' BY <1>1, <1>12 DEF SpoolInv, ErasedInv
  <1>27. FailedInv' /\ RetryIsReported' /\ BookkeepingNeverFails'
    BY <1>1, <1>12, <1>13 DEF SpoolInv, FailedInv, RetryIsReported, BookkeepingNeverFails
  <1>28. LiveBytesIntact' /\ ReservedRoomIsErased' BY <1>1, <1>12, BytesKept
  <1> QED BY <1>17, <1>18, <1>19, <1>20, <1>21, <1>22, <1>23, <1>24, <1>25, <1>26, <1>27,
             <1>28 DEF SpoolInv

\* The record that was offered is the next pending one, so marking it as sent is
\* never refused.
LEMMA MarkTxSentKeeps == ASSUME SpoolInv, MarkTxSent PROVE SpoolInv'
  <1>1. /\ session /\ failed = "none" /\ txRecord # NoRecord /\ Running
        /\ UNCHANGED << reservePos, commitPos, ackPos, gapStart, gapPages, resv, pending,
                        sectors, device >>
    BY DEF MarkTxSent, Running
  <1>2. PICK out \in Nat, n \in Nat : out = Len(sent) /\ n = Len(pending) BY Numbers
  <1>3. /\ out < InFlightMax /\ out < n /\ txRecord = pending[out + 1]
        /\ sendPos = txRecord.at /\ \A i \in 1 .. out : sent[i] = pending[i]
    BY <1>1, <1>2 DEF SpoolInv, SendInv
  <1>4. out + 1 \in 1 .. n BY <1>3
  <1>5. /\ txRecord \in RecordSet /\ RecordEnd(txRecord) \in Nat
        /\ RecordEnd(txRecord) <= commitPos /\ RecordEnd(txRecord) = sendPos + txRecord.total
    BY <1>1, <1>2, <1>3, <1>4, Numbers DEF SpoolInv, PendingInv, RecordEnd
  <1>6. /\ sent' = Append(sent, txRecord) /\ sendPos' = RecordEnd(txRecord)
        /\ txRecord' = NoRecord /\ UNCHANGED control
    <2>1. ~WindowFull BY <1>2, <1>3, Sizes DEF WindowFull
    <2> QED BY <1>3, <1>5, <2>1 DEF MarkTxSent
  <1>7. /\ sent' \in Seq(RecordSet) /\ Len(sent') = out + 1
        /\ \A i \in 1 .. out : sent'[i] = sent[i]
        /\ sent'[out + 1] = txRecord
    BY <1>2, <1>5, <1>6, AppendProperties DEF SpoolInv
  <1>8. \A i \in 1 .. out + 1 : i \in 1 .. out \/ i = out + 1 OBVIOUS
  <1> USE DEF control, sectors, device
  <1>9. Running' = Running BY <1>6 DEF Running
  <1>10. SpoolTypeOK'
    <2>1. out + 1 <= InFlightMax BY <1>3, Sizes
    <2>2. sendPos' \in Positions
      <3>1. PICK last \in Nat : last = (MaxGeneration + 1) * RegionPages BY Sizes
      <3>2. PICK commit \in Nat : commit = commitPos /\ commit \in Positions
        BY Numbers DEF SpoolInv, SpoolTypeOK
      <3> QED BY <1>5, <1>6, <3>1, <3>2 DEF Positions
    <2> QED BY <1>1, <1>6, <1>7, <2>1, <2>2 DEF SpoolInv, SpoolTypeOK
  <1>11. pending' \in Seq(RecordSet) BY <1>1 DEF SpoolInv
  <1>12. QuietInv' BY <1>1, <1>6 DEF SpoolInv, QuietInv
  <1>13. ReservationInv' BY <1>1 DEF SpoolInv, ReservationInv
  <1>14. CursorsInv' BY <1>1, <1>9 DEF SpoolInv, CursorsInv, SkipGap
  <1>15. PendingInv'
    BY <1>1, <1>6, <1>9 DEF SpoolInv, PendingInv, SkipGap, EndBefore, RecordEnd
  <1>16. GapInv' BY <1>1, <1>9 DEF SpoolInv, GapInv, RecordEnd
  <1>17. SendInv'
    <2>1. EndBefore(out + 2)' = RecordEnd(txRecord)
      <3>1. out + 2 # 1 /\ (out + 2) - 1 = out + 1 OBVIOUS
      <3> QED BY <1>1, <1>3, <3>1 DEF EndBefore, RecordEnd
    <2>2. (out + 1) + 1 = out + 2 OBVIOUS
    <2>3. sendPos' = EndBefore(Len(sent) + 1)'
      BY <1>6, <1>7, <2>1, <2>2 DEF EndBefore
    <2>4. \A i \in 1 .. out + 1 : sent'[i] = pending[i] BY <1>3, <1>7, <1>8
    <2> QED BY <1>1, <1>2, <1>3, <1>6, <1>7, <2>3, <2>4 DEF SendInv
  <1>18. HeadersInv' BY <1>1, <1>6, <1>9 DEF SpoolInv, HeadersInv, NoHeaderFor
  <1>19. ErasedInv' BY <1>1, <1>6 DEF SpoolInv, ErasedInv
  <1>20. FailedInv' /\ RetryIsReported' /\ BookkeepingNeverFails'
    BY <1>1, <1>6 DEF SpoolInv, FailedInv, RetryIsReported, BookkeepingNeverFails
  <1>21. LiveBytesIntact' /\ ReservedRoomIsErased' BY <1>1, <1>6, BytesKept
  <1> QED BY <1>7, <1>10, <1>11, <1>12, <1>13, <1>14, <1>15, <1>16, <1>17, <1>18, <1>19,
             <1>20, <1>21 DEF SpoolInv

\* An ACK is never refused: it takes the oldest record that is sent, which is the
\* oldest pending one, and stops behind it or behind the gap after it.
LEMMA AckEffect ==
  ASSUME SpoolInv, Ack
  PROVE  /\ session /\ failed = "none" /\ Running /\ Running'
         /\ sent # << >> /\ 1 <= Len(sent) /\ Len(sent) <= Len(pending)
         /\ pending' = Tail(pending) /\ sent' = Tail(sent)
         /\ ackPos' = SkipGapBounded(RecordEnd(pending[1]), commitPos)
         /\ IF pending[1].at # ackPos \/ ackPos' # RecordEnd(pending[1])
            THEN ReleaseGap ELSE KeepGap
         /\ reclaimable' \subseteq reclaimable \cup dirty
         /\ UNCHANGED << control, reservePos, commitPos, sendPos, resv, txRecord, erased,
                         dirty, erasing, device >>
  <1>1. session /\ failed = "none" /\ sent # << >> /\ Running BY DEF Ack, Running
  <1>2. 1 <= Len(sent) /\ Len(sent) <= Len(pending)
    <2>1. Len(sent) # 0 BY <1>1, EmptySeq DEF SpoolInv
    <2> QED BY <1>1, <2>1, Numbers DEF SpoolInv, SendInv
  <1>3. 1 \in 1 .. Len(pending) /\ 1 \in 1 .. Len(sent) /\ pending # << >>
    <2>1. pending = << >> => Len(pending) = 0 OBVIOUS
    <2> QED BY <1>2, <2>1, Numbers
  <1>4. Head(sent) = pending[1]
    <2>1. Head(sent) = sent[1] OBVIOUS
    <2> QED BY <1>1, <1>3, <2>1 DEF SpoolInv, SendInv
  <1>5. /\ pending[1].at = SkipGap(ackPos) /\ EndBefore(1) = ackPos
        /\ RecordEnd(pending[1]) <= commitPos
    BY <1>1, <1>3 DEF SpoolInv, PendingInv, EndBefore
  <1>6. SkipGapBounded(ackPos, commitPos) = pending[1].at
    <2>1. PICK at \in Nat, total \in Nat : at = pending[1].at /\ total = pending[1].total
      BY <1>3, Numbers
    <2>2. PICK commit \in Nat : commit = commitPos BY Numbers
    <2>3. at + total <= commit BY <1>5, <2>1, <2>2 DEF RecordEnd
    <2>4. ~(at > commit) BY <2>3
    <2> QED BY <1>5, <2>1, <2>2, <2>4 DEF SkipGapBounded
  <1>7. SkipGapBounded(ackPos, commitPos) + Head(sent).total = RecordEnd(pending[1])
    BY <1>4, <1>6 DEF RecordEnd
  <1> QED BY <1>1, <1>2, <1>3, <1>4, <1>5, <1>6, <1>7 DEF Ack, SentAfterAck, Running, control

\* The records behind the acked one stand where they stood: at the new ACK
\* position or later.  A gap that is released lies before it, one that is kept does not.
LEMMA AckKeeps == ASSUME SpoolInv, Ack PROVE SpoolInv'
  <1>1. /\ session /\ failed = "none" /\ Running /\ Running'
        /\ sent # << >> /\ 1 <= Len(sent) /\ Len(sent) <= Len(pending)
        /\ pending' = Tail(pending) /\ sent' = Tail(sent)
        /\ ackPos' = SkipGapBounded(RecordEnd(pending[1]), commitPos)
        /\ IF pending[1].at # ackPos \/ ackPos' # RecordEnd(pending[1])
           THEN ReleaseGap ELSE KeepGap
        /\ reclaimable' \subseteq reclaimable \cup dirty
        /\ UNCHANGED << control, reservePos, commitPos, sendPos, resv, txRecord, erased,
                        dirty, erasing, device >>
    BY AckEffect
  <1> USE DEF control, device
  <1>2. PICK n \in Nat, out \in Nat :
          n = Len(pending) /\ out = Len(sent) /\ 1 <= out /\ out <= n
    BY <1>1, Numbers
  <1>3. /\ pending \in Seq(RecordSet) /\ sent \in Seq(RecordSet)
        /\ pending # << >>
    <2>1. pending = << >> => Len(pending) = 0 OBVIOUS
    <2> QED BY <1>2, <2>1 DEF SpoolInv
  <1>4. /\ pending' \in Seq(RecordSet) /\ Len(pending') = n - 1
        /\ \A i \in 1 .. n - 1 : pending'[i] = pending[i + 1] /\ i + 1 \in 1 .. n
    BY <1>1, <1>2, <1>3, HeadTailProperties
  <1>5. /\ sent' \in Seq(RecordSet) /\ Len(sent') = out - 1
        /\ \A i \in 1 .. out - 1 : sent'[i] = sent[i + 1] /\ i + 1 \in 1 .. out
    BY <1>1, <1>2, <1>3, HeadTailProperties
  <1>6. PICK ack \in Nat, commit \in Nat, reserve \in Nat, send \in Nat :
          ack = ackPos /\ commit = commitPos /\ reserve = reservePos /\ send = sendPos
    BY Numbers
  <1>7. PICK gap \in Nat, from \in Nat : gap = gapPages /\ from = gapStart BY Numbers
  <1>8. PICK at \in Nat, end \in Nat :
          /\ at = pending[1].at /\ end = RecordEnd(pending[1]) /\ at < end
          /\ ack <= at /\ end <= commit /\ at = SkipGap(ack)
    <2>1. 1 \in 1 .. Len(pending) BY <1>2
    <2>2. PICK a \in Nat, t \in Nat, e \in Nat :
            a = pending[1].at /\ t = pending[1].total /\ t >= 2 /\ e = RecordEnd(pending[1])
      BY <2>1, Numbers
    <2>3. e = a + t BY <2>2 DEF RecordEnd
    <2>4. a < e BY <2>2, <2>3
    <2> QED BY <1>1, <1>6, <2>1, <2>2, <2>4 DEF SpoolInv, PendingInv, EndBefore
  <1>9. PICK next \in Nat : next = SkipGap(end) /\ end <= next /\ SkipGap(next) = next
    BY SkipGapTwice
  <1>10. PICK upTo \in Nat : /\ upTo = ackPos' /\ upTo = IF next > commit THEN end ELSE next
                             /\ end <= upTo /\ upTo <= commit
    BY <1>1, <1>6, <1>8, <1>9 DEF SkipGapBounded
  <1>11. gapPages' # 0 => gapPages' = gapPages /\ gapStart' = gapStart
    BY <1>1 DEF ReleaseGap, KeepGap
  <1>12. gap # 0 => /\ ack <= from /\ from + gap <= reserve
                    /\ \A i \in 1 .. n : \/ RecordEnd(pending[i]) <= from
                                         \/ from + gap <= pending[i].at
    BY <1>1, <1>2, <1>6, <1>7 DEF SpoolInv, GapInv
  <1>13. gapPages' # 0 => upTo <= from
    <2> SUFFICES ASSUME gapPages' # 0 PROVE upTo <= from OBVIOUS
    <2>1. at = ack /\ upTo = end /\ gap # 0
      BY <1>1, <1>6, <1>7, <1>8, <1>10, <1>11 DEF ReleaseGap
    <2>2. 1 \in 1 .. n BY <1>2
    <2>3. end <= from \/ from + gap <= at BY <1>8, <1>12, <2>1, <2>2
    <2> QED BY <1>12, <2>1, <2>3
  <1>14. ASSUME NEW x \in Nat, upTo <= x PROVE SkipGap(x)' = SkipGap(x)
    <2>1. CASE gapPages' # 0 BY <1>11, <2>1 DEF SkipGap
    <2>2. CASE gapPages' = 0
      <3>1. SkipGap(x)' = x BY <2>2 DEF SkipGap
      <3>2. gap = 0 \/ at # ack \/ upTo # end
        BY <1>1, <1>6, <1>7, <1>8, <1>10, <2>2 DEF KeepGap
      <3>3. gap # 0 => from < upTo
        <4>1. CASE gap # 0 /\ at # ack
          <5>1. from = ack BY <1>6, <1>7, <1>8, <4>1 DEF SkipGap
          <5> QED BY <1>8, <1>10, <4>1, <5>1
        <4>2. CASE gap # 0 /\ upTo # end
          <5>1. from = end BY <1>7, <1>9, <1>10, <4>2 DEF SkipGap
          <5> QED BY <1>10, <4>2, <5>1
        <4> QED BY <3>2, <4>1, <4>2
      <3>4. ~(gap # 0 /\ x = from) BY <1>7, <1>10, <1>14, <3>3
      <3>5. SkipGap(x) = x BY <1>7, <3>4 DEF SkipGap
      <3> QED BY <3>1, <3>5
    <2> QED BY <2>1, <2>2
  <1>15. n >= 2 => upTo = next /\ pending[2].at = next
    <2> SUFFICES ASSUME n >= 2 PROVE upTo = next /\ pending[2].at = next OBVIOUS
    <2>1. 2 \in 1 .. Len(pending) /\ EndBefore(2) = end BY <1>2, <1>8 DEF EndBefore
    <2>2. pending[2].at = next BY <1>1, <1>9, <2>1 DEF SpoolInv, PendingInv
    <2>3. PICK t \in Nat : t = pending[2].total BY <2>1, Numbers
    <2>4. next + t <= commit
      BY <1>1, <1>6, <2>1, <2>2, <2>3 DEF SpoolInv, PendingInv, RecordEnd
    <2> QED BY <1>10, <2>2, <2>4
  <1>16. \A i \in 2 .. n : upTo <= pending[i].at /\ upTo <= RecordEnd(pending[i])
    <2> TAKE i \in 2 .. n
    <2>1. i \in 1 .. Len(pending) /\ 2 \in 1 .. Len(pending) /\ n >= 2 BY <1>2
    <2>2. PICK a \in Nat, t \in Nat : a = pending[i].at /\ t = pending[i].total
      BY <2>1, Numbers
    <2>3. RecordEnd(pending[i]) = a + t BY <2>2 DEF RecordEnd
    <2>4. CASE i = 2 BY <1>15, <2>1, <2>2, <2>3, <2>4
    <2>5. CASE i # 2
      <3>1. PICK b \in Nat, u \in Nat : b = pending[2].at /\ u = pending[2].total
        BY <2>1, Numbers
      <3>2. b + u <= a
        <4>1. 2 < i BY <2>5
        <4>2. RecordEnd(pending[2]) <= pending[i].at
          BY <1>1, <2>1, <4>1 DEF SpoolInv, PendingInv
        <4> QED BY <2>2, <3>1, <4>2 DEF RecordEnd
      <3> QED BY <1>15, <2>1, <2>2, <2>3, <3>1, <3>2
    <2> QED BY <2>4, <2>5
  <1>17. EndBefore(1)' = upTo /\ \A i \in 2 .. n : EndBefore(i)' = EndBefore(i + 1)
    <2>1. EndBefore(1)' = upTo BY <1>10 DEF EndBefore
    <2>2. ASSUME NEW i \in 2 .. n PROVE EndBefore(i)' = EndBefore(i + 1)
      <3>1. i - 1 \in 1 .. n - 1 /\ i # 1 /\ i + 1 # 1 /\ (i - 1) + 1 = i /\ (i + 1) - 1 = i
        OBVIOUS
      <3>2. pending'[i - 1] = pending[i] BY <1>4, <3>1
      <3> QED BY <3>1, <3>2 DEF EndBefore, RecordEnd
    <2> QED BY <2>1, <2>2
  <1>18. \A i \in 2 .. n : EndBefore(i + 1) \in Nat /\ upTo <= EndBefore(i + 1)
    <2> TAKE i \in 2 .. n
    <2>1. i \in 1 .. Len(pending) /\ i + 1 # 1 /\ (i + 1) - 1 = i BY <1>2
    <2> QED BY <1>16, <2>1, Numbers DEF EndBefore
  <1>19. \A i \in 2 .. n : SkipGap(EndBefore(i))' = SkipGap(EndBefore(i + 1))
    <2> TAKE i \in 2 .. n
    <2>1. PICK x \in Nat : x = EndBefore(i + 1) /\ upTo <= x BY <1>18
    <2>2. EndBefore(i)' = x BY <1>17, <2>1
    <2>3. SkipGap(x)' = SkipGap(x) BY <1>14, <2>1
    <2> QED BY <2>1, <2>2, <2>3 DEF SkipGap
  <1>20. SkipGap(EndBefore(1))' = SkipGap(upTo)
    <2>1. SkipGap(upTo)' = SkipGap(upTo) BY <1>14
    <2> QED BY <1>17, <2>1 DEF SkipGap
  <1>21. SpoolTypeOK'
    <2>1. ackPos' \in Positions
      <3>1. PICK last \in Nat : last = (MaxGeneration + 1) * RegionPages BY Sizes
      <3>2. commit \in Positions BY <1>6 DEF SpoolInv, SpoolTypeOK
      <3> QED BY <1>10, <3>1, <3>2 DEF Positions
    <2>2. gapStart' \in Positions /\ gapPages' \in 0 .. LargestRecord - 1
      <3>1. LargestRecord \in Nat /\ LargestRecord >= 2 BY LargestIsLargest, Sizes
      <3>2. (MaxGeneration + 1) * RegionPages \in Nat BY Sizes
      <3>3. 0 \in Positions /\ 0 \in 0 .. LargestRecord - 1 BY <3>1, <3>2 DEF Positions
      <3> QED BY <1>1, <3>3 DEF SpoolInv, SpoolTypeOK, ReleaseGap, KeepGap
    <2>3. \A i \in DOMAIN pending' : pending'[i] \in
            [s: {sessionId}, at: Positions, total: RecordSizes]
      <3>1. DOMAIN pending' = 1 .. n - 1 /\ DOMAIN pending = 1 .. n
        BY <1>2, <1>3, <1>4, LenProperties
      <3> QED BY <1>4, <3>1 DEF SpoolInv, SpoolTypeOK
    <2>4. Len(sent') <= InFlightMax
      <3>1. out <= InFlightMax BY <1>2 DEF SpoolInv, SpoolTypeOK
      <3>2. out - 1 <= InFlightMax BY <3>1, Sizes
      <3> QED BY <1>5, <3>2
    <2>5. reclaimable' \subseteq Sectors BY <1>1 DEF SpoolInv, SpoolTypeOK
    <2> QED BY <1>1, <2>1, <2>2, <2>3, <2>4, <2>5 DEF SpoolInv, SpoolTypeOK
  <1>22. QuietInv' /\ ReservationInv' BY <1>1 DEF SpoolInv, QuietInv, ReservationInv
  <1>23. CursorsInv'
    <2>1. reserve - upTo <= RegionPages
      <3>1. reserve - ack <= RegionPages /\ RegionPages \in Nat
        BY <1>1, <1>6, Sizes DEF SpoolInv, CursorsInv
      <3> QED BY <1>8, <1>10, <3>1
    <2>2. SkipGap(commitPos)' = SkipGap(commitPos)
      <3>1. SkipGap(commit)' = SkipGap(commit) BY <1>10, <1>14
      <3> QED BY <1>1, <1>6, <3>1 DEF SkipGap
    <2> QED BY <1>1, <1>6, <1>10, <2>1, <2>2 DEF SpoolInv, CursorsInv
  <1>24. PendingInv'
    <2>1. ASSUME NEW i \in 1 .. n - 1
          PROVE /\ pending[i + 1].s = sessionId
                /\ pending[i + 1].at = SkipGap(EndBefore(i))'
                /\ upTo <= pending[i + 1].at /\ RecordEnd(pending[i + 1]) <= commit
      <3>1. i + 1 \in 1 .. Len(pending) /\ i + 1 \in 2 .. n BY <1>2
      <3>2. pending[i + 1].at = SkipGap(EndBefore(i))'
        <4>1. CASE i = 1
          <5>1. n >= 2 /\ i + 1 = 2 BY <4>1
          <5> QED BY <1>9, <1>15, <1>20, <4>1, <5>1
        <4>2. CASE i # 1
          <5>1. i \in 2 .. n BY <4>2
          <5>2. pending[i + 1].at = SkipGap(EndBefore(i + 1))
            BY <1>1, <3>1 DEF SpoolInv, PendingInv
          <5> QED BY <1>19, <5>1, <5>2
        <4> QED BY <4>1, <4>2
      <3> QED BY <1>1, <1>6, <1>16, <3>1, <3>2 DEF SpoolInv, PendingInv
    <2>2. \A i, j \in 1 .. n - 1 :
            i < j => RecordEnd(pending[i + 1]) <= pending[j + 1].at
      <3> TAKE i, j \in 1 .. n - 1
      <3>1. i + 1 \in 1 .. Len(pending) /\ j + 1 \in 1 .. Len(pending)
            /\ (i < j => i + 1 < j + 1)
        BY <1>2
      <3> QED BY <1>1, <3>1 DEF SpoolInv, PendingInv
    <2>3. commit \in {EndBefore(n)', SkipGap(EndBefore(n))'}
      <3>1. commit \in {EndBefore(n + 1), SkipGap(EndBefore(n + 1))}
        BY <1>1, <1>2, <1>6 DEF SpoolInv, PendingInv
      <3>2. CASE n = 1
        <4>1. EndBefore(n + 1) = end BY <1>8, <3>2 DEF EndBefore
        <4> QED BY <1>9, <1>10, <1>17, <3>1, <3>2, <4>1
      <3>3. CASE n # 1
        <4>1. n \in 2 .. n BY <1>2, <3>3
        <4> QED BY <1>17, <1>19, <3>1, <4>1
      <3> QED BY <3>2, <3>3
    <2>4. EndBefore(Len(pending) + 1)' = EndBefore(n)'
          /\ SkipGap(EndBefore(Len(pending) + 1))' = SkipGap(EndBefore(n))'
      <3>1. (n - 1) + 1 = n OBVIOUS
      <3> QED BY <1>4, <3>1 DEF SkipGap, EndBefore
    <2>5. \A i \in 1 .. n - 1 : RecordEnd(pending[i])' = RecordEnd(pending[i + 1])
      BY <1>4 DEF RecordEnd
    <2>6. \A i \in 1 .. Len(pending') :
            /\ pending'[i].s = sessionId'
            /\ pending'[i].at = SkipGap(EndBefore(i))'
            /\ ackPos' <= pending'[i].at /\ RecordEnd(pending[i])' <= commitPos'
      BY <1>1, <1>4, <1>6, <1>10, <2>1, <2>5
    <2>7. \A i, j \in 1 .. Len(pending') :
            i < j => RecordEnd(pending[i])' <= pending'[j].at
      BY <1>4, <2>2, <2>5
    <2>8. commitPos' \in {EndBefore(Len(pending) + 1)', SkipGap(EndBefore(Len(pending) + 1))'}
      BY <1>1, <1>6, <2>3, <2>4
    <2> QED BY <2>6, <2>7, <2>8 DEF PendingInv
  <1>25. GapInv'
    <2> SUFFICES ASSUME gapPages' # 0 PROVE GapInv' BY DEF GapInv
    <2>1. gapPages' = gapPages /\ gapStart' = gapStart /\ gap # 0 BY <1>7, <1>11
    <2>2. \A i \in 1 .. n - 1 : \/ RecordEnd(pending[i + 1]) <= from
                                \/ from + gap <= pending[i + 1].at
      BY <1>4, <1>12, <2>1
    <2>3. \A i \in 1 .. n - 1 : RecordEnd(pending[i])' = RecordEnd(pending[i + 1])
      BY <1>4 DEF RecordEnd
    <2>4. /\ Page(gapStart + gapPages) = 0 /\ gapStart + gapPages <= reservePos
          /\ resv # NoResv => gapStart + gapPages <= resv.start
      BY <1>1, <1>7, <2>1 DEF SpoolInv, GapInv
    <2> QED BY <1>1, <1>4, <1>7, <1>10, <1>13, <2>1, <2>2, <2>3, <2>4 DEF GapInv, RecordEnd
  <1>26. SendInv'
    <2>1. /\ \A i \in 1 .. out : sent[i] = pending[i]
          /\ txRecord # NoRecord => /\ out < InFlightMax /\ out < n
                                    /\ txRecord = pending[out + 1] /\ send = txRecord.at
          /\ send \in {EndBefore(out + 1), SkipGap(EndBefore(out + 1))}
      BY <1>1, <1>2, <1>6 DEF SpoolInv, SendInv
    <2>2. \A i \in 1 .. out - 1 : sent'[i] = pending'[i]
      <3> TAKE i \in 1 .. out - 1
      <3>1. i \in 1 .. n - 1 /\ i + 1 \in 1 .. out BY <1>2
      <3> QED BY <1>4, <1>5, <2>1, <3>1
    <2>3. txRecord # NoRecord => /\ out - 1 < InFlightMax /\ out - 1 < n - 1
                                 /\ txRecord = pending'[out]
      <3> SUFFICES ASSUME txRecord # NoRecord
                   PROVE  /\ out - 1 < InFlightMax /\ out - 1 < n - 1
                          /\ txRecord = pending'[out]
        OBVIOUS
      <3>1. out \in 1 .. n - 1 BY <1>2, <2>1
      <3>2. out - 1 < InFlightMax BY <2>1, Sizes
      <3> QED BY <1>4, <2>1, <3>1, <3>2
    <2>4. \/ send \in {EndBefore(out)', SkipGap(EndBefore(out))'}
          \/ sent' = << >> /\ txRecord = NoRecord /\ send < upTo /\ NoHeaderFor(send)
      <3>1. CASE out # 1
        <4>1. out \in 2 .. n BY <1>2, <3>1
        <4> QED BY <1>17, <1>19, <2>1, <4>1
      <3>2. CASE out = 1
        <4>1. EndBefore(out + 1) = end BY <1>8, <3>2 DEF EndBefore
        <4>2. send \in {end, next} BY <1>9, <2>1, <4>1
        <4>3. CASE send = upTo BY <1>17, <3>2, <4>3
        <4>4. CASE send # upTo /\ upTo = end
          <5>1. send = next BY <4>2, <4>4
          <5>2. SkipGap(EndBefore(1))' = next BY <1>9, <1>20, <4>4
          <5> QED BY <3>2, <5>1, <5>2
        <4>5. CASE send # upTo /\ upTo = next
          <5>1. send = end /\ end # next BY <4>2, <4>5
          <5>2. send < upTo BY <1>9, <4>5, <5>1
          <5>3. gap # 0 /\ from = end BY <1>7, <1>9, <5>1 DEF SkipGap
          <5>4. NoHeaderFor(send) BY <1>1, <1>7, <5>1, <5>3 DEF SpoolInv, HeadersInv
          <5>5. txRecord = NoRecord
            <6> SUFFICES ASSUME txRecord # NoRecord PROVE FALSE OBVIOUS
            <6>1. n >= 2 /\ txRecord = pending[2] /\ send = txRecord.at BY <2>1, <3>2
            <6> QED BY <1>15, <4>5, <6>1
          <5>6. sent' = << >>
            <6>1. Len(sent') = 0 BY <1>5, <3>2
            <6> QED BY <1>5, <6>1, EmptySeq
          <5> QED BY <5>2, <5>4, <5>5, <5>6
        <4> QED BY <1>10, <4>3, <4>4, <4>5
      <3> QED BY <3>1, <3>2
    <2>5. EndBefore(Len(sent) + 1)' = EndBefore(out)'
          /\ SkipGap(EndBefore(Len(sent) + 1))' = SkipGap(EndBefore(out))'
      <3>1. (out - 1) + 1 = out OBVIOUS
      <3> QED BY <1>5, <3>1 DEF SkipGap, EndBefore
    <2>6. NoHeaderFor(sendPos)' <=> NoHeaderFor(send) BY <1>1, <1>6 DEF NoHeaderFor
    <2>7. (out - 1) + 1 = out /\ out - 1 <= n - 1 BY <1>2
    <2> QED BY <1>1, <1>4, <1>5, <1>6, <1>10, <2>1, <2>2, <2>3, <2>4, <2>5, <2>6, <2>7
            DEF SendInv
  <1>27. HeadersInv'
    <2>1. gapPages' # 0 => NoHeaderFor(gapStart)'
      BY <1>1, <1>11 DEF SpoolInv, HeadersInv, NoHeaderFor
    <2> QED BY <1>1, <2>1 DEF SpoolInv, HeadersInv
  <1>28. ErasedInv'
    <2>1. \A i \in 1 .. n - 1 : \A p \in RecordPages(pending[i])' :
            SectorOf(p) \notin erased \cup erasing
      <3> TAKE i \in 1 .. n - 1
      <3>1. RecordPages(pending[i])' = RecordPages(pending[i + 1]) BY <1>4 DEF RecordPages
      <3>2. i + 1 \in 1 .. Len(pending) BY <1>2, <1>4
      <3> QED BY <3>1, <3>2 DEF SpoolInv, ErasedInv
    <2> QED BY <1>1, <1>4, <2>1 DEF SpoolInv, ErasedInv
  <1>29. FailedInv' /\ RetryIsReported' /\ BookkeepingNeverFails'
    BY <1>1 DEF SpoolInv, FailedInv, RetryIsReported, BookkeepingNeverFails
  <1>30. LiveBytesIntact' /\ ReservedRoomIsErased'
    <2>1. \A i \in DOMAIN pending' : Holds(pending[i])'
      <3> TAKE i \in DOMAIN pending'
      <3>1. i \in 1 .. n - 1 BY <1>4, LenProperties
      <3>2. i + 1 \in DOMAIN pending BY <1>2, <1>3, <1>4, <3>1, LenProperties
      <3>3. Holds(pending[i + 1]) BY <3>2 DEF SpoolInv, LiveBytesIntact
      <3>4. pending'[i] = pending[i + 1] BY <1>4, <3>1
      <3> QED BY <1>1, <3>3, <3>4 DEF Holds
    <2> QED BY <1>1, <2>1 DEF SpoolInv, LiveBytesIntact, ReservedRoomIsErased
  <1> QED BY <1>4, <1>5, <1>21, <1>22, <1>23, <1>24, <1>25, <1>26, <1>27, <1>28, <1>29,
             <1>30 DEF SpoolInv

-----------------------------------------------------------------------------
(* The invariant.                                                            *)

\* After the boot: no session, an empty ring, headers of no session of this boot.
LEMMA InitInv == Init => SpoolInv
  <1> SUFFICES ASSUME Init PROVE SpoolInv OBVIOUS
  <1> USE DEF Init
  <1>1. ~Running /\ ~capturing /\ resv = NoResv BY DEF Running
  <1>2. Len(pending) = 0 /\ Len(sent) = 0 /\ DOMAIN pending = {} OBVIOUS
  <1>3. LargestRecord \in Nat /\ LargestRecord >= 2 BY LargestIsLargest, Sizes
  <1>4. \A p \in Pages : p \in Nat /\ p \in Positions /\ Page(p) = p
    <2> TAKE p \in Pages
    <2>1. RegionPages \in Nat \ {0} /\ MaxGeneration \in Nat BY Sizes
    <2>2. p \in 0 .. RegionPages - 1 /\ p \in Int /\ p \in Nat BY <2>1 DEF Pages
    <2>3. p % RegionPages = p BY ONLY <2>1, <2>2, ModSmall
    <2>4. (MaxGeneration + 1) * RegionPages = MaxGeneration * RegionPages + RegionPages
          /\ MaxGeneration * RegionPages \in Nat
      BY <2>1
    <2>5. p <= (MaxGeneration + 1) * RegionPages BY <2>1, <2>2, <2>4
    <2> QED BY <2>1, <2>2, <2>3, <2>5 DEF Page, Positions
  <1>5. \A p \in Pages : /\ flash[p].kind = "header" /\ flash[p].s = 0 /\ flash[p].at = p
                         /\ flash[p] \in Contents
    BY <1>3, <1>4, Sizes DEF Header, Contents
  <1>6. SpoolTypeOK
    <2>1. (MaxGeneration + 1) * RegionPages \in Nat /\ InFlightMax \in Nat
          /\ SessionLimit \in Nat
      BY Sizes
    <2>2. 0 \in Positions /\ 0 \in 0 .. LargestRecord - 1 /\ 0 \in 0 .. LargestRecord
      BY <1>3, <2>1 DEF Positions
    <2>3. NoResv \in [phase: {"none", "page", "verify", "header", "headerVerify"},
                      start: Positions, total: RecordSizes \cup {0}, done: 0 .. LargestRecord]
      BY <2>2 DEF NoResv
    <2>4. flash \in [Pages -> Contents] BY <1>5
    <2>5. {reservePos, commitPos, ackPos, sendPos, gapStart} \subseteq Positions BY <2>2
    <2>6. /\ session \in BOOLEAN /\ capturing \in BOOLEAN /\ (capturing => session)
          /\ failed = "none" /\ txRecord = NoRecord /\ sessionId = 0 /\ gapPages = 0
      OBVIOUS
    <2>7. /\ erased \subseteq Sectors /\ dirty \subseteq Sectors
          /\ reclaimable \subseteq Sectors /\ erasing \subseteq Sectors
          /\ retryPending \in BOOLEAN /\ busy \in BOOLEAN /\ resv = NoResv
      OBVIOUS
    <2> HIDE DEF Init
    <2>8. /\ sessionId \in 0 .. SessionLimit /\ gapPages \in 0 .. LargestRecord - 1
          /\ Len(sent) <= InFlightMax
      BY <1>2, <2>1, <2>2, <2>6
    <2> QED BY <1>2, <2>3, <2>4, <2>5, <2>6, <2>7, <2>8 DEF SpoolTypeOK
  <1>7. pending \in Seq(RecordSet) /\ sent \in Seq(RecordSet) OBVIOUS
  <1>8. QuietInv /\ ReservationInv BY <1>1 DEF QuietInv, ReservationInv
  <1>9. CursorsInv /\ PendingInv /\ GapInv /\ SendInv
    BY <1>1 DEF CursorsInv, PendingInv, GapInv, SendInv
  <1>10. HeadersInv
    <2>1. resv.phase # "headerVerify" BY DEF NoResv
    <2> QED BY <1>1, <1>4, <1>5, <2>1 DEF HeadersInv
  <1>11. ErasedInv BY <1>1, <1>2 DEF ErasedInv
  <1>12. FailedInv /\ RetryIsReported /\ BookkeepingNeverFails
    BY DEF FailedInv, RetryIsReported, BookkeepingNeverFails, NoResv
  <1>13. LiveBytesIntact /\ ReservedRoomIsErased
    BY <1>1, <1>2 DEF LiveBytesIntact, ReservedRoomIsErased
  <1> QED BY <1>6, <1>7, <1>8, <1>9, <1>10, <1>11, <1>12, <1>13 DEF SpoolInv

\* Every call of the spool, and every step of the Flash, keeps it.
LEMMA NextKeeps == SpoolInv /\ [Next]_vars => SpoolInv'
  <1> SUFFICES ASSUME SpoolInv, [Next]_vars PROVE SpoolInv' OBVIOUS
  <1>1. CASE \E total \in RecordSizes : Reserve(total) BY <1>1, ReserveKeeps
  <1>2. CASE WritePage BY <1>2, WritePageKeeps
  <1>3. CASE ReadBack BY <1>3, ReadBackKeeps
  <1>4. CASE HeaderProgram BY <1>4, HeaderProgramKeeps
  <1>5. CASE HeaderVerify BY <1>5, HeaderVerifyKeeps
  <1>6. CASE PeekTx BY <1>6, PeekTxKeeps
  <1>7. CASE MarkTxSent BY <1>7, MarkTxSentKeeps
  <1>8. CASE Ack BY <1>8, AckKeeps
  <1>9. CASE \E target \in {PreeraseMin, EraseHigh} : EraseForward(target)
    BY <1>9, EraseForwardKeeps
  <1>10. CASE PollErase BY <1>10, PollEraseKeeps
  <1>11. CASE DeviceDone BY <1>11, DeviceDoneKeeps
  <1>12. CASE EraseIdle BY <1>12, EraseIdleKeeps
  <1>13. CASE FlashError BY <1>13, FlashErrorKeeps
  <1>14. CASE Begin BY <1>14, BeginKeeps
  <1>15. CASE StopCapture BY <1>15, StopCaptureKeeps
  <1>16. CASE DiscardTail BY <1>16, DiscardTailKeeps
  <1>17. CASE PostSessionCleanup BY <1>17, CleanupKeeps DEF PostSessionCleanup
  <1>18. CASE AbortCleanup BY <1>18, CleanupKeeps DEF AbortCleanup
  <1>19. CASE UNCHANGED vars
    <2>1. UNCHANGED << positions, resv, records, sectors, flash, busy, control, retryPending >>
      BY <1>19 DEF vars, device
    <2>2. UNCHANGED << session, sessionId, capturing, failed >> BY <2>1 DEF control
    <2>3. Running' = Running BY <2>2 DEF Running
    <2>4. CursorsInv' /\ PendingInv' /\ GapInv' BY <2>1, <2>2, <2>3, CursorsKept DEF records
    <2>5. SendInv' /\ HeadersInv' BY <2>1, <2>2, <2>3, HeadersKept
    <2>6. LiveBytesIntact' /\ ReservedRoomIsErased' BY <2>1, <2>2, BytesKept DEF records
    <2>7. SpoolTypeOK' BY <2>1, <2>2 DEF SpoolInv, SpoolTypeOK, positions, records, sectors
    <2>8. pending' \in Seq(RecordSet) /\ sent' \in Seq(RecordSet)
      BY <2>1 DEF SpoolInv, records
    <2>9. QuietInv' /\ ReservationInv'
      BY <2>1, <2>2 DEF SpoolInv, QuietInv, ReservationInv, positions, records, sectors
    <2>10. ErasedInv' BY <2>1, <2>2 DEF SpoolInv, ErasedInv, positions, records, sectors
    <2>11. FailedInv' /\ RetryIsReported' /\ BookkeepingNeverFails'
      BY <2>1, <2>2 DEF SpoolInv, FailedInv, RetryIsReported, BookkeepingNeverFails
    <2> QED BY <2>4, <2>5, <2>6, <2>7, <2>8, <2>9, <2>10, <2>11 DEF SpoolInv
  <1> QED BY <1>1, <1>2, <1>3, <1>4, <1>5, <1>6, <1>7, <1>8, <1>9, <1>10, <1>11, <1>12,
             <1>13, <1>14, <1>15, <1>16, <1>17, <1>18, <1>19 DEF Next

\* The bookkeeping of the ring, the bytes of the records and the state of the
\* sectors agree in every reachable state of the spool.
THEOREM SpoolInvariant == SpoolSpec => []SpoolInv
  BY InitInv, NextKeeps, PTL DEF SpoolSpec, SpoolSafety

\* Every variable of the spool keeps its type; no sequence of calls takes a
\* position beyond the last generation the header can name.
THEOREM SpoolTypeCorrect == SpoolSpec => []SpoolTypeOK
  <1>1. SpoolInv => SpoolTypeOK BY DEF SpoolInv
  <1> QED BY <1>1, SpoolInvariant, PTL

\* Committed records and the verified pages of a reservation stay as they were
\* written until the ACK, whatever is erased, programmed or wrapped around.
THEOREM CommittedRecordsStay == SpoolSpec => []LiveBytesIntact
  <1>1. SpoolInv => LiveBytesIntact BY DEF SpoolInv
  <1> QED BY <1>1, SpoolInvariant, PTL

\* The room of a reservation is blank until it is programmed.
THEOREM ReservedRoomStaysErased == SpoolSpec => []ReservedRoomIsErased
  <1>1. SpoolInv => ReservedRoomIsErased BY DEF SpoolInv
  <1> QED BY <1>1, SpoolInvariant, PTL

\* A page that is programmed and not read back yet is never taken for a new one.
THEOREM RetryIsAlwaysReported == SpoolSpec => []RetryIsReported
  <1>1. SpoolInv => RetryIsReported BY DEF SpoolInv
  <1> QED BY <1>1, SpoolInvariant, PTL

\* Marking a record as sent and acking it are never refused, and only a spoilt
\* header makes a commit fail.
THEOREM BookkeepingIsSound == SpoolSpec => []BookkeepingNeverFails
  <1>1. SpoolInv => BookkeepingNeverFails BY DEF SpoolInv
  <1> QED BY <1>1, SpoolInvariant, PTL

\* What RecordsFillTheRing says in its terms follows from where the invariant
\* says the records end.
LEMMA InvFillsTheRing == SpoolInv => RecordsFillTheRing
  <1> SUFFICES ASSUME SpoolInv, Running PROVE RecordsFillTheRing
    BY DEF RecordsFillTheRing, Running
  <1>1. PICK n \in Nat, out \in Nat : n = Len(pending) /\ out = Len(sent) /\ out <= n
    BY Numbers DEF SpoolInv, SendInv
  <1>2. DOMAIN pending = 1 .. n BY <1>1, LenProperties DEF SpoolInv
  <1>3. Used \in 0 .. RegionPages
    <2>1. PICK ack \in Nat, commit \in Nat, reserve \in Nat :
            ack = ackPos /\ commit = commitPos /\ reserve = reservePos
      BY Numbers
    <2>2. ack <= commit /\ commit <= reserve /\ reserve - ack <= RegionPages
          /\ RegionPages \in Nat
      BY <2>1, Sizes DEF SpoolInv, CursorsInv
    <2>3. reserve - ack \in 0 .. RegionPages BY <2>1, <2>2
    <2> QED BY <2>1, <2>3 DEF Used
  <1> DEFINE ends == [i \in DOMAIN pending |-> RecordEnd(pending[i])]
             bounds == << ackPos >> \o ends
  <1>4. ends \in Seq(Nat) /\ Len(ends) = n
    <2>1. ends \in [1 .. n -> Nat] BY <1>1, <1>2, Numbers
    <2> QED BY <2>1
  <1>5. << ackPos >> \in Seq(Nat) /\ Len(<< ackPos >>) = 1 /\ << ackPos >>[1] = ackPos
    BY Numbers
  <1>6. /\ Len(bounds) = n + 1
        /\ \A i \in 1 .. n + 1 : bounds[i] = EndBefore(i)
    <2>1. /\ Len(bounds) = 1 + n
          /\ \A i \in 1 .. 1 + n : bounds[i] = IF i <= 1 THEN << ackPos >>[i] ELSE ends[i - 1]
      <3> HIDE DEF ends
      <3> QED BY <1>4, <1>5, ConcatProperties
    <2>2. 1 + n = n + 1 OBVIOUS
    <2>3. ASSUME NEW i \in 1 .. n + 1 PROVE bounds[i] = EndBefore(i)
      <3>1. CASE i = 1 BY <1>5, <2>1, <2>2, <3>1 DEF EndBefore
      <3>2. CASE i # 1
        <4>1. ~(i <= 1) /\ i - 1 \in 1 .. n BY <3>2
        <4>2. ends[i - 1] = RecordEnd(pending[i - 1]) BY <1>2, <4>1
        <4>3. bounds[i] = ends[i - 1] BY <2>1, <2>2, <4>1
        <4> QED BY <3>2, <4>2, <4>3 DEF EndBefore
      <3> QED BY <3>1, <3>2
    <2> QED BY <2>1, <2>2, <2>3
  <1> HIDE DEF bounds
  <1>7. \A i \in DOMAIN pending : pending[i].at \in {bounds[i], SkipGap(bounds[i])}
    <2> TAKE i \in DOMAIN pending
    <2>1. i \in 1 .. Len(pending) /\ bounds[i] = EndBefore(i) BY <1>1, <1>2, <1>6
    <2> QED BY <2>1 DEF SpoolInv, PendingInv
  <1>8. commitPos \in {bounds[Len(bounds)], SkipGap(bounds[Len(bounds)])}
    <2>1. n + 1 \in 1 .. n + 1 /\ bounds[Len(bounds)] = EndBefore(Len(pending) + 1)
      BY <1>1, <1>6
    <2> QED BY <2>1 DEF SpoolInv, PendingInv
  <1>9. IF resv = NoResv THEN reservePos = commitPos
        ELSE resv.start = SkipGap(commitPos) /\ reservePos = resv.start + resv.total
    BY DEF SpoolInv, CursorsInv
  <1>10. gapPages # 0 => /\ ackPos <= gapStart /\ gapStart + gapPages <= reservePos
                         /\ Page(gapStart + gapPages) = 0
    BY DEF SpoolInv, GapInv
  <1>11. sent = SubSeq(pending, 1, Len(sent))
    <2>1. /\ \A i \in 1 .. out : pending[i] \in RecordSet /\ sent[i] = pending[i]
          /\ pending \in Seq(RecordSet) /\ sent \in Seq(RecordSet)
      <3>1. \A i \in 1 .. out : i \in 1 .. Len(pending) BY <1>1
      <3> QED BY <1>1, <3>1, Numbers DEF SpoolInv, SendInv
    <2>2. /\ SubSeq(pending, 1, out) \in Seq(RecordSet)
          /\ Len(SubSeq(pending, 1, out)) = IF 1 <= out THEN out - 1 + 1 ELSE 0
          /\ \A i \in 1 .. out - 1 + 1 : SubSeq(pending, 1, out)[i] = pending[1 + i - 1]
      BY <2>1, SubSeqProperties
    <2>3. out - 1 + 1 = out /\ \A i \in 1 .. out : 1 + i - 1 = i OBVIOUS
    <2>4. Len(SubSeq(pending, 1, out)) = out BY <2>2
    <2>5. \A i \in 1 .. out : SubSeq(pending, 1, out)[i] = sent[i] BY <2>1, <2>2, <2>3
    <2> QED BY <1>1, <2>1, <2>2, <2>4, <2>5, SeqEqual
  <1> QED BY <1>3, <1>7, <1>8, <1>9, <1>10, <1>11 DEF RecordsFillTheRing, bounds

\* Between any two calls the records, the reservation and the wrap gap fill the
\* ring from the ACK to the reserve position without a hole.
THEOREM RecordsAlwaysFillTheRing == SpoolSpec => []RecordsFillTheRing
  BY InvFillsTheRing, SpoolInvariant, PTL

-----------------------------------------------------------------------------
(* The spool implements RecordLog.                                           *)

\* What waits to be sent: the pending records behind those that are sent.
LEMMA BacklogFacts ==
  ASSUME SpoolInv, Running,
         NEW n \in Nat, n = Len(pending), NEW out \in Nat, out = Len(sent)
  PROVE  /\ out <= n
         /\ SubSeq(pending, out + 1, n) \in Seq(RecordSet)
         /\ Len(SubSeq(pending, out + 1, n)) = n - out
         /\ \A i \in 1 .. n - out : /\ SubSeq(pending, out + 1, n)[i] = pending[out + i]
                                    /\ out + i \in 1 .. n
  <1>1. out <= n BY DEF SpoolInv, SendInv
  <1>2. \A i \in out + 1 .. n : pending[i] \in RecordSet
    <2>1. \A i \in out + 1 .. n : i \in 1 .. Len(pending) BY <1>1
    <2> QED BY <2>1, Numbers
  <1>3. out + 1 \in Int /\ n \in Int OBVIOUS
  <1>4. /\ SubSeq(pending, out + 1, n) \in Seq(RecordSet)
        /\ Len(SubSeq(pending, out + 1, n)) = IF out + 1 <= n THEN n - (out + 1) + 1 ELSE 0
        /\ \A i \in 1 .. n - (out + 1) + 1 :
             SubSeq(pending, out + 1, n)[i] = pending[out + 1 + i - 1]
    BY <1>2, <1>3, SubSeqProperties
  <1>5. /\ n - (out + 1) + 1 = n - out
        /\ \A i \in 1 .. n - out : out + 1 + i - 1 = out + i /\ out + i \in 1 .. n
        /\ (IF out + 1 <= n THEN n - (out + 1) + 1 ELSE 0) = n - out
    BY <1>1
  <1> QED BY <1>1, <1>4, <1>5

\* A verified header puts a record into the log that is not in it yet: it begins
\* where all others have ended.
LEMMA HeaderVerifyCommits ==
  ASSUME SpoolInv, SpoolInv', HeaderVerify
  PROVE  [Log!LogNext]_<< SubSeq(pending, Len(sent) + 1, Len(pending)), sent >>
  <1>1. capturing /\ failed = "none" /\ resv.phase = "headerVerify" /\ sent' = sent
    BY DEF HeaderVerify, PumpRuns
  <1>2. Running /\ resv # NoResv /\ session
    BY <1>1 DEF Running, NoResv, SpoolInv, SpoolTypeOK
  <1>3. CASE pending' = pending BY <1>1, <1>3
  <1>4. CASE pending' # pending
    <2> DEFINE r == Record(sessionId, resv.start, resv.total)
    <2>1. pending' = Append(pending, r) /\ UNCHANGED control BY <1>4 DEF HeaderVerify
    <2>2. r \in RecordSet /\ r \in [s: 1 .. SessionLimit, at: Positions, total: RecordSizes]
      <3>1. sessionId \in Nat /\ sessionId \in 1 .. SessionLimit
        BY <1>2, Sizes, Numbers DEF SpoolInv, QuietInv, SpoolTypeOK
      <3>2. resv.start \in Positions /\ resv.total \in RecordSizes
        BY <1>2 DEF SpoolInv, ReservationInv, SpoolTypeOK
      <3> QED BY <3>1, <3>2 DEF Record, RecordSet
    <2>3. PICK n \in Nat, out \in Nat : n = Len(pending) /\ out = Len(sent) BY Numbers
    <2>4. \A i \in 1 .. n : pending[i] # r
      <3> TAKE i \in 1 .. n
      <3>1. PICK at \in Nat, total \in Nat :
              at = pending[i].at /\ total = pending[i].total /\ total >= 2
        BY <2>3, Numbers
      <3>2. at + total <= commitPos /\ commitPos = resv.start
        BY <1>1, <1>2, <2>3, <3>1 DEF SpoolInv, PendingInv, CursorsInv, RecordEnd
      <3>3. at # resv.start
        <4>1. commitPos \in Nat BY Numbers
        <4> QED BY <3>1, <3>2, <4>1
      <3> QED BY <3>1, <3>3 DEF Record
    <2> DEFINE backlog == SubSeq(pending, out + 1, n)
    <2>5. /\ out <= n /\ backlog \in Seq(RecordSet) /\ Len(backlog) = n - out
          /\ \A i \in 1 .. n - out : backlog[i] = pending[out + i] /\ out + i \in 1 .. n
      BY <1>2, <2>3, BacklogFacts
    <2>6. /\ Len(pending') = n + 1 /\ pending'[n + 1] = r
          /\ \A i \in 1 .. n : pending'[i] = pending[i]
      BY <2>1, <2>2, <2>3, AppendProperties DEF SpoolInv
    <2>7. Running' BY <1>1, <1>2, <2>1 DEF Running, control
    <2> DEFINE after == SubSeq(pending', out + 1, n + 1)
    <2>8. /\ after \in Seq(RecordSet) /\ Len(after) = n + 1 - out
          /\ \A i \in 1 .. n + 1 - out : after[i] = pending'[out + i]
      <3>1. \A i \in out + 1 .. n + 1 : pending'[i] \in RecordSet
        <4>1. \A i \in out + 1 .. n + 1 : i \in 1 .. n \/ i = n + 1 BY <2>5
        <4> QED BY <2>2, <2>3, <2>6, <4>1, Numbers
      <3>2. out + 1 \in Int /\ n + 1 \in Int OBVIOUS
      <3>3. /\ after \in Seq(RecordSet)
            /\ Len(after) = IF out + 1 <= n + 1 THEN n + 1 - (out + 1) + 1 ELSE 0
            /\ \A i \in 1 .. n + 1 - (out + 1) + 1 : after[i] = pending'[out + 1 + i - 1]
        BY <3>1, <3>2, SubSeqProperties
      <3>4. /\ n + 1 - (out + 1) + 1 = n + 1 - out /\ out + 1 <= n + 1
            /\ \A i \in 1 .. n + 1 - out : out + 1 + i - 1 = out + i
        BY <2>5
      <3> QED BY <3>3, <3>4
    <2> HIDE DEF backlog, after, r
    <2>9. after = Append(backlog, r)
      <3>1. /\ Append(backlog, r) \in Seq(RecordSet)
            /\ Len(Append(backlog, r)) = n - out + 1
            /\ \A i \in 1 .. n - out : Append(backlog, r)[i] = backlog[i]
            /\ Append(backlog, r)[n - out + 1] = r
        BY <2>2, <2>5, AppendProperties
      <3>2. \A i \in 1 .. n + 1 - out : after[i] = Append(backlog, r)[i]
        <4> TAKE i \in 1 .. n + 1 - out
        <4>1. i \in 1 .. n - out \/ (i = n - out + 1 /\ out + i = n + 1) BY <2>5
        <4> QED BY <2>5, <2>6, <2>8, <3>1, <4>1
      <3>3. n - out + 1 = n + 1 - out OBVIOUS
      <3> QED BY <2>8, <3>1, <3>2, <3>3, SeqEqual
    <2>10. \A i \in DOMAIN backlog : backlog[i] # r
      <3>1. DOMAIN backlog = 1 .. n - out BY <2>5, LenProperties
      <3> QED BY <2>4, <2>5, <3>1
    <2>11. \A i \in DOMAIN sent : sent[i] # r
      <3>1. DOMAIN sent = 1 .. out BY <2>3, LenProperties DEF SpoolInv
      <3>2. \A i \in 1 .. out : sent[i] = pending[i] /\ i \in 1 .. n
        BY <1>2, <2>3, <2>5 DEF SpoolInv, SendInv
      <3> QED BY <2>4, <3>1, <3>2
    <2>12. /\ SubSeq(pending, Len(sent) + 1, Len(pending)) = backlog
           /\ SubSeq(pending, Len(sent) + 1, Len(pending))' = after
      BY <1>1, <2>3, <2>6 DEF backlog, after
    <2>13. Log!CommitRecord(r) BY <1>1, <2>9, <2>10, <2>11, <2>12 DEF Log!CommitRecord
    <2>14. Log!LogNext BY <2>2, <2>13 DEF Log!LogNext
    <2> QED BY <2>14
  <1> QED BY <1>3, <1>4

\* Marking a record as sent moves the oldest of the backlog into flight.
LEMMA MarkTxSentSends ==
  ASSUME SpoolInv, MarkTxSent
  PROVE  [Log!LogNext]_<< SubSeq(pending, Len(sent) + 1, Len(pending)), sent >>
  <1>1. session /\ failed = "none" /\ txRecord # NoRecord /\ Running /\ pending' = pending
    BY DEF MarkTxSent, Running
  <1>2. CASE sent' = sent BY <1>1, <1>2
  <1>3. CASE sent' # sent
    <2>1. ~WindowFull /\ sent' = Append(sent, txRecord) BY <1>3 DEF MarkTxSent
    <2>2. PICK n \in Nat, out \in Nat : n = Len(pending) /\ out = Len(sent) BY Numbers
    <2>3. out < InFlightMax BY <2>1, <2>2, Sizes DEF WindowFull
    <2>4. out < n /\ txRecord = pending[out + 1] BY <1>1, <2>2 DEF SpoolInv, SendInv
    <2>5. out + 1 \in 1 .. n /\ n \in out + 1 .. n BY <2>4
    <2>6. Head(SubSeq(pending, out + 1, n)) = pending[out + 1]
          /\ Tail(SubSeq(pending, out + 1, n)) = SubSeq(pending, out + 1 + 1, n)
      BY <2>2, <2>5, HeadTailOfSubSeq DEF SpoolInv
    <2>7. Len(SubSeq(pending, out + 1, n)) = n - out BY <1>1, <2>2, BacklogFacts
    <2>8. SubSeq(pending, out + 1, n) # << >>
      <3>1. n - out # 0 /\ Len(<< >>) = 0 BY <2>4
      <3> QED BY <2>7, <3>1
    <2>9. Len(sent') = out + 1
      <3>1. txRecord \in RecordSet BY <2>2, <2>4, <2>5, Numbers
      <3> QED BY <2>1, <2>2, <3>1, AppendProperties DEF SpoolInv
    <2>10. /\ SubSeq(pending, Len(sent) + 1, Len(pending)) = SubSeq(pending, out + 1, n)
           /\ SubSeq(pending, Len(sent) + 1, Len(pending))'
                = SubSeq(pending, out + 1 + 1, n)
      BY <1>1, <2>2, <2>9
    <2>11. Log!SendOldest BY <2>1, <2>2, <2>3, <2>4, <2>6, <2>8, <2>10 DEF Log!SendOldest
    <2> QED BY <2>11 DEF Log!LogNext
  <1> QED BY <1>2, <1>3

\* An ACK retires the oldest record in flight and leaves the backlog as it was.
LEMMA AckRetires ==
  ASSUME SpoolInv, Ack
  PROVE  [Log!LogNext]_<< SubSeq(pending, Len(sent) + 1, Len(pending)), sent >>
  <1>1. /\ Running /\ sent # << >> /\ 1 <= Len(sent) /\ Len(sent) <= Len(pending)
        /\ pending' = Tail(pending) /\ sent' = Tail(sent)
    BY AckEffect
  <1>2. PICK n \in Nat, out \in Nat :
          n = Len(pending) /\ out = Len(sent) /\ 1 <= out /\ out <= n
    BY <1>1, Numbers
  <1>3. pending \in Seq(RecordSet) /\ sent \in Seq(RecordSet) /\ pending # << >>
    <2>1. pending = << >> => Len(pending) = 0 OBVIOUS
    <2> QED BY <1>2, <2>1 DEF SpoolInv
  <1>4. /\ pending' \in Seq(RecordSet) /\ Len(pending') = n - 1
        /\ \A i \in 1 .. n - 1 : pending'[i] = pending[i + 1]
    BY <1>1, <1>2, <1>3, HeadTailProperties
  <1>5. Len(sent') = out - 1 BY <1>1, <1>2, <1>3, HeadTailProperties
  <1> DEFINE backlog == SubSeq(pending, out + 1, n)
             after == SubSeq(pending', out, n - 1)
  <1>6. /\ backlog \in Seq(RecordSet) /\ Len(backlog) = n - out
        /\ \A i \in 1 .. n - out : backlog[i] = pending[out + i]
    BY <1>1, <1>2, BacklogFacts
  <1>7. /\ after \in Seq(RecordSet) /\ Len(after) = n - out
        /\ \A i \in 1 .. n - out : after[i] = pending'[out + i - 1]
    <2>1. \A i \in out .. n - 1 : pending'[i] \in RecordSet
      <3>1. \A i \in out .. n - 1 : i \in 1 .. n - 1 BY <1>2
      <3> QED BY <1>4, <3>1, LenProperties
    <2>2. out \in Int /\ n - 1 \in Int OBVIOUS
    <2>3. /\ after \in Seq(RecordSet)
          /\ Len(after) = IF out <= n - 1 THEN n - 1 - out + 1 ELSE 0
          /\ \A i \in 1 .. n - 1 - out + 1 : after[i] = pending'[out + i - 1]
      BY <2>1, <2>2, SubSeqProperties
    <2>4. n - 1 - out + 1 = n - out /\ (IF out <= n - 1 THEN n - 1 - out + 1 ELSE 0) = n - out
      BY <1>2
    <2> QED BY <2>3, <2>4
  <1> HIDE DEF backlog, after
  <1>8. \A i \in 1 .. n - out : after[i] = backlog[i]
    <2> TAKE i \in 1 .. n - out
    <2>1. out + i - 1 \in 1 .. n - 1 /\ (out + i - 1) + 1 = out + i BY <1>2
    <2> QED BY <1>4, <1>6, <1>7, <2>1
  <1>9. after = backlog BY <1>6, <1>7, <1>8, SeqEqual
  <1>10. /\ SubSeq(pending, Len(sent) + 1, Len(pending)) = backlog
         /\ SubSeq(pending, Len(sent) + 1, Len(pending))' = after
    <2>1. (out - 1) + 1 = out OBVIOUS
    <2> QED BY <1>2, <1>4, <1>5, <2>1 DEF backlog, after
  <1>11. Log!AckOldest BY <1>1, <1>9, <1>10 DEF Log!AckOldest
  <1> QED BY <1>11 DEF Log!LogNext

\* A cleanup drops what is left.
LEMMA CleanupDrops ==
  ASSUME CleanupDone
  PROVE  [Log!LogNext]_<< SubSeq(pending, Len(sent) + 1, Len(pending)), sent >>
  <1>1. pending' = << >> /\ sent' = << >> BY DEF CleanupDone
  <1>2. SubSeq(pending', Len(sent') + 1, Len(pending')) = << >>
    <2>1. Len(pending') = 0 /\ Len(sent') = 0 /\ 0 \in Int /\ 0 + 1 \in Int /\ 0 < 0 + 1
      BY <1>1
    <2>2. SubSeq(pending', 0 + 1, 0) = << >> BY <2>1, SubSeqEmpty
    <2> QED BY <2>1, <2>2
  <1>3. Log!DropAll BY <1>1, <1>2 DEF Log!DropAll
  <1> QED BY <1>3 DEF Log!LogNext

\* Every other step leaves the log alone.
LEMMA StepMaps ==
  ASSUME SpoolInv, SpoolInv', [Next]_vars
  PROVE  [Log!LogNext]_<< SubSeq(pending, Len(sent) + 1, Len(pending)), sent >>
  <1> DEFINE same == pending' = pending /\ sent' = sent
  <1>1. same => [Log!LogNext]_<< SubSeq(pending, Len(sent) + 1, Len(pending)), sent >>
    OBVIOUS
  <1>2. CASE \E total \in RecordSizes : Reserve(total)
    BY <1>1, <1>2 DEF Reserve, records
  <1>3. CASE WritePage BY <1>1, <1>3 DEF WritePage, records
  <1>4. CASE ReadBack BY <1>1, <1>4 DEF ReadBack, records
  <1>5. CASE HeaderProgram BY <1>1, <1>5 DEF HeaderProgram, records
  <1>6. CASE HeaderVerify BY <1>6, HeaderVerifyCommits
  <1>7. CASE PeekTx BY <1>1, <1>7 DEF PeekTx
  <1>8. CASE MarkTxSent BY <1>8, MarkTxSentSends
  <1>9. CASE Ack BY <1>9, AckRetires
  <1>10. CASE \E target \in {PreeraseMin, EraseHigh} : EraseForward(target)
    BY <1>1, <1>10 DEF EraseForward, records
  <1>11. CASE PollErase BY <1>1, <1>11 DEF PollErase, records
  <1>12. CASE DeviceDone BY <1>1, <1>12 DEF DeviceDone, records
  <1>13. CASE EraseIdle BY <1>1, <1>13 DEF EraseIdle, records
  <1>14. CASE FlashError BY <1>1, <1>14 DEF FlashError, records
  <1>15. CASE Begin BY <1>1, <1>15 DEF Begin, records
  <1>16. CASE StopCapture BY <1>1, <1>16 DEF StopCapture, records
  <1>17. CASE DiscardTail BY <1>1, <1>17 DEF DiscardTail, records
  <1>18. CASE PostSessionCleanup BY <1>18, CleanupDrops DEF PostSessionCleanup
  <1>19. CASE AbortCleanup BY <1>19, CleanupDrops DEF AbortCleanup
  <1>20. CASE UNCHANGED vars BY <1>1, <1>20 DEF vars, records
  <1> QED BY <1>2, <1>3, <1>4, <1>5, <1>6, <1>7, <1>8, <1>9, <1>10, <1>11, <1>12,
             <1>13, <1>14, <1>15, <1>16, <1>17, <1>18, <1>19, <1>20 DEF Next

\* The spool is the log that RecordLog describes: each committed record is offered
\* once and in order, at most the window waits for ACKs, and these retire the oldest.
THEOREM SpoolImplementsRecordLog == SpoolSpec => ImplementsRecordLog
  <1>1. Init => Log!LogInit
    <2> SUFFICES ASSUME Init PROVE Log!LogInit OBVIOUS
    <2>1. pending = << >> /\ sent = << >> BY DEF Init
    <2>2. Len(pending) = 0 /\ Len(sent) = 0 /\ 0 \in Int /\ 0 + 1 \in Int /\ 0 < 0 + 1
      BY <2>1
    <2>3. SubSeq(pending, 0 + 1, 0) = << >> BY <2>2, SubSeqEmpty
    <2> QED BY <2>1, <2>2, <2>3 DEF Log!LogInit
  <1>2. SpoolInv /\ SpoolInv' /\ [Next]_vars
          => [Log!LogNext]_<< SubSeq(pending, Len(sent) + 1, Len(pending)), sent >>
    BY StepMaps
  <1> QED BY <1>1, <1>2, SpoolInvariant, PTL
          DEF SpoolSpec, SpoolSafety, ImplementsRecordLog, Log!LogSpec
=============================================================================
