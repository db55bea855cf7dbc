------------------------ MODULE StressSource_proofs ------------------------
(***************************************************************************)
(* The properties of the stress source for every rate table, ring size,    *)
(* delay table, period and range limit that SourceAssumption admits.        *)
(*                                                                         *)
(* The inductive invariant SourceInv adds to the properties that blocks are *)
(* produced whole, that the debt of the latest tick was paid, where each    *)
(* byte lies, and which delay slots are current.                            *)
(***************************************************************************)
EXTENDS StressSource, DivModLemmas

\* What the arithmetic below needs to know of a state.
LEMMA SourceNumbers ==
  ASSUME SourceAssumption, SourceInv
  PROVE  /\ blockBytes \in BlockSizes /\ blockBytes \in Nat
         /\ RingBytes \in Nat \ {0} /\ DelaySlots \in Nat \ {0} /\ Period \in Nat \ {0}
         /\ generated \in Nat /\ expected \in Nat /\ consumed \in Nat
         /\ elapsed \in Nat
         /\ used \in Nat /\ used <= RingBytes /\ used = generated - consumed
         /\ head \in 0 .. RingBytes - 1 /\ head = consumed % RingBytes
  <1>1. blockBytes \in BlockSizes /\ blockBytes \in Nat
    BY DEF SourceInv, SourceTypeOK, SourceAssumption
  <1>2. RingBytes \in Nat \ {0} /\ DelaySlots \in Nat \ {0} /\ Period \in Nat \ {0}
    BY DEF SourceAssumption
  <1>3. /\ generated \in Nat /\ expected \in Nat /\ consumed \in Nat /\ elapsed \in Nat
        /\ used \in 0 .. RingBytes /\ head \in 0 .. RingBytes - 1
    BY DEF SourceInv, SourceTypeOK
  <1>4. used = generated - consumed /\ head = consumed % RingBytes
    BY DEF SourceInv, CursorsAgree
  <1> QED BY <1>1, <1>2, <1>3, <1>4

-----------------------------------------------------------------------------
(* One call of tick() or freeze().                                           *)

\* A tick that is not refused: the cast drops nothing, and the clock has not
\* wrapped since begin().
LEMMA DueFits ==
  ASSUME SourceAssumption, NEW e, Due(e) \in Nat, ~OutOfRange(e)
  PROVE  Expected(e) = Due(e)
  <1>1. CountLimit \in Nat BY DEF SourceAssumption
  <1>2. CountLimit + 1 \in Nat \ {0} /\ Due(e) \in 0 .. (CountLimit + 1) - 1
    BY <1>1 DEF OutOfRange
  <1>3. Due(e) \in Int BY <1>2
  <1> HIDE DEF Due
  <1> QED BY <1>2, <1>3, ModSmall DEF Expected

LEMMA ClockHasNotWrapped ==
  ASSUME SourceAssumption, SourceInv, NEW t \in Nat, Later(t), sourceError = "none"
  PROVE  ElapsedMs(t) = t
  <1>1. elapsed \in Nat /\ elapsed < TimeLimit BY SourceNumbers DEF SourceInv, WholeBlocks
  <1>2. TimeLimit \in Nat \ {0} /\ TimeWord \in Nat /\ TimeLimit <= TimeWord
    BY DEF SourceAssumption
  <1>3. t \in Int /\ TimeWord \in Nat \ {0} /\ t \in 0 .. TimeWord - 1
    BY <1>1, <1>2 DEF Later
  <1> QED BY <1>3, ModSmall DEF ElapsedMs

\* A number of blocks that is owed and that fits: the two conditions of the
\* while loop, for a whole number of blocks already generated.
LEMMA BlocksThatFitBounds ==
  ASSUME SourceAssumption, SourceInv, NEW e \in Nat, Later(e), sourceError = "none",
         ~OutOfRange(e)
  PROVE  /\ Expected(e) = Due(e)
         /\ BlocksThatFit(e) \in Nat
         /\ BlocksThatFit(e) * blockBytes \in Nat
         /\ used + BlocksThatFit(e) * blockBytes <= RingBytes
         /\ Due(e) \in Nat
         /\ \E k \in Nat : Due(e) = k * blockBytes
         /\ generated + BlocksThatFit(e) * blockBytes <= Due(e)
         /\ blockBytes = 0 => Due(e) = 0 /\ generated = 0
  <1>1. /\ blockBytes \in Nat /\ elapsed \in Nat /\ generated \in Nat /\ used \in Nat
        /\ RingBytes \in Nat /\ used <= RingBytes /\ Period \in Nat \ {0}
    BY SourceNumbers
  <1>2. PICK p \in Nat : p = e \div Period BY <1>1, DivNat
  <1>3. PICK q \in Nat : q = elapsed \div Period BY <1>1, DivNat
  <1>4. q <= p
    <2>1. elapsed <= e /\ elapsed \in Int /\ e \in Int BY <1>1 DEF Later
    <2> QED BY <1>1, <1>2, <1>3, <2>1, DivMono
  <1>5. q * blockBytes <= p * blockBytes BY <1>1, <1>4, MulMono
  <1>6. Due(e) = p * blockBytes /\ Due(elapsed) = q * blockBytes BY <1>2, <1>3 DEF Due
  <1>7. Due(e) \in Nat BY <1>1, <1>6
  <1>8. generated <= expected /\ expected = Due(elapsed) BY DEF SourceInv, WholeBlocks
  <1>9. generated <= Due(e) BY <1>1, <1>5, <1>6, <1>7, <1>8
  <1>12. Expected(e) = Due(e) BY <1>7, DueFits
  <1>13. CASE Due(e) = generated
    <2>1. BlocksThatFit(e) = 0 BY <1>1, <1>12, <1>13 DEF BlocksThatFit
    <2>2. blockBytes = 0 => Due(e) = 0 BY <1>6
    <2> QED BY <1>1, <1>6, <1>7, <1>12, <1>13, <2>1, <2>2
  <1>10. CASE blockBytes = 0
    <2>1. BlocksThatFit(e) = 0 /\ Due(e) = 0 BY <1>6, <1>10 DEF BlocksThatFit
    <2> QED BY <1>1, <1>6, <1>9, <1>10, <1>12, <2>1
  <1>11. CASE blockBytes # 0 /\ Due(e) # generated
    <2>1. blockBytes \in Nat \ {0} /\ Room \in Nat /\ Due(e) - generated \in Nat
      BY <1>1, <1>7, <1>9, <1>11 DEF Room
    <2>2. PICK owed \in Nat : /\ owed = (Due(e) - generated) \div blockBytes
                              /\ owed * blockBytes <= Due(e) - generated
      BY <2>1, DivNat
    <2>3. PICK fit \in Nat : fit = Room \div blockBytes /\ fit * blockBytes <= Room
      BY <2>1, DivNat
    <2>4. PICK n \in Nat : n = BlocksThatFit(e) /\ n <= owed /\ n <= fit
      <3>1. BlocksThatFit(e) = IF owed <= fit THEN owed ELSE fit
        BY <1>1, <1>7, <1>9, <1>11, <1>12, <2>2, <2>3 DEF BlocksThatFit
      <3> QED BY <3>1
    <2>5. n * blockBytes <= owed * blockBytes /\ n * blockBytes <= fit * blockBytes
      BY <1>1, <2>4, MulMono
    <2>6. n * blockBytes \in Nat /\ owed * blockBytes \in Nat /\ fit * blockBytes \in Nat
      BY <1>1
    <2>7. n * blockBytes <= Due(e) - generated /\ n * blockBytes <= RingBytes - used
      BY <1>1, <1>7, <2>2, <2>3, <2>5, <2>6 DEF Room
    <2> HIDE DEF Room, Due
    <2> DEFINE bytes == n * blockBytes
    <2>8. bytes \in Nat /\ used + bytes <= RingBytes /\ generated + bytes <= Due(e)
      <3> HIDE DEF bytes
      <3> QED BY <1>1, <1>7, <2>6, <2>7 DEF bytes
    <2> QED BY <1>6, <1>7, <1>11, <1>12, <2>4, <2>8
  <1> QED BY <1>10, <1>11, <1>13

\* Storing n bytes behind the used ones keeps every unconsumed byte and adds
\* the next n of the stream.
LEMMA RingAfterKeeps ==
  ASSUME SourceAssumption, SourceInv, NEW n \in Nat, used + n <= RingBytes
  PROVE  /\ RingAfter(n) \in [0 .. RingBytes - 1 -> Nat \cup {NoByte}]
         /\ \A x \in consumed .. generated + n - 1 : RingAfter(n)[x % RingBytes] = x
  <1>1. /\ RingBytes \in Nat \ {0} /\ generated \in Nat /\ consumed \in Nat
        /\ used = generated - consumed /\ used \in Nat
        /\ head = consumed % RingBytes /\ head \in 0 .. RingBytes - 1
    BY SourceNumbers
  <1> DEFINE Ahead(i) == (i - head - used) % RingBytes
             Cell(i) == IF Ahead(i) < n THEN generated + Ahead(i) ELSE ring[i]
  <1>2. \A i \in 0 .. RingBytes - 1 : Ahead(i) \in 0 .. RingBytes - 1
    <2>1. TAKE i \in 0 .. RingBytes - 1
    <2>2. i - head - used \in Int BY <1>1
    <2> QED BY <1>1, <2>2, DivModDef
  <1>3. RingAfter(n) = [i \in 0 .. RingBytes - 1 |-> Cell(i)] BY DEF RingAfter
  <1>4. ring \in [0 .. RingBytes - 1 -> Nat \cup {NoByte}]
    BY DEF SourceInv, SourceTypeOK
  <1>5. RingAfter(n) \in [0 .. RingBytes - 1 -> Nat \cup {NoByte}]
    <2> HIDE DEF Ahead
    <2>1. ASSUME NEW i \in 0 .. RingBytes - 1 PROVE Cell(i) \in Nat \cup {NoByte}
      <3>1. Ahead(i) \in Nat /\ generated + Ahead(i) \in Nat BY <1>1, <1>2
      <3>2. ring[i] \in Nat \cup {NoByte} BY <1>4
      <3> QED BY <3>1, <3>2
    <2> QED BY <1>3, <2>1
  <1>6. ASSUME NEW x \in consumed .. generated + n - 1
        PROVE RingAfter(n)[x % RingBytes] = x
    <2>1. x \in Int /\ x >= consumed /\ x < generated + n BY <1>1
    <2>2. PICK r \in 0 .. RingBytes - 1 : r = x % RingBytes BY <1>1, <2>1, DivModDef
    <2>3. Ahead(r) = (x - generated) % RingBytes
      <3>1. r - head - used = (r - used) - (consumed % RingBytes) /\ r - used \in Int
        BY <1>1
      <3>2. ((r - used) - (consumed % RingBytes)) % RingBytes
              = ((r - used) - consumed) % RingBytes
        <4>1. r - used \in Int /\ consumed \in Int /\ RingBytes \in Nat \ {0} BY <1>1
        <4> HIDE DEF Ahead
        <4> DEFINE a == r - used
        <4>2. a \in Int BY <4>1
        <4> HIDE DEF a
        <4>3. (a - (consumed % RingBytes)) % RingBytes = (a - consumed) % RingBytes
          BY <4>1, <4>2, ModSub
        <4> QED BY <4>3 DEF a
      <3>3. (r - used) - consumed = (x % RingBytes) + (-generated) /\ -generated \in Int
        BY <1>1, <2>2
      <3>4. ((x % RingBytes) + (-generated)) % RingBytes = (x + (-generated)) % RingBytes
        BY <1>1, <2>1, <3>3, ModAdd
      <3>5. x + (-generated) = x - generated BY <1>1, <2>1
      <3> QED BY <3>1, <3>2, <3>3, <3>4, <3>5
    <2>4. RingAfter(n)[r] = IF Ahead(r) < n THEN generated + Ahead(r) ELSE ring[r]
      BY <1>3
    <2> HIDE DEF Ahead
    <2>5. CASE x >= generated
      <3>1. x - generated \in 0 .. RingBytes - 1 /\ x - generated \in Int
        BY <1>1, <2>1, <2>5
      <3>2. Ahead(r) = x - generated BY <1>1, <2>3, <3>1, ModSmall
      <3> QED BY <1>1, <2>1, <2>2, <2>4, <3>2
    <2>6. CASE x < generated
      <3>1. x - generated \in -RingBytes .. -1 /\ x - generated \in Int
        BY <1>1, <2>1, <2>6
      <3>2. Ahead(r) = x - generated + RingBytes BY <1>1, <2>3, <3>1, ModSmall
      <3>3. ~(Ahead(r) < n) BY <1>1, <2>1, <3>2
      <3>4. x \in consumed .. generated - 1 BY <1>1, <2>1, <2>6
      <3>5. ring[r] = x BY <2>2, <3>4 DEF SourceInv, RingCells
      <3> QED BY <2>2, <2>4, <3>3, <3>5
    <2> QED BY <1>1, <2>1, <2>5, <2>6
  <1> QED BY <1>5, <1>6

\* Entering n blocks keeps the table typed and makes their slots current, and
\* leaves the slots of the DelaySlots - n blocks before them alone.
LEMMA DelaysAfterKeeps ==
  ASSUME SourceAssumption, SourceInv, NEW n \in Nat, NEW e \in Nat, NEW g \in Nat,
         g = generated + n * blockBytes, blockBytes = 0 => n = 0
  PROVE  /\ DelaysAfter(n, e) \in [0 .. DelaySlots - 1 -> [seq : Nat \cup {-1}, late : Int]]
         /\ \A seq \in Nat :
              seq * blockBytes < g /\ g <= (seq + DelaySlots) * blockBytes
                => DelaysAfter(n, e)[seq % DelaySlots].seq = seq
  <1>1. /\ blockBytes \in Nat /\ generated \in Nat
        /\ DelaySlots \in Nat \ {0} /\ Period \in Nat \ {0}
    BY SourceNumbers
  <1>2. PICK k \in Nat : generated = k * blockBytes BY DEF SourceInv, WholeBlocks
  <1> DEFINE first == IF blockBytes = 0 THEN 0 ELSE generated \div blockBytes
             last  == first + n - 1
             Owner(i) == last - SlotOf(last - i)
  <1>3. first \in Nat /\ generated = first * blockBytes
    <2>1. CASE blockBytes = 0 BY <1>1, <1>2, <2>1
    <2>2. CASE blockBytes # 0
      <3>1. generated \div blockBytes = k BY <1>1, <1>2, <2>2, DivOfMultiple
      <3> QED BY <1>2, <2>2, <3>1
    <2> QED BY <2>1, <2>2
  <1>4. DelaysAfter(n, e) =
          [i \in 0 .. DelaySlots - 1 |->
             IF Owner(i) < first THEN delays[i]
             ELSE [seq |-> Owner(i), late |-> e - (Owner(i) + 1) * Period]]
    BY DEF DelaysAfter
  <1> HIDE DEF first
  <1>5. last \in Int BY <1>1, <1>3
  <1>6. \A i \in 0 .. DelaySlots - 1 : Owner(i) \in Int
    <2>1. TAKE i \in 0 .. DelaySlots - 1
    <2>2. last - i \in Int BY <1>1, <1>5
    <2>3. SlotOf(last - i) \in 0 .. DelaySlots - 1 BY <1>1, <2>2, DivModDef DEF SlotOf
    <2> HIDE DEF last
    <2> QED BY <1>1, <1>5, <2>3
  <1>7. delays \in [0 .. DelaySlots - 1 -> [seq : Nat \cup {-1}, late : Int]]
    BY DEF SourceInv, SourceTypeOK
  <1>8. DelaysAfter(n, e) \in [0 .. DelaySlots - 1 -> [seq : Nat \cup {-1}, late : Int]]
    <2> HIDE DEF Owner
    <2>1. ASSUME NEW i \in 0 .. DelaySlots - 1
          PROVE (IF Owner(i) < first THEN delays[i]
                 ELSE [seq |-> Owner(i), late |-> e - (Owner(i) + 1) * Period])
                  \in [seq : Nat \cup {-1}, late : Int]
      <3>1. CASE Owner(i) < first BY <1>7, <3>1
      <3>2. CASE ~(Owner(i) < first)
        <4>1. Owner(i) \in Nat BY <1>3, <1>6, <3>2
        <4>2. e - (Owner(i) + 1) * Period \in Int BY <1>1, <4>1
        <4> QED BY <3>2, <4>1, <4>2
      <3> QED BY <3>1, <3>2
    <2> QED BY <1>4, <2>1
  <1>9. ASSUME NEW seq \in Nat, seq * blockBytes < g, g <= (seq + DelaySlots) * blockBytes
        PROVE DelaysAfter(n, e)[seq % DelaySlots].seq = seq
    <2>1. blockBytes # 0
      <3> SUFFICES ASSUME blockBytes = 0 PROVE FALSE OBVIOUS
      <3>1. seq * blockBytes = 0 /\ (seq + DelaySlots) * blockBytes = 0 BY <1>1
      <3> QED BY <1>9, <3>1
    <2>2. g = (first + n) * blockBytes BY <1>1, <1>3
    <2>3. ~(first + n <= seq)
      <3> SUFFICES ASSUME first + n <= seq PROVE FALSE OBVIOUS
      <3>1. (first + n) * blockBytes <= seq * blockBytes BY <1>1, <1>3, MulMono
      <3>2. seq * blockBytes \in Nat BY <1>1
      <3> QED BY <1>9, <2>2, <3>1, <3>2
    <2>4. ~(seq + DelaySlots + 1 <= first + n)
      <3> SUFFICES ASSUME seq + DelaySlots + 1 <= first + n PROVE FALSE OBVIOUS
      <3>1. seq + DelaySlots + 1 \in Int /\ first + n \in Int BY <1>1, <1>3
      <3>2. (seq + DelaySlots + 1) * blockBytes <= (first + n) * blockBytes
        BY <1>1, <3>1, MulMono
      <3>3. (seq + DelaySlots + 1) * blockBytes = (seq + DelaySlots) * blockBytes + blockBytes
        BY <1>1
      <3>4. (seq + DelaySlots) * blockBytes \in Nat BY <1>1
      <3> QED BY <1>1, <1>9, <2>1, <2>2, <3>2, <3>3, <3>4
    <2>5. last - seq \in 0 .. DelaySlots - 1 /\ last - seq \in Int
      BY <1>1, <1>3, <2>3, <2>4
    <2>6. PICK i \in 0 .. DelaySlots - 1 : i = seq % DelaySlots BY <1>1, DivModDef
    <2>7. SlotOf(last - i) = last - seq
      <3> HIDE DEF last
      <3>0. last \in Int /\ seq \in Int /\ DelaySlots \in Nat \ {0} BY <1>1, <1>5
      <3>1. (last - (seq % DelaySlots)) % DelaySlots = (last - seq) % DelaySlots
        BY <3>0, ModSub
      <3>2. (last - seq) % DelaySlots = last - seq BY <1>1, <2>5, ModSmall
      <3> QED BY <2>6, <3>1, <3>2 DEF SlotOf
    <2>8. Owner(i) = seq
      <3> HIDE DEF last
      <3> QED BY <1>5, <2>7
    <2>9. DelaysAfter(n, e)[i] =
             IF seq < first THEN delays[i]
             ELSE [seq |-> seq, late |-> e - (seq + 1) * Period]
      <3> HIDE DEF Owner
      <3> QED BY <1>4, <2>8
    <2>10. CASE seq < first
      <3>1. seq * blockBytes < generated
        <4>1. (seq + 1) * blockBytes <= first * blockBytes BY <1>1, <1>3, <2>10, MulMono
        <4>2. (seq + 1) * blockBytes = seq * blockBytes + blockBytes
              /\ seq * blockBytes \in Nat
          BY <1>1
        <4> QED BY <1>1, <1>3, <2>1, <4>1, <4>2
      <3>2. generated <= (seq + DelaySlots) * blockBytes
        <4>1. n * blockBytes \in Nat /\ (seq + DelaySlots) * blockBytes \in Nat BY <1>1
        <4> QED BY <1>1, <1>9, <4>1
      <3>3. delays[i].seq = seq BY <2>6, <3>1, <3>2 DEF SourceInv, DelaysKept
      <3> QED BY <2>6, <2>9, <2>10, <3>3
    <2>11. CASE ~(seq < first) BY <2>6, <2>9, <2>11
    <2> QED BY <2>10, <2>11
  <1> QED BY <1>8, <1>9

\* tick() and freeze() preserve the invariant; the three outcomes are those of
\* the code: stopped, out of range, and production with or without a shortfall.
LEMMA TickBodyInv ==
  ASSUME SourceAssumption, SourceInv, NEW e \in Nat, NEW freezing \in BOOLEAN,
         Later(e), TickBody(e, freezing), UNCHANGED << blockBytes, head, consumed >>
  PROVE  SourceInv'
  <1>0. ~Stopped => ElapsedMs(e) = e BY ClockHasNotWrapped DEF Stopped
  <1>1. CASE Stopped
    <2>1. UNCHANGED << blockBytes, head, consumed, ring, used, generated, expected,
                       rejected, delays, elapsed, sourceError >>
          /\ frozen' = (frozen \/ freezing)
      BY <1>1 DEF TickBody
    <2>2. frozen' \in BOOLEAN BY <2>1
    <2>3. SourceTypeOK' BY <2>1, <2>2 DEF SourceInv, SourceTypeOK
    <2> QED BY <2>1, <2>3 DEF SourceInv, CursorsAgree, WholeBlocks, Due, RingCells,
                              DelaysKept, NoSilentReduction
  <1>2. CASE ~Stopped /\ OutOfRange(ElapsedMs(e))
    <2>1. /\ elapsed' = e /\ sourceError' = "range" /\ frozen' = TRUE
          /\ UNCHANGED << blockBytes, head, consumed, ring, used, generated, expected,
                          rejected, delays >>
      BY <1>0, <1>2 DEF TickBody
    <2>2. SourceTypeOK' BY <2>1 DEF SourceInv, SourceTypeOK, Errors
    <2> QED BY <2>1, <2>2 DEF SourceInv, CursorsAgree, WholeBlocks, RingCells,
                              DelaysKept, NoSilentReduction
  <1>3. CASE ~Stopped /\ ~OutOfRange(ElapsedMs(e))
    <2> DEFINE n == BlocksThatFit(e)
               bytes == n * blockBytes
               short == Due(e) - generated - bytes
    <2>1. sourceError = "none" BY <1>3 DEF Stopped
    <2>2. /\ n \in Nat /\ bytes \in Nat /\ used + bytes <= RingBytes /\ Due(e) \in Nat
          /\ \E k \in Nat : Due(e) = k * blockBytes
          /\ generated + bytes <= Due(e)
          /\ blockBytes = 0 => Due(e) = 0 /\ generated = 0
          /\ Expected(e) = Due(e)
      BY <1>0, <1>3, <2>1, BlocksThatFitBounds
    <2>3. /\ elapsed' = e /\ expected' = Due(e) /\ ring' = RingAfter(bytes)
          /\ delays' = DelaysAfter(n, e) /\ generated' = generated + bytes
          /\ used' = used + bytes
          /\ rejected' = (IF short > 0 THEN short ELSE rejected)
          /\ sourceError' = ErrorAfter(short)
          /\ frozen' = (freezing \/ sourceError' # "none")
          /\ UNCHANGED << blockBytes, head, consumed >>
      BY <1>0, <1>3, <2>2 DEF TickBody, Produce
    <2>4. bytes = (IF blockBytes = 0 THEN 0 ELSE n) * blockBytes
      BY <2>2, SourceNumbers
    <2>5. short \in Nat /\ short = Due(e) - generated - bytes
      <3>1. generated \in Nat BY SourceNumbers
      <3> HIDE DEF bytes
      <3> QED BY <2>2, <3>1
    <2>6. blockBytes = 0 => n = 0 BY DEF BlocksThatFit
    <2> HIDE DEF n, short
    <2>7. RingAfter(bytes) \in [0 .. RingBytes - 1 -> Nat \cup {NoByte}]
          /\ \A x \in consumed .. generated + bytes - 1 : RingAfter(bytes)[x % RingBytes] = x
      <3> HIDE DEF bytes
      <3> QED BY <2>2, RingAfterKeeps
    <2>8. PICK g \in Nat : g = generated + bytes BY <2>2, SourceNumbers
    <2>9. /\ DelaysAfter(n, e) \in [0 .. DelaySlots - 1 -> [seq : Nat \cup {-1}, late : Int]]
          /\ \A seq \in Nat :
               seq * blockBytes < g /\ g <= (seq + DelaySlots) * blockBytes
                 => DelaysAfter(n, e)[seq % DelaySlots].seq = seq
      BY <2>2, <2>6, <2>8, DelaysAfterKeeps
    <2>10. SourceTypeOK'
      <3>1. used + bytes \in 0 .. RingBytes /\ generated + bytes \in Nat
        <4> HIDE DEF bytes
        <4> QED BY <2>2, SourceNumbers
      <3>2. sourceError' \in Errors
        BY <2>1, <2>3 DEF ErrorAfter, Errors
      <3>3. rejected' \in Nat BY <2>3, <2>5 DEF SourceInv, SourceTypeOK
      <3>4. frozen' \in BOOLEAN BY <2>3
      <3> HIDE DEF bytes
      <3> QED BY <2>2, <2>3, <2>7, <2>9, <3>1, <3>2, <3>3, <3>4
          DEF SourceInv, SourceTypeOK
    <2>11. CursorsAgree'
      <3> HIDE DEF bytes
      <3> QED BY <2>2, <2>3, SourceNumbers DEF CursorsAgree
    <2>12. WholeBlocks'
      <3>1. PICK k \in Nat : generated = k * blockBytes BY DEF SourceInv, WholeBlocks
      <3>2. k + n \in Nat /\ generated + bytes = (k + n) * blockBytes
        BY <2>2, <3>1, SourceNumbers
      <3>3. Due(elapsed)' = Due(e) BY <2>3 DEF Due
      <3>4. e < TimeLimit BY <1>0, <1>3 DEF OutOfRange, SourceAssumption
      <3> HIDE DEF bytes
      <3> QED BY <2>2, <2>3, <3>2, <3>3, <3>4 DEF WholeBlocks
    <2>13. RingCells'
      <3> HIDE DEF bytes
      <3>1. ring' = RingAfter(bytes) /\ generated' = generated + bytes /\ consumed' = consumed
        BY <2>3
      <3>2. \A x \in consumed' .. generated' - 1 : ring'[x % RingBytes] = x
        <4> SUFFICES ASSUME NEW x \in consumed' .. generated' - 1
                     PROVE ring'[x % RingBytes] = x
          OBVIOUS
        <4>1. x \in consumed .. generated + bytes - 1 BY <2>2, <3>1, SourceNumbers
        <4>2. RingAfter(bytes)[x % RingBytes] = x BY ONLY <2>7, <4>1
        <4> QED BY ONLY <3>1, <4>2
      <3> QED BY <3>2 DEF RingCells
    <2>14. DelaysKept' BY <2>3, <2>8, <2>9 DEF DelaysKept
    <2>15. NoSilentReduction'
      <3> HIDE DEF bytes
      <3> QED BY <2>1, <2>2, <2>3, <2>5, SourceNumbers DEF NoSilentReduction, ErrorAfter
    <2> QED BY <2>10, <2>11, <2>12, <2>13, <2>14, <2>15 DEF SourceInv
  <1> QED BY <1>1, <1>2, <1>3

-----------------------------------------------------------------------------
(* The consumer and the initial state.                                       *)

\* The writer's consume() preserves the invariant.
LEMMA ConsumeInv ==
  ASSUME SourceAssumption, SourceInv, NEW n \in Nat, Consume(n)
  PROVE  SourceInv'
  <1>1. /\ n <= used /\ head' = (head + n) % RingBytes /\ used' = used - n
        /\ consumed' = consumed + n
        /\ UNCHANGED << blockBytes, ring, generated, expected, rejected, delays,
                        elapsed, sourceError, frozen >>
    BY DEF Consume, HeadAfter
  <1>2. /\ RingBytes \in Nat \ {0} /\ consumed \in Nat /\ generated \in Nat
        /\ used \in Nat /\ used <= RingBytes /\ used = generated - consumed
        /\ head \in 0 .. RingBytes - 1 /\ head = consumed % RingBytes
    BY SourceNumbers
  <1>3. used' \in 0 .. RingBytes /\ consumed' \in Nat BY <1>1, <1>2
  <1>4. head + n \in Int /\ head' \in 0 .. RingBytes - 1 BY <1>1, <1>2, DivModDef
  <1>5. SourceTypeOK' BY <1>1, <1>3, <1>4 DEF SourceInv, SourceTypeOK
  <1>6. CursorsAgree'
    <2>1. used' = generated' - consumed' BY <1>1, <1>2
    <2>2. consumed \in Int /\ n \in Int /\ RingBytes \in Nat \ {0} BY <1>2
    <2>3. ((consumed % RingBytes) + n) % RingBytes = (consumed + n) % RingBytes
      BY <2>2, ModAdd
    <2> QED BY <1>1, <1>2, <2>1, <2>3 DEF CursorsAgree
  <1>7. RingCells'
    <2>1. \A x \in consumed' .. generated - 1 : x \in consumed .. generated - 1
      BY <1>1, <1>2
    <2> QED BY <1>1, <2>1 DEF SourceInv, RingCells
  <1> QED BY <1>1, <1>5, <1>6, <1>7
      DEF SourceInv, WholeBlocks, Due, DelaysKept, NoSilentReduction

\* begin() establishes it.
LEMMA SourceInitInv ==
  ASSUME SourceAssumption, SourceInit
  PROVE  SourceInv
  <1>1. RingBytes \in Nat \ {0} /\ Period \in Nat \ {0} /\ blockBytes \in Nat
    BY DEF SourceAssumption, SourceInit
  <1>2. 0 \div Period = 0 /\ 0 % RingBytes = 0
    <2>1. 0 \in Int /\ 0 = Period * 0 + 0 /\ 0 \in 0 .. Period - 1
          /\ 0 = RingBytes * 0 + 0 /\ 0 \in 0 .. RingBytes - 1
      BY <1>1
    <2> QED BY <1>1, <2>1, DivModUnique
  <1>3. SourceTypeOK
    <2>1. NoByte \in Nat \cup {NoByte} /\ NoDelay \in [seq : Nat \cup {-1}, late : Int]
      BY DEF NoDelay
    <2>2. 0 \in 0 .. RingBytes - 1 /\ 0 \in 0 .. RingBytes BY <1>1
    <2> QED BY <2>1, <2>2 DEF SourceInit, SourceTypeOK, Errors
  <1>4. CursorsAgree BY <1>2 DEF SourceInit, CursorsAgree
  <1>5. WholeBlocks
    <2>1. 0 = 0 * blockBytes BY <1>1
    <2>2. 0 < TimeLimit BY DEF SourceAssumption
    <2> QED BY <1>1, <1>2, <2>1, <2>2 DEF SourceInit, WholeBlocks, Due
  <1>6. RingCells BY DEF SourceInit, RingCells
  <1>7. DelaysKept
    <2>1. ASSUME NEW seq \in Nat PROVE ~(seq * blockBytes < generated)
      BY <1>1 DEF SourceInit
    <2> QED BY <2>1 DEF DelaysKept
  <1>8. NoSilentReduction BY DEF SourceInit, NoSilentReduction
  <1> QED BY <1>3, <1>4, <1>5, <1>6, <1>7, <1>8 DEF SourceInv

-----------------------------------------------------------------------------
(* What the consumer is given.                                               *)

\* The oldest n bytes, as copy() returns them, are the stream from consumed on.
LEMMA CopyIsStream ==
  ASSUME SourceAssumption, SourceInv, NEW n \in Nat, n <= used
  PROVE  \A i \in 1 .. n : CopyOf(n)[i] = consumed + i - 1
  <1> SUFFICES ASSUME NEW i \in 1 .. n PROVE CopyOf(n)[i] = consumed + i - 1
    OBVIOUS
  <1>1. /\ RingBytes \in Nat \ {0} /\ consumed \in Nat /\ generated \in Nat
        /\ used \in Nat /\ used = generated - consumed /\ head = consumed % RingBytes
    BY SourceAssumption, SourceNumbers
  <1>2. CopyOf(n)[i] = ring[(head + i - 1) % RingBytes] BY DEF CopyOf
  <1>3. consumed \in Int /\ i - 1 \in Int /\ RingBytes \in Nat \ {0} BY <1>1
  <1>4. ((consumed % RingBytes) + (i - 1)) % RingBytes = (consumed + (i - 1)) % RingBytes
    BY <1>3, ModAdd
  <1>5. consumed + (i - 1) \in consumed .. generated - 1 BY <1>1
  <1>6. ring[(consumed + (i - 1)) % RingBytes] = consumed + (i - 1)
    BY <1>5 DEF SourceInv, RingCells
  <1>7. head + i - 1 = (consumed % RingBytes) + (i - 1) /\ consumed + (i - 1) = consumed + i - 1
    <2>1. consumed % RingBytes \in Int BY <1>1, DivModDef
    <2> QED BY <1>1, <2>1
  <1> QED BY <1>2, <1>4, <1>6, <1>7

\* A header that is accepted reads the slots of the blocks it describes.
LEMMA HeaderIsTrue ==
  ASSUME SourceAssumption, SourceInv
  PROVE  HeaderDescribesItsBlocks
  <1> SUFFICES ASSUME NEW n \in 1 .. 2, HeaderOk(n), NEW j \in 0 .. n - 1
               PROVE HeaderDelay(j).seq = HeaderSeq + j
    BY DEF HeaderDescribesItsBlocks
  <1>1. /\ blockBytes \in BlockSizes /\ blockBytes \in Nat \ {0}
        /\ RingBytes \in Nat /\ DelaySlots \in Nat \ {0}
        /\ generated \in Nat /\ consumed \in Nat /\ used \in Nat
        /\ used <= RingBytes /\ used = generated - consumed
        /\ consumed % blockBytes = 0 /\ n * blockBytes <= used
    BY SourceAssumption, SourceNumbers DEF HeaderOk
  <1>2. PICK c \in Nat : c = consumed \div blockBytes BY <1>1, DivNat
  <1>3. consumed = c * blockBytes
    <2>1. consumed = blockBytes * (consumed \div blockBytes) + (consumed % blockBytes)
      <3>1. consumed \in Int /\ blockBytes \in Nat \ {0} BY <1>1
      <3> QED BY ONLY <3>1, DivModDef
    <2> QED BY <1>1, <1>2, <2>1
  <1>4. PICK k \in Nat : generated = k * blockBytes BY DEF SourceInv, WholeBlocks
  <1>5. RingBytes < blockBytes * (DelaySlots + 1)
    BY <1>1, SourceAssumption DEF SourceAssumption
  <1>6. c + j \in Nat /\ HeaderSeq + j = c + j BY <1>2 DEF HeaderSeq
  <1>7. (c + j) * blockBytes < generated
    <2>1. (c + j + 1) * blockBytes <= (c + n) * blockBytes BY <1>1, MulMono
    <2>2. (c + n) * blockBytes = c * blockBytes + n * blockBytes
          /\ (c + j + 1) * blockBytes = (c + j) * blockBytes + blockBytes
          /\ c * blockBytes \in Nat /\ n * blockBytes \in Nat
          /\ (c + j) * blockBytes \in Nat
      BY <1>1
    <2> QED BY <1>1, <1>3, <2>1, <2>2
  <1>8. generated <= (c + j + DelaySlots) * blockBytes
    <2>1. ~(c + DelaySlots + 1 <= k)
      <3> SUFFICES ASSUME c + DelaySlots + 1 <= k PROVE FALSE OBVIOUS
      <3>1. (c + DelaySlots + 1) * blockBytes <= k * blockBytes BY <1>1, MulMono
      <3>2. (c + DelaySlots + 1) * blockBytes
              = c * blockBytes + blockBytes * (DelaySlots + 1)
            /\ blockBytes * (DelaySlots + 1) \in Nat
        BY <1>1
      <3> QED BY <1>1, <1>3, <1>4, <1>5, <3>1, <3>2
    <2>2. k <= c + j + DelaySlots BY <1>1, <2>1
    <2>3. k * blockBytes <= (c + j + DelaySlots) * blockBytes BY <1>1, <2>2, MulMono
    <2> QED BY <1>4, <2>3
  <1>9. delays[(c + j) % DelaySlots].seq = c + j
    BY <1>6, <1>7, <1>8 DEF SourceInv, DelaysKept
  <1> QED BY <1>6, <1>9 DEF HeaderDelay, SlotOf

-----------------------------------------------------------------------------
(* The theorems.                                                             *)

\* A step of the source, or a stutter, preserves the invariant.
LEMMA SourceNextInv ==
  ASSUME SourceAssumption, SourceInv, [Next]_sourceVars
  PROVE  SourceInv'
  <1>1. ASSUME NEW e \in Clock, Tick(e) PROVE SourceInv'
    <2>1. e \in Nat BY DEF SourceAssumption
    <2> QED BY <1>1, <2>1, TickBodyInv DEF Tick
  <1>2. ASSUME NEW e \in Clock, Freeze(e) PROVE SourceInv'
    <2>1. e \in Nat BY DEF SourceAssumption
    <2> QED BY <1>2, <2>1, TickBodyInv DEF Freeze
  <1>3. ASSUME NEW n \in 1 .. RingBytes, Consume(n) PROVE SourceInv'
    <2>1. n \in Nat BY DEF SourceAssumption
    <2> QED BY <1>3, <2>1, ConsumeInv
  <1>4. CASE UNCHANGED sourceVars
    <2>1. UNCHANGED << blockBytes, ring, head, used, generated, expected, consumed,
                       rejected, delays, elapsed, sourceError, frozen >>
      BY <1>4 DEF sourceVars
    <2> QED BY <2>1 DEF SourceInv, SourceTypeOK, CursorsAgree, WholeBlocks, Due,
                        RingCells, DelaysKept, NoSilentReduction
  <1> QED BY <1>1, <1>2, <1>3, <1>4 DEF Next

\* The inductive invariant, from begin() on.
THEOREM SourceInvariant == Spec => []SourceInv
  <1>1. SourceInit => SourceInv BY SourceAssumption, SourceInitInv
  <1>2. SourceInv /\ [Next]_sourceVars => SourceInv' BY SourceAssumption, SourceNextInv
  <1> QED BY <1>1, <1>2, PTL DEF Spec

\* The counters stay in their ranges and the bytes in the ring never exceed it.
THEOREM SourceTypeCorrect == Spec => []SourceTypeOK
  <1>1. SourceInv => SourceTypeOK BY DEF SourceInv
  <1> QED BY <1>1, SourceInvariant, PTL

\* No load is dropped without the ring-full error that accounts for it.
THEOREM LoadIsNeverReducedSilently == Spec => []NoSilentReduction
  <1>1. SourceInv => NoSilentReduction BY DEF SourceInv
  <1> QED BY <1>1, SourceInvariant, PTL

\* copy() returns the stream in order whatever ticks came in between.
THEOREM RingIsFaithful == Spec => []RingHoldsStream
  <1>1. SourceInv => RingHoldsStream
    <2>1. SourceInv => used \in Nat BY SourceAssumption, SourceNumbers
    <2>2. SourceInv => \A i \in 1 .. used : CopyOf(used)[i] = consumed + i - 1
      BY <2>1, SourceAssumption, CopyIsStream
    <2> QED BY <2>2 DEF RingHoldsStream
  <1> QED BY <1>1, SourceInvariant, PTL

\* A record header reports the lateness of the very blocks it carries.
THEOREM HeadersDescribeTheirBlocks == Spec => []HeaderDescribesItsBlocks
  <1>1. SourceInv => HeaderDescribesItsBlocks BY SourceAssumption, HeaderIsTrue
  <1> QED BY <1>1, SourceInvariant, PTL

\* The 32-bit byte count and clock never wrap unnoticed: while no error is
\* latched the stream is as long as the true time since begin() owes.
THEOREM LoadFollowsTheClock == Spec => []LoadFollowsClock
  <1>1. SourceInv => LoadFollowsClock
    BY DEF SourceInv, WholeBlocks, NoSilentReduction, LoadFollowsClock
  <1> QED BY <1>1, SourceInvariant, PTL
=============================================================================
