------------------------ MODULE OnlineStream_proofs ------------------------
(***************************************************************************)
(* Proofs about OnlineStream: the buffers that the BLE stack or a task      *)
(* still holds are not given away, completions retire the slot they are     *)
(* about, fragments go out in order, a stop is reported truthfully, and the *)
(* stream implements OnlineDevice.                                          *)
(*                                                                         *)
(* The invariant is proved in four layers, each over the one before: who    *)
(* may do what (Control), who holds which slot (Slot), which frames are out *)
(* (Frame), and what the wire has seen of them (Wire).                      *)
(***************************************************************************)
EXTENDS OnlineStream, SequenceTheorems, FiniteSetTheorems, WellFoundedInduction, TLAPS

Kinds == {"none", "start", "record", "end", "abort", "stress"}
States == {"FREE", "BUILDING", "READY", "IN_FLIGHT", "QUARANTINED"}

Frames == [kind : Kinds, n : 0 .. Records, f : 0 .. Fragments]
SlotRecords == [state : States, frame : Frames, gen : Nat, pending : BOOLEAN]
\* A stop that is being looked at, and one that is being stored.
Testing == {"asked", "overriding", "noted"}
Storing == {"naming", "ending", "clearing"}
Apps == [pc : {"idle", "failing", "cancelling", "claim", "publish", "selected", "acking"}
                \cup Testing \cup Storing,
         what : {"none", "abort", "failure", "transport", "disconnect",
                 "start", "end", "stress", "host_stop", "low_battery"},
         slot : Slots \cup {NoSlot}, n : 0 .. Records]
Stagers == [pc : {"idle", "peeked", "reading"}, n : 0 .. Records, f : 0 .. Fragments,
            gen : Nat, slot : Slots \cup {NoSlot}]

Shapes ==
  /\ active \in BOOLEAN /\ readyLatched \in BOOLEAN /\ startSent \in BOOLEAN
  /\ endReq \in BOOLEAN /\ endWait \in BOOLEAN /\ endAcked \in BOOLEAN
  /\ abortReq \in BOOLEAN /\ cleanupReady \in BOOLEAN /\ abortAccepted \in BOOLEAN
  /\ discard \in BOOLEAN /\ linkDown \in BOOLEAN /\ workspace \in BOOLEAN
  /\ capturing \in BOOLEAN /\ dropped \in BOOLEAN /\ connected \in BOOLEAN
  /\ stopReason \in Reasons \cup {"none"} /\ generation \in Nat
  /\ tx \in [n : 0 .. Records, sent : 0 .. Fragments, staged : 0 .. Fragments]
  /\ ring \in [Slots -> SlotRecords]
  /\ ready \in Seq(Slots) /\ completions \in Seq(Slots)
  /\ selected \in Slots \cup {NoSlot}
  /\ ackWait \in Seq(0 .. Records)
  /\ app \in Apps /\ stager \in Stagers
  /\ session \in 0 .. SessionLimit /\ committed \in 0 .. Records
  /\ backlog \in Seq(1 .. Records) /\ inFlight \in Seq(1 .. Records)
  /\ wire \in Seq(Frames)
  /\ link \in {"up", "down"} /\ stack \in Seq(Slots) /\ sentBack \in Seq(Slots)

-----------------------------------------------------------------------------
(* Who may do what.                                                          *)

\* Between sessions nothing is left of the last one.
AtRest ==
  /\ app.pc = "idle" /\ ~workspace /\ ReuseSafe
  /\ ~endReq /\ ~endWait /\ ~endAcked /\ ~abortReq /\ ~cleanupReady
  /\ tx = NoTx /\ ackWait = << >>

ControlInv ==
  /\ ~active => AtRest
  /\ active => workspace
  /\ selected # NoSlot <=> app.pc = "selected"
  /\ ~capturing => app.pc = "idle" \/ stager.pc = "idle"
  /\ cleanupReady => ~capturing /\ (abortReq \/ endReq)
  /\ app.pc \in {"claim", "publish", "selected"} => Len(completions) < SlotCount
  /\ Len(completions) <= SlotCount
  /\ app.pc \in {"claim", "publish"} => app.what \in {"start", "end", "abort", "stress"}
  /\ app.pc \in {"failing", "cancelling"} =>
       app.what \in {"abort", "failure", "transport", "disconnect"}
  /\ app.pc = "cancelling" => abortReq
  /\ stager.pc = "reading" => stager.slot \in Slots /\ stager.n # 0 /\ stager.f # 0
  /\ app.pc = "publish" => app.slot \in Slots
  /\ app.pc \in Testing \cup Storing => app.what \in {"host_stop", "low_battery"}
  /\ app.pc \in Testing /\ cleanupReady => endReq /\ ~abortReq
  /\ app.pc \in Storing => ~cleanupReady
  /\ abortReq \/ app.pc = "failing" =>
       stopReason # "none" /\ (stopReason = "host_stop" => overtaken)

GenerationInv ==
  /\ generation <= 3 * session
  /\ active /\ ~abortReq => generation <= 3 * session - 1
  /\ active /\ ~abortReq /\ app.pc # "failing" => generation <= 3 * session - 2

-----------------------------------------------------------------------------
(* Who holds which slot.                                                     *)

Stages(s)    == stager.pc = "reading" /\ stager.slot = s
Publishing(s) == app.pc = "publish" /\ app.slot = s

SlotShapes ==
  /\ \A s \in Slots : ring[s].state = "FREE" => ring[s] = FreeSlot
  /\ \A s \in Slots : ring[s].pending => ring[s].state \in {"IN_FLIGHT", "QUARANTINED"}
  /\ \A s \in Slots : ring[s].state = "IN_FLIGHT" => ring[s].pending
  /\ \A s \in Slots : ring[s].state = "BUILDING" => Stages(s) \/ Publishing(s)

Holding(s) == s # selected /\ ring[s].state \in {"BUILDING", "QUARANTINED"} /\ ~ring[s].pending

HoldersInv ==
  /\ stager.pc = "reading" => Holding(stager.slot)
  /\ app.pc = "publish" => Holding(app.slot)
  /\ stager.pc = "reading" /\ app.pc = "publish" => stager.slot # app.slot
  /\ app.pc = "selected" =>
       /\ ring[selected].state \in {"READY", "QUARANTINED"} /\ ~ring[selected].pending
       /\ ring[selected].state = "READY" => ready # << >> /\ Head(ready) = selected

QueuesInv ==
  /\ \A i \in DOMAIN ready : ring[ready[i]].state = "READY"
  /\ \A s \in Slots : ring[s].state = "READY" => \E i \in DOMAIN ready : ready[i] = s
  /\ \A i, j \in DOMAIN ready : ready[i] = ready[j] => i = j
  /\ \A i \in DOMAIN completions : ring[completions[i]].pending
  /\ \A s \in Slots : ring[s].pending => \E i \in DOMAIN completions : completions[i] = s
  /\ \A i, j \in DOMAIN completions : completions[i] = completions[j] => i = j

LinkInv ==
  /\ link = "down" => stack = << >>
  /\ Len(sentBack) + Len(stack) <= Len(completions)
  /\ link = "up" => Len(completions) = Len(sentBack) + Len(stack)
  /\ \A i \in DOMAIN sentBack : completions[i] = sentBack[i]
  /\ \A i \in DOMAIN stack : completions[Len(sentBack) + i] = stack[i]
  /\ ~connected => /\ link = "down" /\ sentBack = << >>
                   /\ completions # << >> =>
                        app.pc \in {"failing", "cancelling"} /\ app.what = "disconnect"
  /\ app.pc \in {"failing", "cancelling"} /\ app.what = "disconnect" => ~connected

\* A session that has not failed.
Going == active /\ ~abortReq /\ app.pc # "failing"

GensInv ==
  Going => \A s \in Slots : ring[s].state # "FREE" =>
             ring[s].state # "QUARANTINED" /\ ring[s].gen = generation

-----------------------------------------------------------------------------
(* Which frames are out.                                                     *)

\* Nobody works for a session that is over, or goes on with one that fails.
RestInv ==
  /\ ~active => stager.pc = "idle" /\ ~capturing /\ backlog = << >> /\ inFlight = << >>
  /\ abortReq => ~endWait /\ ~endAcked /\ tx = NoTx /\ ackWait = << >>

Out(s) == ring[s].state # "FREE"
Making(kinds) == app.pc \in {"claim", "publish"} /\ app.what \in kinds

\* A slot has a frame of its kind; the App task makes none but its own.
FramesInv ==
  /\ \A s \in Slots : Out(s) =>
       /\ ring[s].frame.kind # "none"
       /\ ring[s].frame.kind # "record" => ring[s].frame = Frame(ring[s].frame.kind, 0, 0)
       /\ ring[s].frame.kind = "record" => ring[s].frame.n # 0 /\ ring[s].frame.f # 0
  /\ app.pc = "publish" => ring[app.slot].frame.kind = app.what
  /\ stager.pc = "reading" => ring[stager.slot].frame = Frame("record", stager.n, stager.f)
  /\ abortReq /\ app.pc # "cancelling" =>
       \A s \in Slots : ring[s].state = "READY" => ring[s].frame.kind \in {"start", "abort", "stress"}

Terminal == {"end", "abort"}

\* Nothing goes out besides a terminal frame, and nothing is left to be staged.
TerminalOut == Making(Terminal) \/ \E s \in Slots : Out(s) /\ ring[s].frame.kind \in Terminal

Drained == backlog = << >> /\ inFlight = << >> /\ tx = NoTx
Closed  == startSent /\ endReq /\ cleanupReady /\ ~dropped /\ Drained

TerminalInv ==
  /\ TerminalOut => cleanupReady /\ stager.pc = "idle" /\ (abortReq \/ Closed)
  /\ \A s, t \in Slots : Out(s) /\ ring[s].frame.kind \in Terminal /\ Out(t) => s = t
  /\ app.pc = "claim" => \A s \in Slots : Out(s) => ring[s].frame.kind \notin Terminal
  /\ app.pc = "claim" /\ app.what \in Terminal => ReuseSafe
  /\ app.pc = "publish" /\ app.what \in Terminal => \A t \in Slots : Out(t) => t = app.slot
  /\ \A s \in Slots : Out(s) /\ ring[s].frame.kind = "abort" => abortReq
  /\ Making({"abort"}) => abortReq
  /\ Making({"end"}) => ~abortReq /\ app.pc # "failing"
  /\ app.pc = "selected" /\ ring[selected].frame.kind = "end" => ~abortReq

LastIs(kind) == wire # << >> /\ Last(wire).kind = kind

\* END goes out after everything, and its ACK is about it.
EndInv ==
  /\ endWait \/ endAcked => LastIs("end")
  /\ endWait \/ endAcked => ackWait = (IF endWait THEN << 0 >> ELSE << >>)
  /\ active /\ ~abortReq /\ LastIs("end") => Closed
  /\ endWait /\ endAcked => FALSE
  /\ app.pc = "claim" => ~endWait /\ ~endAcked
  /\ (endWait \/ endAcked) /\ Going => \A s \in Slots : Out(s) => ring[s].state = "IN_FLIGHT"
  /\ endAcked /\ Going => \E s \in Slots : ring[s].state = "IN_FLIGHT"

AckInv ==
  /\ Going => ackWait = inFlight \/ (endWait /\ inFlight = << >>)
  /\ Len(ackWait) <= Window /\ Len(inFlight) <= Window

\* A record that is being retired is the oldest one, aborted or not.
AckingInv ==
  /\ inFlight # << >> => startSent
  /\ app.pc = "acking" => inFlight # << >> /\ Head(inFlight) = app.n

Staged(i) == i \in DOMAIN ready /\ ring[ready[i]].frame.kind = "record"
FrameAt(i) == ring[ready[i]].frame

RecordsInv ==
  /\ tx.sent <= tx.staged
  /\ Going =>
       /\ \A i \in DOMAIN ready : Staged(i) =>
            FrameAt(i).n = tx.n /\ FrameAt(i).f \in tx.sent + 1 .. tx.staged
       /\ \A i, j \in DOMAIN ready : Staged(i) /\ Staged(j) /\ i < j => FrameAt(i).f < FrameAt(j).f
       /\ \A f \in tx.sent + 1 .. tx.staged : \E i \in DOMAIN ready : Staged(i) /\ FrameAt(i).f = f
       /\ tx.n = 0 => tx = NoTx
       /\ tx.n # 0 => /\ backlog # << >> /\ Head(backlog) = tx.n
                      /\ Len(inFlight) < Window /\ startSent
                      /\ tx.sent < Fragments
       /\ stager.pc = "reading" => /\ stager.gen = generation
                                   /\ ring[stager.slot].state = "BUILDING"
                                   /\ tx.n = stager.n /\ tx.staged = stager.f - 1
       /\ stager.pc = "peeked" /\ stager.n # 0 =>
            /\ tx.n = 0 /\ backlog # << >> /\ Head(backlog) = stager.n
            /\ Len(inFlight) < Window /\ startSent

\* START goes out once, before everything else.
StartOut(s) == Out(s) /\ ~ring[s].pending /\ ring[s].frame.kind = "start"

StartInv ==
  /\ active /\ ~abortReq => (startSent <=> wire # << >>)
  /\ Making({"start"}) \/ (\E s \in Slots : StartOut(s)) => wire = << >>
  /\ \A s, t \in Slots : StartOut(s) /\ StartOut(t) => s = t
  /\ app.pc = "claim" /\ app.what = "start" => \A s \in Slots : ~StartOut(s)
  /\ app.pc = "publish" /\ app.what = "start" => \A s \in Slots : StartOut(s) => s = app.slot

\* The records of the log are the latest ones committed, in order.
LogInv ==
  /\ Len(backlog) + Len(inFlight) <= committed
  /\ \A i \in DOMAIN backlog : backlog[i] = committed - Len(backlog) + i
  /\ \A i \in DOMAIN inFlight : inFlight[i] = committed - Len(backlog) - Len(inFlight) + i

\* The wire ends where the record being sent stands.
WireInv ==
  Going /\ startSent /\ ~LastIs("end") =>
    /\ Last(wire).kind \in {"start", "record"}
    /\ tx.sent # 0 => Last(wire).n = tx.n /\ Last(wire).f = tx.sent
    /\ tx.sent = 0 => Last(wire).n <= committed - Len(backlog)

\* A fragment that is still handed over when the session fails is the next one.
StragglerInv ==
  abortReq /\ app.pc = "selected" /\ ring[selected].frame.kind = "record" =>
    /\ backlog # << >> /\ Last(wire).kind \in {"start", "record"} /\ wire # << >>
    /\ ring[selected].frame = Device!NextFragment

\* Nothing but records went out before an ACK is taken.
AckedInv == app.pc = "acking" => LastIs("start") \/ LastIs("record")

-----------------------------------------------------------------------------
ControlLayer == Shapes /\ ControlInv /\ GenerationInv
SlotLayer    == SlotShapes /\ HoldersInv /\ QueuesInv /\ LinkInv /\ GensInv
FrameLayer   == /\ RestInv /\ FramesInv /\ TerminalInv /\ EndInv /\ AckInv
                /\ AckingInv /\ RecordsInv /\ LogInv
WireLayer    == StartInv /\ WireInv /\ StragglerInv /\ AckedInv

USE DEF opening, stopping, ending, aborting, sending, outcome, slots, spool, capture, external

-----------------------------------------------------------------------------
(* Two operators on slots and queues.                                        *)

\* The first free slot is one, when there is any.
LEMMA FirstFreeIsFree ==
  ASSUME FreeSlots # {}
  PROVE  FirstFree \in Slots /\ ring[FirstFree].state = "FREE"
  <1>1. FreeSlots \subseteq Nat BY StreamAssumption DEF FreeSlots, Slots
  <1>2. PICK least \in FreeSlots : \A y \in FreeSlots : << y, least >> \notin OpToRel(<, Nat)
    BY <1>1, WFMin, NatLessThanWellFounded
  <1>3. \A y \in FreeSlots : ~(y < least) BY <1>1, <1>2 DEF OpToRel
  <1>4. \A y \in FreeSlots : least <= y BY <1>1, <1>3
  <1>5. FirstFree \in FreeSlots BY <1>4 DEF FirstFree
  <1> QED BY <1>5 DEF FreeSlots

\* p is q without the members of S, in its order.
Thinned(p, q, S) ==
  \E at \in [DOMAIN p -> DOMAIN q] :
    /\ \A k \in DOMAIN p : p[k] = q[at[k]] /\ q[at[k]] \notin S
    /\ \A k, l \in DOMAIN p : k < l => at[k] < at[l]
    /\ \A i \in DOMAIN q : q[i] \notin S => \E k \in DOMAIN p : at[k] = i

\* Less keeps the order, and everything that is not in the set.
LEMMA LessKeeps ==
  ASSUME NEW X, NEW q \in Seq(X), NEW S
  PROVE  Less(q, S) \in Seq(X) /\ Thinned(Less(q, S), q, S)
  <1> DEFINE kept == { i \in DOMAIN q : q[i] \notin S }
             upto(i) == { j \in kept : j <= i }
             rank == [i \in kept |-> Cardinality(upto(i))]
             n == Cardinality(kept)
             at == [k \in 1 .. n |-> CHOOSE i \in kept : Cardinality(upto(i)) = k]
  <1>1. DOMAIN q = 1 .. Len(q) /\ Len(q) \in Nat BY LenProperties
  <1>2. IsFiniteSet(kept) /\ n \in Nat
    <2>1. kept \in SUBSET (1 .. Len(q)) BY <1>1
    <2>2. IsFiniteSet(1 .. Len(q)) BY <1>1, FS_Interval
    <2> HIDE DEF kept
    <2>3. IsFiniteSet(kept) BY <2>1, <2>2, FS_Subset
    <2> QED BY <2>3, FS_CardinalityType
  <1>3. \A i \in kept : /\ IsFiniteSet(upto(i)) /\ rank[i] \in 1 .. n
                         /\ i \in Nat
    <2> TAKE i \in kept
    <2>1. upto(i) \in SUBSET kept OBVIOUS
    <2>2. IsFiniteSet(upto(i)) /\ Cardinality(upto(i)) <= n BY <1>2, <2>1, FS_Subset
    <2>3. i \in upto(i) BY <1>1
    <2>4. Cardinality(upto(i)) \in Nat /\ Cardinality(upto(i)) # 0
      BY <2>2, <2>3, FS_CardinalityType, FS_EmptySet
    <2> QED BY <1>1, <1>2, <2>2, <2>4
  <1>4. \A i, j \in kept : i < j => rank[i] < rank[j]
    <2> SUFFICES ASSUME NEW i \in kept, NEW j \in kept, i < j PROVE rank[i] < rank[j]
      OBVIOUS
    <2>1. upto(i) \in SUBSET upto(j) BY <1>3
    <2>2. j \in upto(j) /\ j \notin upto(i) BY <1>3
    <2>3. Cardinality(upto(i)) <= Cardinality(upto(j)) /\ Cardinality(upto(i)) # Cardinality(upto(j))
      <3> HIDE DEF upto
      <3> QED BY <1>3, <2>1, <2>2, FS_Subset
    <2>4. rank[i] = Cardinality(upto(i)) /\ rank[j] = Cardinality(upto(j)) OBVIOUS
    <2> HIDE DEF upto, rank, kept
    <2> QED BY <1>2, <1>3, <2>3, <2>4
  <1>5. \A i, j \in kept : rank[i] = rank[j] => i = j
    <2> SUFFICES ASSUME NEW i \in kept, NEW j \in kept, rank[i] = rank[j] PROVE i = j
      OBVIOUS
    <2> HIDE DEF rank, kept, n, upto
    <2>1. i \in Nat /\ j \in Nat /\ rank[i] \in Nat BY <1>2, <1>3
    <2>2. ~(i < j) /\ ~(j < i) BY <1>4, <2>1
    <2> QED BY <2>1, <2>2
  <1>6. \A k \in 1 .. n : \E i \in kept : rank[i] = k
    <2>1. rank \in [kept -> 1 .. n] BY <1>3
    <2>2. IsFiniteSet(1 .. n) /\ Cardinality(1 .. n) = n BY <1>2, FS_Interval
    <2> HIDE DEF rank, kept
    <2>3. rank \in Injection(kept, 1 .. n) BY <1>5, <2>1 DEF Injection, IsInjective
    <2>4. rank \in Surjection(kept, 1 .. n) BY <2>2, <2>3, FS_Injection
    <2> QED BY <2>4 DEF Surjection
  <1>7. \A k \in 1 .. n : at[k] \in kept /\ rank[at[k]] = k
    <2> TAKE k \in 1 .. n
    <2>1. \E i \in kept : Cardinality(upto(i)) = k BY <1>6
    <2> HIDE DEF kept, upto
    <2>2. at[k] \in kept /\ Cardinality(upto(at[k])) = k BY <2>1
    <2> QED BY <2>2
  <1>8. Less(q, S) = [k \in 1 .. n |-> q[at[k]]]
    <2>1. Less(q, S) = [k \in 1 .. n |-> q[CHOOSE i \in kept : Cardinality(upto(i)) = k]]
      BY DEF Less
    <2> QED BY <2>1
  <1>9. at \in [1 .. n -> DOMAIN q] BY <1>7
  <1>10. \A k, l \in 1 .. n : k < l => at[k] < at[l]
    <2> HIDE DEF rank, at
    <2>1. \A k \in 1 .. n : at[k] \in Nat BY <1>3, <1>7
    <2> QED BY <1>2, <1>4, <1>7, <2>1
  <1>11. \A i \in DOMAIN q : q[i] \notin S => \E k \in 1 .. n : at[k] = i
    <2> SUFFICES ASSUME NEW i \in kept PROVE \E k \in 1 .. n : at[k] = i
      OBVIOUS
    <2> HIDE DEF rank, at, kept
    <2>1. rank[i] \in 1 .. n /\ at[rank[i]] = i BY <1>3, <1>5, <1>7
    <2> QED BY <2>1
  <1>12. \A k \in 1 .. n : q[at[k]] \notin S /\ q[at[k]] \in X
    <2> HIDE DEF at
    <2> QED BY <1>1, <1>7, ElementOfSeq
  <1> HIDE DEF at, n, rank
  <1>13. Less(q, S) \in Seq(X) /\ DOMAIN Less(q, S) = 1 .. n
    BY <1>2, <1>8, <1>12, SeqDef
  <1>14. /\ at \in [DOMAIN Less(q, S) -> DOMAIN q]
         /\ \A k \in DOMAIN Less(q, S) : Less(q, S)[k] = q[at[k]] /\ q[at[k]] \notin S
         /\ \A k, l \in DOMAIN Less(q, S) : k < l => at[k] < at[l]
         /\ \A i \in DOMAIN q : q[i] \notin S => \E k \in DOMAIN Less(q, S) : at[k] = i
    BY <1>8, <1>9, <1>10, <1>11, <1>12, <1>13
  <1> QED BY <1>13, <1>14 DEF Thinned

-----------------------------------------------------------------------------
(* The first layer: shapes and control.                                      *)

LEMMA SlotValues ==
  ASSUME Shapes
  PROVE  /\ FreeSlot \in SlotRecords
         /\ \A kind \in Kinds, n \in 0 .. Records, f \in 0 .. Fragments :
              Building(Frame(kind, n, f)) \in SlotRecords
         /\ \A s \in Slots : Cancelled(s) \in SlotRecords /\ AfterTeardown(s) \in SlotRecords
  <1>1. 0 \in 0 .. Records /\ 0 \in 0 .. Fragments BY StreamAssumption
  <1>2. FreeSlot \in SlotRecords
    BY <1>1 DEF FreeSlot, NoFrame, Frame, SlotRecords, Frames, Kinds, States
  <1>3. \A kind \in Kinds, n \in 0 .. Records, f \in 0 .. Fragments :
          Building(Frame(kind, n, f)) \in SlotRecords
    BY DEF Shapes, Building, Frame, SlotRecords, Frames, States
  <1>4. ASSUME NEW s \in Slots
        PROVE  Cancelled(s) \in SlotRecords /\ AfterTeardown(s) \in SlotRecords
    <2>1. ring[s] \in SlotRecords BY DEF Shapes
    <2>2. [ring[s] EXCEPT !.state = "QUARANTINED"] \in SlotRecords
      BY <2>1 DEF SlotRecords, States
    <2>3. Cancelled(s) \in SlotRecords BY <1>2, <2>1, <2>2 DEF Cancelled
    <2> QED BY <1>2, <2>3 DEF AfterTeardown
  <1> QED BY <1>2, <1>3, <1>4

LEMMA ShapesInit == StreamInit => Shapes
  <1> SUFFICES ASSUME StreamInit PROVE Shapes OBVIOUS
  <1>1. 0 \in 0 .. Records /\ 0 \in 0 .. Fragments /\ 0 \in 0 .. SessionLimit
    BY StreamAssumption
  <1>2. ring \in [Slots -> SlotRecords]
    BY <1>1 DEF StreamInit, FreeSlot, NoFrame, Frame, SlotRecords, Frames, Kinds, States
  <1>3. app \in Apps /\ stager \in Stagers
    BY <1>1 DEF StreamInit, AppIdle, NoStage, Apps, Stagers
  <1>4. tx \in [n : 0 .. Records, sent : 0 .. Fragments, staged : 0 .. Fragments]
    BY <1>1 DEF StreamInit, NoTx
  <1> QED BY <1>1, <1>2, <1>3, <1>4, EmptySeq DEF StreamInit, Shapes, Log!LogInit, Reasons

\* What a failure assigns has the shapes.
LEMMA FailureShapes ==
  ASSUME Shapes
  PROVE  /\ \A what : AppFails(what) /\ what \in {"abort", "failure", "transport", "disconnect"} =>
              generation' \in Nat /\ stopReason' \in Reasons \cup {"none"} /\ app' \in Apps
         /\ NoTx \in [n : 0 .. Records, sent : 0 .. Fragments, staged : 0 .. Fragments]
         /\ NoStage \in Stagers /\ AppIdle \in Apps
         /\ ReasonOnFailure \in Reasons \cup {"none"} /\ Advanced \in Nat
  <1>1. 0 \in 0 .. Records /\ 0 \in 0 .. Fragments BY StreamAssumption
  <1>2. ReasonOnFailure \in Reasons \cup {"none"} /\ Advanced \in Nat
    BY DEF Shapes, ReasonOnFailure, Reasons, Advanced
  <1>3. NoStage \in Stagers /\ AppIdle \in Apps BY <1>1 DEF NoStage, AppIdle, Stagers, Apps
  <1> QED BY <1>1, <1>2, <1>3 DEF AppFails, AppIdle, Apps, NoTx

\* A slot that is published keeps the shape of a slot.
LEMMA SlotReady ==
  ASSUME NEW x \in SlotRecords
  PROVE  /\ [x EXCEPT !.state = "READY"] \in SlotRecords
         /\ [x EXCEPT !.state = "READY"].state = "READY"
         /\ [x EXCEPT !.state = "READY"].pending = x.pending
  BY DEF SlotRecords, States

LEMMA FailsAtOnceShapes ==
  ASSUME Shapes, NEW latched \in BOOLEAN, FailsAtOnce(latched), stager' \in Stagers,
         ring' \in [Slots -> SlotRecords], ready' = << >>,
         UNCHANGED << selected, completions, spool, app, capture, wire, external >>
  PROVE  Shapes'
  <1>1. /\ generation' \in Nat /\ stopReason' \in Reasons \cup {"none"}
        /\ tx' \in [n : 0 .. Records, sent : 0 .. Fragments, staged : 0 .. Fragments]
    BY FailureShapes DEF FailsAtOnce, AbortFlags
  <1>2. ready' \in Seq(Slots) /\ ackWait' \in Seq(0 .. Records)
    BY EmptySeq DEF FailsAtOnce, AbortFlags
  <1>3. /\ endReq' \in BOOLEAN /\ endWait' \in BOOLEAN /\ endAcked' \in BOOLEAN
        /\ abortReq' \in BOOLEAN /\ abortAccepted' \in BOOLEAN /\ discard' \in BOOLEAN
        /\ readyLatched' \in BOOLEAN
        /\ UNCHANGED << active, startSent, session, workspace, stopReport, linkDown, cleanupReady >>
    BY DEF FailsAtOnce, AbortFlags
  <1> QED BY <1>1, <1>2, <1>3 DEF Shapes

LEMMA FinishShapes ==
  ASSUME Shapes, NEW timeout, Finish(timeout),
         UNCHANGED << generation, linkDown, stager, capture, wire, link, connected, stack, selected >>,
         ring' \in [Slots -> SlotRecords], ready' \in Seq(Slots), completions' \in Seq(Slots),
         sentBack' \in Seq(Slots)
  PROVE  Shapes'
  <1>1. /\ active' \in BOOLEAN /\ workspace' \in BOOLEAN
        /\ endReq' \in BOOLEAN /\ endWait' \in BOOLEAN /\ endAcked' \in BOOLEAN
        /\ abortReq' \in BOOLEAN /\ abortAccepted' \in BOOLEAN
        /\ cleanupReady' \in BOOLEAN /\ discard' \in BOOLEAN
    BY DEF Finish
  <1>2. /\ tx' \in [n : 0 .. Records, sent : 0 .. Fragments, staged : 0 .. Fragments]
        /\ ackWait' \in Seq(0 .. Records)
        /\ backlog' \in Seq(1 .. Records) /\ inFlight' \in Seq(1 .. Records)
    BY FailureShapes, EmptySeq DEF Finish, Log!DropAll
  <1>3. UNCHANGED << readyLatched, startSent, session, stopReason, committed, app >> BY DEF Finish
  <1> QED BY <1>1, <1>2, <1>3 DEF Shapes

LEMMA ShapesStep ==
  ASSUME ControlLayer, [StreamNext]_vars
  PROVE  Shapes'
  <1>1. Shapes /\ ControlInv BY DEF ControlLayer
  <1>2. 0 \in 0 .. Records /\ 0 \in 0 .. Fragments /\ SessionLimit \in Nat /\ Records \in Nat
        /\ Fragments \in Nat \ {0}
    BY StreamAssumption
  <1> USE <1>1, <1>2
  <1>3. CASE StageGate
    <2>1. backlog # << >> => Head(backlog) \in 0 .. Records
      BY HeadTailProperties DEF Shapes
    <2>2. /\ UNCHANGED << opening, stopping, outcome, generation, linkDown, sending,
                          slots, spool, app, capture, wire, external >>
          /\ \/ stager' = [NoStage EXCEPT !.pc = "peeked"]
             \/ backlog # << >> /\ stager' = [NoStage EXCEPT !.pc = "peeked", !.n = Head(backlog)]
      BY <1>3 DEF StageGate
    <2>3. [NoStage EXCEPT !.pc = "peeked"] \in Stagers BY DEF NoStage, Stagers
    <2>4. \A n \in 0 .. Records : [NoStage EXCEPT !.pc = "peeked", !.n = n] \in Stagers
      BY DEF NoStage, Stagers
    <2>5. stager' \in Stagers BY <2>1, <2>2, <2>3, <2>4
    <2> QED BY <2>2, <2>5 DEF Shapes
  <1>4. CASE StagePeekFails
    <2>1. stager' \in Stagers BY <1>4, FailureShapes DEF StagePeekFails
    <2>2. CASE active
      <3>1. /\ FailsAtOnce(FALSE)
            /\ UNCHANGED << selected, completions, spool, app, capture, wire, external >>
        BY <1>4, <2>2 DEF StagePeekFails
      <3>2. ring' \in [Slots -> SlotRecords] /\ ready' = << >>
        BY <1>4, <2>2, SlotValues DEF StagePeekFails, CancelUnsent
      <3> QED BY <2>1, <3>1, <3>2, FailsAtOnceShapes
    <2>3. CASE ~active BY <1>4, <2>1, <2>3 DEF StagePeekFails, Shapes
    <2> QED BY <2>2, <2>3
  <1>5. CASE StageTake
    <2>1. /\ UNCHANGED << opening, stopping, outcome, generation, linkDown, ackWait, ready,
                          selected, completions, spool, app, capture, wire, external >>
          /\ tx' \in [n : 0 .. Records, sent : 0 .. Fragments, staged : 0 .. Fragments]
      BY <1>5 DEF StageTake, NoTx, Shapes, Stagers
    <2>2. /\ stager' \in Stagers
          /\ ring' \in [Slots -> SlotRecords]
      <3> DEFINE now == IF tx.n # 0 THEN tx ELSE [NoTx EXCEPT !.n = stager.n]
      <3>1. now \in [n : 0 .. Records, sent : 0 .. Fragments, staged : 0 .. Fragments]
        BY DEF NoTx, Shapes, Stagers
      <3>2. CASE stager' = NoStage /\ UNCHANGED ring BY <3>2, FailureShapes DEF Shapes
      <3>3. CASE ~(stager' = NoStage /\ UNCHANGED ring)
        <4>1. /\ now.staged # Fragments /\ FreeSlots # {}
              /\ ring' = [ring EXCEPT ![FirstFree] = Building(Frame("record", now.n, now.staged + 1))]
              /\ stager' = [pc |-> "reading", n |-> now.n, f |-> now.staged + 1,
                            gen |-> generation, slot |-> FirstFree]
          BY <1>5, <3>3 DEF StageTake
        <4>2. now.staged + 1 \in 0 .. Fragments /\ now.n \in 0 .. Records BY <3>1, <4>1
        <4>3. FirstFree \in Slots BY <4>1, FirstFreeIsFree
        <4>4. Building(Frame("record", now.n, now.staged + 1)) \in SlotRecords
          BY <4>2, SlotValues DEF Kinds
        <4> HIDE DEF now
        <4> QED BY <4>1, <4>2, <4>3, <4>4 DEF Shapes, Stagers
      <3> QED BY <3>2, <3>3
    <2> QED BY <2>1, <2>2 DEF Shapes
  <1>6. CASE StagePublish \/ StageReadBusy
    <2>1. /\ UNCHANGED << opening, stopping, outcome, generation, linkDown, ackWait,
                          selected, completions, spool, app, capture, wire, external >>
          /\ stager' \in Stagers
      BY <1>6, FailureShapes DEF StagePublish, StageReadBusy
    <2>2. stager.slot \in Slots => [ring[stager.slot] EXCEPT !.state = "READY"] \in SlotRecords
      BY SlotReady DEF Shapes
    <2>3. ring' \in [Slots -> SlotRecords]
      BY <1>6, <2>2, SlotValues
         DEF StagePublish, StageReadBusy, Publish, ReleaseBuilder, Shapes
    <2>4. ready' \in Seq(Slots)
      <3>1. CASE UNCHANGED ready BY <3>1 DEF Shapes
      <3>2. CASE ready' = Append(ready, stager.slot) /\ Publishes(stager.slot)
        <4>1. stager.pc = "reading" BY <1>6 DEF StagePublish, StageReadBusy
        <4> QED BY <3>2, <4>1, AppendProperties DEF Shapes, ControlInv
      <3> QED BY <1>6, <3>1, <3>2
             DEF StagePublish, StageReadBusy, Publish, ReleaseBuilder
    <2>5. tx' \in [n : 0 .. Records, sent : 0 .. Fragments, staged : 0 .. Fragments]
      <3>1. CASE UNCHANGED tx BY <3>1 DEF Shapes
      <3>2. CASE tx' = StageAdvanced /\ StillStaging
        <4>1. tx.staged = stager.f - 1 /\ stager.f \in 0 .. Fragments /\ tx.staged \in 0 .. Fragments
          BY <3>2 DEF StillStaging, Shapes, Stagers
        <4>2. tx.staged + 1 \in 0 .. Fragments BY <4>1
        <4> QED BY <3>2, <4>2 DEF StageAdvanced, Shapes
      <3> QED BY <1>6, <3>1, <3>2 DEF StagePublish, StageReadBusy
    <2> QED BY <2>1, <2>3, <2>4, <2>5 DEF Shapes
  <1>7. CASE StageReadFails
    <2>1. stager' \in Stagers BY <1>7, FailureShapes DEF StageReadFails
    <2>2. CASE active
      <3>1. /\ FailsAtOnce(FALSE)
            /\ UNCHANGED << selected, completions, spool, app, capture, wire, external >>
        BY <1>7, <2>2 DEF StageReadFails
      <3>2. ring' \in [Slots -> SlotRecords] /\ ready' = << >>
        BY <1>7, <2>2, SlotValues DEF StageReadFails
      <3> QED BY <2>1, <3>1, <3>2, FailsAtOnceShapes
    <2>3. CASE ~active
      <3>1. ring' \in [Slots -> SlotRecords]
        BY <1>7, <2>3, SlotValues DEF StageReadFails, ReleaseBuilder, Shapes
      <3> QED BY <1>7, <2>1, <2>3, <3>1 DEF StageReadFails, ReleaseBuilder, Shapes
    <2> QED BY <2>2, <2>3
  <1>8. CASE Commit
    <2>1. /\ UNCHANGED << opening, stopping, outcome, generation, linkDown, sending,
                          slots, app, stager, capture, wire, external >>
          /\ committed' \in 0 .. Records /\ committed + 1 \in 1 .. Records
          /\ backlog' = Append(backlog, committed + 1) /\ inFlight' = inFlight
      BY <1>8 DEF Commit, Log!CommitRecord, Shapes
    <2>2. backlog' \in Seq(1 .. Records) BY <2>1, AppendProperties DEF Shapes
    <2> QED BY <2>1, <2>2 DEF Shapes
  <1>9. CASE CaptureAborts
    <2>1. /\ FailsAtOnce(readyLatched) /\ readyLatched \in BOOLEAN /\ stager' \in Stagers
          /\ UNCHANGED << selected, completions, spool, app, capture, wire, external >>
      BY <1>9 DEF CaptureAborts, Shapes
    <2>2. ring' \in [Slots -> SlotRecords] /\ ready' = << >>
      BY <1>9, SlotValues DEF CaptureAborts, CancelUnsent
    <2> QED BY <2>1, <2>2, FailsAtOnceShapes
  <1>10. CASE CaptureDone
    <2>1. capturing' \in BOOLEAN /\ dropped' \in BOOLEAN BY <1>10 DEF CaptureDone, Shapes
    <2>2. UNCHANGED << opening, stopping, outcome, generation, linkDown, sending,
                       slots, spool, app, stager, wire, external >>
      BY <1>10 DEF CaptureDone
    <2> QED BY <2>1, <2>2 DEF Shapes
  <1>11. CASE HandleReady BY <1>11 DEF HandleReady, Shapes
  <1>12. CASE Begin
    <2>1. ring' \in [Slots -> SlotRecords] BY <1>12, SlotValues DEF Begin
    <2>2. session' \in 0 .. SessionLimit /\ generation' \in Nat BY <1>12 DEF Begin, Shapes
    <2>3. /\ ready' \in Seq(Slots) /\ completions' \in Seq(Slots) /\ ackWait' \in Seq(0 .. Records)
          /\ backlog' \in Seq(1 .. Records) /\ inFlight' \in Seq(1 .. Records)
          /\ wire' \in Seq(Frames)
      BY <1>12, EmptySeq DEF Begin, Log!DropAll
    <2> QED BY <1>12, <2>1, <2>2, <2>3, FailureShapes DEF Begin, Shapes
  <1>13. ASSUME NEW reason \in {"host_stop", "low_battery"}, RequestStop(reason) PROVE Shapes'
    <2>1. app' \in Apps BY <1>13 DEF RequestStop, AppIdle, Apps, Testing
    <2> QED BY <1>13, <2>1 DEF RequestStop, Shapes
  <1>38. CASE StopGoesOn
    <2>1. app' \in Apps
      <3>1. \A pc \in {"idle"} \cup Testing \cup Storing : [app EXCEPT !.pc = pc] \in Apps
        BY DEF Shapes, Apps
      <3>2. \/ app' = AppIdle
            \/ \E pc \in Testing \cup Storing : app' = [app EXCEPT !.pc = pc]
        BY <1>38 DEF StopGoesOn, StopChecksBattery, StopOverrides, StopChecksEnd, StopNames,
                     StopRequestsEnd, StopClears, Testing, Storing
      <3> QED BY <3>1, <3>2, FailureShapes
    <2>2. stopReason' \in Reasons \cup {"none"}
      BY <1>38 DEF StopGoesOn, StopChecksBattery, StopOverrides, StopChecksEnd, StopNames,
                   StopRequestsEnd, StopClears, Shapes, ControlInv, Reasons, Storing
    <2>3. /\ endReq' \in BOOLEAN /\ endAcked' \in BOOLEAN
          /\ cleanupReady' \in BOOLEAN /\ discard' \in BOOLEAN
          /\ UNCHANGED << opening, endWait, abortReq, abortAccepted, generation, linkDown,
                          sending, slots, spool, stager, capturing, dropped, wire, external >>
      BY <1>38 DEF StopGoesOn, StopChecksBattery, StopOverrides, StopChecksEnd, StopNames,
                   StopRequestsEnd, StopClears, Shapes
    <2> QED BY <2>1, <2>2, <2>3 DEF Shapes
  <1>14. ASSUME NEW what \in {"abort", "failure", "transport", "disconnect"}, AppFails(what),
                UNCHANGED << opening, stopping, linkDown, sending, spool, stager, capture, wire >>,
                connected' \in BOOLEAN, UNCHANGED << link, stack, ready, selected >>,
                ring' \in [Slots -> SlotRecords], completions' \in Seq(Slots),
                sentBack' \in Seq(Slots)
         PROVE  Shapes'
    <2>1. generation' \in Nat /\ stopReason' \in Reasons \cup {"none"} /\ app' \in Apps
      BY <1>14, FailureShapes
    <2> QED BY <1>14, <2>1 DEF Shapes
  <1>15. CASE AppAborts \/ EndCannotClose \/ TxStall
    BY <1>14, <1>15 DEF AppAborts, EndCannotClose, TxStall, Shapes
  <1>16. CASE FailFlags
    <2>1. app' \in Apps BY <1>16 DEF FailFlags, Shapes, Apps
    <2>2. /\ readyLatched' \in BOOLEAN /\ ackWait' \in Seq(0 .. Records)
          /\ tx' \in [n : 0 .. Records, sent : 0 .. Fragments, staged : 0 .. Fragments]
      BY <1>16, FailureShapes, EmptySeq DEF FailFlags, AbortFlags
    <2>3. /\ endReq' \in BOOLEAN /\ endWait' \in BOOLEAN /\ endAcked' \in BOOLEAN
          /\ abortReq' \in BOOLEAN /\ abortAccepted' \in BOOLEAN /\ discard' \in BOOLEAN
          /\ UNCHANGED << cleanupReady, active, startSent, session, workspace, outcome, generation,
                          linkDown, slots, spool, stager, capture, wire, external >>
      BY <1>16 DEF FailFlags, AbortFlags
    <2> QED BY <2>1, <2>2, <2>3 DEF Shapes
  <1>17. CASE FailCancels
    <2>1. ring' \in [Slots -> SlotRecords] /\ ready' \in Seq(Slots)
      BY <1>17, SlotValues, EmptySeq DEF FailCancels, CancelUnsent
    <2>2. selected' \in Slots \cup {NoSlot} /\ completions' \in Seq(Slots) /\ linkDown' \in BOOLEAN
      BY <1>17, EmptySeq DEF FailCancels, CancelUnsent, CompletionsAfterTeardown, Shapes
    <2>3. /\ app' = AppIdle
          /\ UNCHANGED << opening, stopping, outcome, generation, sending, spool,
                          stager, capture, wire, external >>
      BY <1>17 DEF FailCancels
    <2> QED BY <2>1, <2>2, <2>3, FailureShapes DEF Shapes
  <1>18. CASE CleanupReady BY <1>18 DEF CleanupReady, Shapes
  <1>19. CASE SelectReady
    <2>1. selected' \in Slots BY <1>19, HeadTailProperties DEF SelectReady, Shapes
    <2>2. app' \in Apps BY <1>19 DEF SelectReady, AppIdle, Apps
    <2> QED BY <1>19, <2>1, <2>2 DEF SelectReady, Shapes
  <1>20. CASE DecideFrame
    <2>1. FrameDue \subseteq {"start", "end", "abort", "stress"} BY DEF FrameDue
    <2>2. app' \in Apps BY <1>20, <2>1 DEF DecideFrame, AppIdle, Apps
    <2> QED BY <1>20, <2>2 DEF DecideFrame, Shapes
  <1>21. CASE ClaimFrame
    <2>1. CASE FreeSlots = {} BY <1>21, <2>1, FailureShapes DEF ClaimFrame, Shapes
    <2>2. CASE FreeSlots # {}
      <3>1. FirstFree \in Slots BY <2>2, FirstFreeIsFree
      <3>2. app.what \in Kinds BY <1>21 DEF ClaimFrame, ControlInv, Kinds
      <3>3. ring' \in [Slots -> SlotRecords]
        <4>1. Building(Frame(app.what, 0, 0)) \in SlotRecords BY <3>2, SlotValues
        <4>2. ring' = [ring EXCEPT ![FirstFree] = Building(Frame(app.what, 0, 0))]
          BY <1>21, <2>2 DEF ClaimFrame
        <4> QED BY <4>1, <4>2 DEF Shapes
      <3>4. app' \in Apps BY <1>21, <2>2, <3>1 DEF ClaimFrame, Shapes, Apps
      <3> QED BY <1>21, <3>3, <3>4 DEF ClaimFrame, Shapes
    <2> QED BY <2>1, <2>2
  <1>22. CASE PublishFrame
    <2>1. app.slot \in Slots BY <1>22 DEF PublishFrame, ControlInv
    <2>2. [ring[app.slot] EXCEPT !.state = "READY"] \in SlotRecords
      BY <2>1, SlotReady DEF Shapes
    <2>3. ring' \in [Slots -> SlotRecords]
      BY <1>22, <2>2, SlotValues DEF PublishFrame, Publish, Shapes
    <2>4. /\ Append(ready, app.slot) \in Seq(Slots) /\ Append(ready, app.slot) # << >>
          /\ Head(Append(ready, app.slot)) \in Slots
      <3>1. ready \in Seq(Slots) BY DEF Shapes
      <3>2. Append(ready, app.slot) \in Seq(Slots) /\ Append(ready, app.slot) # << >>
        BY <2>1, <3>1, AppendProperties
      <3> QED BY <3>2, HeadTailProperties
    <2>5. ready' \in Seq(Slots) /\ selected' \in Slots \cup {NoSlot}
      BY <1>22, <2>4 DEF PublishFrame, Publish, Shapes
    <2>6. app' \in Apps BY <1>22, FailureShapes DEF PublishFrame, AppIdle, Apps
    <2> QED BY <1>22, <2>3, <2>5, <2>6 DEF PublishFrame, Shapes
  <1>23. CASE NotifyAccepted
    <2> DEFINE slot == ring[selected]
               valid == StillValid(slot)
    <2>1. selected \in Slots BY <1>23 DEF NotifyAccepted, ControlInv, Shapes, NoSlot
    <2>2. slot \in SlotRecords /\ slot.frame \in Frames BY <2>1 DEF Shapes, SlotRecords
    <2>3. ring' \in [Slots -> SlotRecords]
      <3>1. CASE UNCHANGED ring BY <3>1 DEF Shapes
      <3>2. CASE ring' = [ring EXCEPT ![selected].pending = TRUE,
                               ![selected].state = IF valid THEN "IN_FLIGHT" ELSE "QUARANTINED"]
        <4>1. [[slot EXCEPT !.pending = TRUE] EXCEPT
                  !.state = IF valid THEN "IN_FLIGHT" ELSE "QUARANTINED"] \in SlotRecords
          BY <2>2 DEF SlotRecords, States
        <4>2. ring' = [ring EXCEPT ![selected] = [[slot EXCEPT !.pending = TRUE] EXCEPT
                  !.state = IF valid THEN "IN_FLIGHT" ELSE "QUARANTINED"]]
          BY <2>1, <3>2 DEF Shapes
        <4> QED BY <2>1, <4>1, <4>2 DEF Shapes
      <3> QED BY <1>23, <3>1, <3>2 DEF NotifyAccepted
    <2>4. completions' \in Seq(Slots)
      <3>1. completions \in Seq(Slots) BY DEF Shapes
      <3>2. completions' = completions \/ completions' = Append(completions, selected)
        BY <1>23 DEF NotifyAccepted
      <3> QED BY <2>1, <3>1, <3>2, AppendProperties
    <2>5. stack' \in Seq(Slots)
      <3>1. stack \in Seq(Slots) /\ stack' = Append(stack, selected)
        BY <1>23 DEF NotifyAccepted, Shapes
      <3> QED BY <2>1, <3>1, AppendProperties
    <2>6. wire' \in Seq(Frames)
      <3>1. wire \in Seq(Frames) /\ (wire' = wire \/ wire' = Append(wire, slot.frame))
        BY <1>23 DEF NotifyAccepted, Shapes, WireWith
      <3> QED BY <2>2, <3>1, AppendProperties
    <2>7. ready' \in Seq(Slots)
      <3>1. ready \in Seq(Slots) /\ ready' = Less(ready, {selected})
        BY <1>23 DEF NotifyAccepted, Shapes
      <3> QED BY <3>1, LessKeeps
    <2>8. NoteFrame(slot.frame) \/ UNCHANGED << sending, spool, endWait, abortAccepted, startSent >>
      BY <1>23 DEF NotifyAccepted
    <2>9. /\ startSent' \in BOOLEAN /\ endWait' \in BOOLEAN /\ abortAccepted' \in BOOLEAN
          /\ committed' = committed
      BY <2>8 DEF NoteFrame, Shapes
    <2>10. tx' \in [n : 0 .. Records, sent : 0 .. Fragments, staged : 0 .. Fragments]
      <3>1. CASE UNCHANGED tx BY <3>1 DEF Shapes
      <3>2. CASE tx' = NoTx BY <3>2, FailureShapes
      <3>3. CASE /\ tx' = [tx EXCEPT !.sent = @ + 1] /\ slot.frame.kind = "record"
                 /\ ~LastOfRecord(slot.frame) /\ ~QueueError(slot.frame)
        <4>1. tx.sent = slot.frame.f - 1 /\ slot.frame.f # Fragments /\ slot.frame.f \in 0 .. Fragments
          BY <2>2, <3>3 DEF QueueError, LastOfRecord, FitsTx, Frames
        <4>2. tx.sent \in 0 .. Fragments /\ Fragments \in Nat BY StreamAssumption DEF Shapes
        <4>3. tx.sent + 1 \in 0 .. Fragments BY ONLY <4>1, <4>2
        <4> QED BY <3>3, <4>3 DEF Shapes
      <3>4. tx' = tx \/ tx' = NoTx \/ (/\ tx' = [tx EXCEPT !.sent = @ + 1] /\ slot.frame.kind = "record"
                 /\ ~LastOfRecord(slot.frame) /\ ~QueueError(slot.frame))
        BY <2>8 DEF NoteFrame
      <3> QED BY <3>1, <3>2, <3>3, <3>4
    <2>11. ackWait' \in Seq(0 .. Records)
      <3>1. \/ ackWait' = ackWait \/ ackWait' = Append(ackWait, 0)
            \/ ackWait' = Append(ackWait, slot.frame.n)
        BY <2>8 DEF NoteFrame
      <3>2. slot.frame.n \in 0 .. Records /\ ackWait \in Seq(0 .. Records)
        BY <2>2 DEF Frames, Shapes
      <3> QED BY <3>1, <3>2, AppendProperties
    <2>12. backlog' \in Seq(1 .. Records) /\ inFlight' \in Seq(1 .. Records)
      <3>1. \/ UNCHANGED << backlog, inFlight >>
            \/ /\ backlog # << >> /\ backlog' = Tail(backlog)
               /\ inFlight' = Append(inFlight, Head(backlog))
        BY <2>8 DEF NoteFrame, Log!SendOldest
      <3>2. backlog \in Seq(1 .. Records) /\ inFlight \in Seq(1 .. Records) BY DEF Shapes
      <3>3. backlog # << >> => /\ Tail(backlog) \in Seq(1 .. Records)
                              /\ Append(inFlight, Head(backlog)) \in Seq(1 .. Records)
        <4> SUFFICES ASSUME backlog # << >>
                     PROVE  /\ Tail(backlog) \in Seq(1 .. Records)
                            /\ Append(inFlight, Head(backlog)) \in Seq(1 .. Records)
          OBVIOUS
        <4>1. Head(backlog) \in 1 .. Records /\ Tail(backlog) \in Seq(1 .. Records)
          BY <3>2, HeadTailProperties
        <4> QED BY <3>2, <4>1, AppendProperties
      <3> QED BY <3>1, <3>2, <3>3
    <2>13. generation' \in Nat /\ stopReason' \in Reasons \cup {"none"} /\ app' \in Apps
      <3>1. AppFails("failure") \/ (app' = AppIdle /\ UNCHANGED << outcome, generation >>)
        BY <1>23 DEF NotifyAccepted
      <3> QED BY <3>1, FailureShapes DEF Shapes
    <2>14. /\ selected' = NoSlot
           /\ UNCHANGED << active, readyLatched, session, workspace, endReq, endAcked, abortReq,
                  discard, cleanupReady, linkDown, stager, capture, link, connected, sentBack >>
      BY <1>23 DEF NotifyAccepted
    <2> HIDE DEF slot, valid
    <2> QED BY <2>3, <2>4, <2>5, <2>6, <2>7, <2>9, <2>10, <2>11, <2>12, <2>13, <2>14 DEF Shapes
  <1>24. CASE NotifyRefused
    <2>1. ring' \in [Slots -> SlotRecords]
      BY <1>24, SlotValues DEF NotifyRefused, Shapes
    <2>2. ready' \in Seq(Slots)
      <3>1. ready \in Seq(Slots) /\ (ready' = ready \/ ready' = Less(ready, {selected}))
        BY <1>24 DEF NotifyRefused, Shapes
      <3> QED BY <3>1, LessKeeps
    <2>3. selected' = NoSlot /\ app' = AppIdle
          /\ UNCHANGED << opening, stopping, outcome, generation, linkDown, sending,
                  completions, spool, stager, capture, wire, external >>
      BY <1>24 DEF NotifyRefused
    <2> QED BY <2>1, <2>2, <2>3, FailureShapes DEF Shapes
  <1>25. CASE SendComplete
    <2>1. /\ UNCHANGED << link, connected, stack, wire, ready, selected, generation, linkDown,
                          stager, capture >>
          /\ sentBack # << >> /\ sentBack' = Tail(sentBack)
      BY <1>25 DEF SendComplete
    <2>2. sentBack' \in Seq(Slots) BY <2>1, HeadTailProperties DEF Shapes
    <2>3. ring' \in [Slots -> SlotRecords]
      <3>1. ring' = ring \/ ring' = [ring EXCEPT ![Head(completions)] = FreeSlot]
        BY <1>25 DEF SendComplete
      <3> QED BY <3>1, SlotValues DEF Shapes
    <2>4. completions' \in Seq(Slots)
      <3>1. completions' = completions \/ (completions # << >> /\ completions' = Tail(completions))
        BY <1>25 DEF SendComplete
      <3>2. completions \in Seq(Slots) BY DEF Shapes
      <3> QED BY <3>1, <3>2, HeadTailProperties
    <2>5. ready' \in Seq(Slots) BY <2>1 DEF Shapes
    <2>6. Finish(FALSE) \/ GoesOn BY <1>25 DEF SendComplete
    <2>7. CASE Finish(FALSE) BY <2>1, <2>2, <2>3, <2>4, <2>5, <2>7, FinishShapes
    <2>8. CASE GoesOn BY <2>1, <2>2, <2>3, <2>4, <2>8 DEF GoesOn, Shapes
    <2> QED BY <2>6, <2>7, <2>8
  <1>26. CASE SendCompleteFails
    <2>1. /\ sentBack # << >> /\ sentBack' = Tail(sentBack)
          /\ completions # << >> /\ completions' = Tail(completions)
          /\ ring' = [ring EXCEPT ![Head(completions)] = FreeSlot]
          /\ AppFails("failure")
          /\ UNCHANGED << opening, stopping, linkDown, sending, spool, ready, selected,
                  stager, capture, wire, link, connected, stack >>
      BY <1>26 DEF SendCompleteFails
    <2>2. sentBack' \in Seq(Slots) /\ completions' \in Seq(Slots)
      BY <2>1, HeadTailProperties DEF Shapes
    <2>3. ring' \in [Slots -> SlotRecords] /\ connected' \in BOOLEAN BY <2>1, SlotValues DEF Shapes
    <2> QED BY <1>14, <2>1, <2>2, <2>3
  <1>27. ASSUME NEW n \in 1 .. Records, RecordAck(n) PROVE Shapes'
    <2>0. n \in 0 .. Records BY StreamAssumption
    <2>1. app' \in Apps BY <1>27, <2>0 DEF RecordAck, AppIdle, Apps
    <2> QED BY <1>27, <2>1 DEF RecordAck, Shapes
  <1>39. CASE AckRetires
    <2>1. CASE AppFails("failure") /\ UNCHANGED << ackWait, spool >>
      BY <1>14, <1>39, <2>1 DEF AckRetires, Shapes
    <2>2. CASE /\ Log!AckOldest /\ app' = AppIdle /\ UNCHANGED << committed, generation, outcome >>
               /\ ackWait' = IF ackWait = << >> THEN << >> ELSE Tail(ackWait)
      <3>1. inFlight' = Tail(inFlight) /\ inFlight # << >> /\ backlog' = backlog
        BY <2>2 DEF Log!AckOldest
      <3>2. inFlight' \in Seq(1 .. Records) BY <3>1, HeadTailProperties DEF Shapes
      <3>3. ackWait' \in Seq(0 .. Records) BY <2>2, EmptySeq, HeadTailProperties DEF Shapes
      <3>4. UNCHANGED << opening, stopping, linkDown, tx, slots, stager, capture, wire, external >>
        BY <1>39 DEF AckRetires
      <3> QED BY <2>2, <3>1, <3>2, <3>3, <3>4, FailureShapes DEF Shapes
    <2> QED BY <1>39, <2>1, <2>2 DEF AckRetires
  <1>28. CASE EndAck
    <2>1. CASE Finish(FALSE)
      BY <1>28, <2>1, FinishShapes DEF EndAck, Shapes
    <2>2. CASE ~Finish(FALSE)
      <3>1. ackWait' \in Seq(0 .. Records) BY <1>28, <2>2, EmptySeq DEF EndAck
      <3>2. /\ endWait' \in BOOLEAN /\ endAcked' \in BOOLEAN
            /\ UNCHANGED << opening, endReq, aborting, cleanupReady, outcome, tx, spool, app >>
            /\ UNCHANGED << generation, linkDown, slots, stager, capture, wire, external >>
        BY <1>28, <2>2 DEF EndAck
      <3> QED BY <3>1, <3>2 DEF Shapes
    <2> QED BY <2>1, <2>2
  <1>29. CASE AckTimeout
    <2>1. CASE AppFails("failure") /\ UNCHANGED << ending, ackWait >>
      BY <1>14, <1>29, <2>1 DEF AckTimeout, Shapes
    <2>2. CASE endWait' = FALSE /\ ackWait' = << >>
               /\ UNCHANGED << endReq, endAcked, outcome, generation, app >>
      <3>1. endWait' \in BOOLEAN /\ ackWait' \in Seq(0 .. Records) BY <2>2, EmptySeq
      <3>2. UNCHANGED << opening, aborting, cleanupReady, linkDown, tx, slots, spool,
                         stager, capture, wire, external >>
        BY <1>29 DEF AckTimeout
      <3> QED BY <2>2, <3>1, <3>2 DEF Shapes
    <2> QED BY <1>29, <2>1, <2>2 DEF AckTimeout
  <1>30. CASE AbortOverLink BY <1>30, FinishShapes DEF AbortOverLink, Shapes
  <1>31. CASE AbortTimeout
    <2>1. ring' \in [Slots -> SlotRecords] BY <1>31, SlotValues DEF AbortTimeout, Shapes
    <2>2. ready' \in Seq(Slots)
      <3>1. ready \in Seq(Slots) /\ ready' = Less(ready, UnsentTerminal)
        BY <1>31 DEF AbortTimeout, Shapes
      <3> QED BY <3>1, LessKeeps
    <2>3. UNCHANGED << generation, linkDown, selected, completions, stager, capture, wire, external >>
          /\ (Finish(TRUE) \/ GoesOn)
      BY <1>31 DEF AbortTimeout
    <2>4. completions' \in Seq(Slots) /\ sentBack' \in Seq(Slots) BY <2>3 DEF Shapes
    <2>5. CASE Finish(TRUE) BY <2>1, <2>2, <2>3, <2>4, <2>5, FinishShapes
    <2>6. CASE GoesOn BY <2>1, <2>2, <2>3, <2>6 DEF GoesOn, Shapes
    <2> QED BY <2>3, <2>5, <2>6
  <1>32. CASE TransportUnavailable
    <2>1. CASE active BY <1>14, <1>32, <2>1 DEF TransportUnavailable, Shapes
    <2>2. CASE ~active
      <3>1. /\ readyLatched' \in BOOLEAN
            /\ UNCHANGED << active, startSent, session, workspace, outcome, generation, app >>
            /\ UNCHANGED << stopping, linkDown, sending, slots, spool, stager, capture, wire,
                            external >>
        BY <1>32, <2>2 DEF TransportUnavailable
      <3> QED BY <3>1 DEF Shapes
    <2> QED BY <2>1, <2>2
  <1>33. CASE HandleDisconnect
    <2>1. CASE active
      BY <1>14, <1>33, <2>1 DEF HandleDisconnect, Shapes
    <2>2. CASE ~active
      <3>1. /\ readyLatched' \in BOOLEAN /\ connected' \in BOOLEAN
            /\ UNCHANGED << active, startSent, session, workspace, outcome, generation, app >>
            /\ UNCHANGED << stopping, linkDown, sending, slots, spool, stager, capture, wire,
                            link, stack, sentBack >>
        BY <1>33, <2>2 DEF HandleDisconnect
      <3> QED BY <3>1 DEF Shapes
    <2> QED BY <2>1, <2>2
  <1>34. CASE StackSends
    <2>1. stack # << >> /\ stack' = Tail(stack) /\ sentBack' = Append(sentBack, Head(stack))
      BY <1>34 DEF StackSends
    <2>2. stack' \in Seq(Slots) /\ Head(stack) \in Slots BY <2>1, HeadTailProperties DEF Shapes
    <2>3. sentBack' \in Seq(Slots) BY <2>1, <2>2, AppendProperties DEF Shapes
    <2> QED BY <1>34, <2>2, <2>3 DEF StackSends, Shapes
  <1>35. CASE LinkDrop BY <1>35, EmptySeq DEF LinkDrop, Shapes
  <1>36. CASE Reconnect BY <1>36 DEF Reconnect, Shapes
  <1>37. CASE UNCHANGED vars BY <1>37 DEF vars, Shapes
  <1> QED BY <1>3, <1>4, <1>5, <1>6, <1>7, <1>8, <1>9, <1>10, <1>11, <1>12, <1>13, <1>15, <1>16,
             <1>17, <1>18, <1>19, <1>20, <1>21, <1>22, <1>23, <1>24, <1>25, <1>26, <1>27, <1>28,
             <1>29, <1>30, <1>31, <1>32, <1>33, <1>34, <1>35, <1>36, <1>37, <1>38, <1>39
      DEF StreamNext

\* The parts of the control that a step of the stager alone may change.
LEMMA ControlOfStager ==
  ASSUME ControlLayer, UNCHANGED << selected, completions, capture, app >>,
         UNCHANGED << opening, stopping, outcome, generation, ackWait >>,
         tx' = tx \/ active,
         \A s \in Slots : ring'[s].state = "FREE" \/ ring'[s] = ring[s] \/ active,
         stager' = NoStage \/ (capturing \/ app.pc = "idle"),
         stager'.pc = "reading" => stager'.slot \in Slots /\ stager'.n # 0 /\ stager'.f # 0
  PROVE  ControlInv' /\ GenerationInv'
  <1>1. ControlInv /\ GenerationInv /\ Shapes BY DEF ControlLayer
  <1>2. ~active' => AtRest' BY <1>1 DEF ControlInv, AtRest, ReuseSafe
  <1>3. ~capturing' => app'.pc = "idle" \/ stager'.pc = "idle"
    BY <1>1 DEF ControlInv, NoStage
  <1> QED BY <1>1, <1>2, <1>3 DEF ControlInv, GenerationInv

LEMMA AdvancedBound ==
  ASSUME ControlLayer, active, generation' = Advanced, session' = session
  PROVE  /\ generation' <= 3 * session'
         /\ ~abortReq /\ app.pc # "failing" => generation' <= 3 * session' - 1
  BY DEF ControlLayer, GenerationInv, Advanced, Shapes

LEMMA ControlFailsAtOnce ==
  ASSUME ControlLayer, active, NEW latched, FailsAtOnce(latched), capturing \/ stager.pc # "idle",
         UNCHANGED << selected, completions, capture, app >>,
         stager' = NoStage \/ UNCHANGED stager
  PROVE  ControlInv' /\ GenerationInv'
  <1>1. ControlInv /\ GenerationInv /\ Shapes BY DEF ControlLayer
  <1>2. GenerationInv' BY <1>1, AdvancedBound DEF FailsAtOnce, AbortFlags, GenerationInv
  <1>3. stopReason' \notin {"none", "host_stop"}
    BY DEF FailsAtOnce, ReasonOnFailure
  <1>6. app.pc \in Testing => ~cleanupReady BY <1>1 DEF ControlInv, Testing
  <1>4. ~capturing' => app'.pc = "idle" \/ stager'.pc = "idle"
    BY <1>1 DEF ControlInv, NoStage
  <1>5. stager'.pc = "reading" => stager'.slot \in Slots /\ stager'.n # 0 /\ stager'.f # 0
    BY <1>1 DEF ControlInv, NoStage
  <1> QED BY <1>1, <1>2, <1>3, <1>4, <1>5, <1>6 DEF ControlInv, FailsAtOnce, AbortFlags

LEMMA ControlAppFails ==
  ASSUME ControlLayer, active, NEW what \in {"abort", "failure", "transport", "disconnect"},
         AppFails(what), app.pc \in {"idle", "selected", "acking"}, selected' = NoSlot,
         Len(completions') <= SlotCount, capturing \/ stager.pc = "idle",
         UNCHANGED << active, workspace, session, endReq, abortReq, cleanupReady, stager, capture >>
  PROVE  ControlInv' /\ GenerationInv'
  <1>1. ControlInv /\ GenerationInv /\ Shapes BY DEF ControlLayer
  <1>2. app' = [AppIdle EXCEPT !.pc = "failing", !.what = what] BY DEF AppFails
  <1>3. app'.pc = "failing" /\ app'.what = what BY <1>2 DEF AppIdle
  <1>4. generation' <= 3 * session' /\ (~abortReq => generation' <= 3 * session' - 1)
    BY AdvancedBound DEF AppFails, ControlLayer
  <1>5. GenerationInv' BY <1>3, <1>4 DEF GenerationInv
  <1>6. stopReason' \notin {"none", "host_stop"} BY DEF AppFails, ReasonOnFailure
  <1> QED BY <1>1, <1>3, <1>5, <1>6 DEF ControlInv, Testing, Storing

LEMMA ControlFinish ==
  ASSUME ControlLayer, NEW timeout, Finish(timeout), AppMayRun, selected' = NoSlot, ReuseSafe',
         UNCHANGED << generation, stager, capture >>
  PROVE  ControlInv' /\ GenerationInv'
  <1>1. ControlInv /\ GenerationInv /\ Shapes BY DEF ControlLayer
  <1>2. app'.pc = "idle" BY DEF Finish, AppMayRun
  <1>3. completions' = << >> BY DEF ReuseSafe
  <1>4. Len(completions') <= SlotCount BY <1>3, StreamAssumption
  <1>5. AtRest' /\ ~active' BY <1>2 DEF AtRest, Finish
  <1>6. GenerationInv' BY <1>1, <1>5 DEF GenerationInv, Finish
  <1>7. stager'.pc = "reading" => stager'.slot \in Slots /\ stager'.n # 0 /\ stager'.f # 0
    BY <1>1 DEF ControlInv
  <1> QED BY <1>2, <1>4, <1>5, <1>6, <1>7 DEF ControlInv, AtRest, Testing, Storing

LEMMA TailShorter ==
  ASSUME NEW X, NEW q \in Seq(X), q # << >>
  PROVE  Tail(q) \in Seq(X) /\ Len(q) \in Nat /\ Len(Tail(q)) = Len(q) - 1
  BY HeadTailProperties, LenProperties

LEMMA ControlInit == StreamInit => ControlInv /\ GenerationInv
  <1> SUFFICES ASSUME StreamInit PROVE ControlInv /\ GenerationInv OBVIOUS
  <1>1. /\ app.pc = "idle" /\ stager.pc = "idle" /\ Len(completions) <= SlotCount
        /\ \A s \in Slots : ring[s].state = "FREE"
    BY StreamAssumption DEF StreamInit, AppIdle, NoStage, FreeSlot
  <1> QED BY <1>1 DEF StreamInit, ControlInv, GenerationInv, AtRest, ReuseSafe, NoSlot, Testing, Storing

LEMMA ControlStep ==
  ASSUME ControlLayer, [StreamNext]_vars
  PROVE  ControlInv' /\ GenerationInv'
  <1> USE DEF Testing, Storing
  <1>1. ControlInv /\ GenerationInv /\ Shapes BY DEF ControlLayer
  <1>2. CASE StageGate
    <2>1. stager'.pc # "reading" BY <1>2 DEF StageGate, NoStage
    <2> QED BY <1>2, <2>1, ControlOfStager DEF StageGate, StagerMayRun
  <1>3. CASE StagePeekFails
    <2>1. CASE active BY <1>3, <2>1, ControlFailsAtOnce DEF StagePeekFails
    <2>2. CASE ~active
      <3>1. stager'.pc # "reading" BY <1>3 DEF StagePeekFails, NoStage
      <3> QED BY <1>3, <2>2, <3>1, ControlOfStager DEF StagePeekFails
    <2> QED BY <2>1, <2>2
  <1>4. CASE StageTake
    <2> DEFINE now == IF tx.n # 0 THEN tx ELSE [NoTx EXCEPT !.n = stager.n]
    <2>1. CASE stager' = NoStage /\ UNCHANGED ring
      <3>1. tx' = tx \/ active BY <1>4 DEF StageTake, StagingAllowed
      <3>2. stager'.pc # "reading" BY <2>1 DEF NoStage
      <3> QED BY <1>4, <2>1, <3>1, <3>2, ControlOfStager DEF StageTake
    <2>2. CASE ~(stager' = NoStage /\ UNCHANGED ring)
      <3>1. /\ active /\ FreeSlots # {} /\ now.n # 0
            /\ stager' = [pc |-> "reading", n |-> now.n, f |-> now.staged + 1,
                          gen |-> generation, slot |-> FirstFree]
        BY <1>4, <2>2 DEF StageTake, StagingAllowed
      <3>2. now.staged + 1 # 0
        <4>1. tx.staged \in Nat BY <1>1, StreamAssumption DEF Shapes
        <4>2. now.staged \in Nat BY <4>1 DEF NoTx
        <4> HIDE DEF now
        <4> QED BY ONLY <4>2
      <3>3. FirstFree \in Slots BY <3>1, FirstFreeIsFree
      <3>4. capturing \/ app.pc = "idle" BY <1>1, <1>4 DEF StageTake, ControlInv
      <3> QED BY <1>4, <3>1, <3>2, <3>3, <3>4, ControlOfStager DEF StageTake
    <2> QED BY <2>1, <2>2
  <1>5. CASE StagePublish
    <2>1. stager' = NoStage /\ stager'.pc # "reading" BY <1>5 DEF StagePublish, NoStage
    <2>2. tx' = tx \/ active BY <1>5 DEF StagePublish, Publishes
    <2>3. \A s \in Slots : ring'[s].state = "FREE" \/ ring'[s] = ring[s] \/ active
      BY <1>1, <1>5 DEF StagePublish, Publish, Publishes, ReleaseBuilder, Shapes, FreeSlot
    <2> QED BY <1>5, <2>1, <2>2, <2>3, ControlOfStager DEF StagePublish
  <1>6. CASE StageReadBusy
    <2>1. stager' = NoStage /\ stager'.pc # "reading" BY <1>6 DEF StageReadBusy, NoStage
    <2>2. \A s \in Slots : ring'[s].state = "FREE" \/ ring'[s] = ring[s]
      BY <1>1, <1>6 DEF StageReadBusy, ReleaseBuilder, Shapes, FreeSlot
    <2> QED BY <1>6, <2>1, <2>2, ControlOfStager DEF StageReadBusy
  <1>7. CASE StageReadFails
    <2>1. CASE active BY <1>7, <2>1, ControlFailsAtOnce DEF StageReadFails
    <2>2. CASE ~active
      <3>1. stager' = NoStage /\ stager'.pc # "reading" BY <1>7 DEF StageReadFails, NoStage
      <3>2. \A s \in Slots : ring'[s].state = "FREE" \/ ring'[s] = ring[s]
        BY <1>1, <1>7, <2>2 DEF StageReadFails, ReleaseBuilder, Shapes, FreeSlot
      <3> QED BY <1>7, <2>2, <3>1, <3>2, ControlOfStager DEF StageReadFails
    <2> QED BY <2>1, <2>2
  <1>8. CASE Commit BY <1>1, <1>8 DEF Commit, ControlInv, GenerationInv, AtRest, ReuseSafe
  <1>9. CASE CaptureAborts BY <1>9, ControlFailsAtOnce DEF CaptureAborts
  <1>10. CASE CaptureDone
    BY <1>1, <1>10 DEF CaptureDone, ControlInv, GenerationInv, AtRest, ReuseSafe
  <1>11. CASE HandleReady
    BY <1>1, <1>11 DEF HandleReady, ControlInv, GenerationInv, AtRest, ReuseSafe
  <1>12. CASE Begin
    <2>1. app'.pc = "idle" /\ stager' = stager /\ completions' = << >> BY <1>12 DEF Begin, AppMayRun
    <2>2. Len(completions') <= SlotCount BY <2>1, StreamAssumption
    <2>3. GenerationInv' BY <1>1, <1>12 DEF Begin, GenerationInv, Shapes
    <2> QED BY <1>1, <1>12, <2>1, <2>2, <2>3 DEF Begin, ControlInv
  <1>13. ASSUME NEW reason \in {"host_stop", "low_battery"}, RequestStop(reason)
         PROVE  ControlInv' /\ GenerationInv'
    <2>1. app.pc = "idle" /\ app'.pc = "asked" /\ app'.what = reason
      BY <1>13 DEF RequestStop, AppMayRun, AppIdle
    <2>2. active /\ ~abortReq /\ (capturing \/ stager.pc = "idle")
      BY <1>13 DEF RequestStop, AppMayRun
    <2>3. UNCHANGED << opening, stopping, generation, stopReason, slots, stager, capture >>
      BY <1>13 DEF RequestStop
    <2> QED BY <1>1, <2>1, <2>2, <2>3 DEF ControlInv, GenerationInv, Testing, Storing
  <1>36. CASE StopGoesOn
    <2>1. /\ app.pc \in Testing \cup Storing
          /\ UNCHANGED << opening, endWait, abortReq, generation, slots, stager, capturing >>
      BY <1>36 DEF StopGoesOn, StopChecksBattery, StopOverrides, StopChecksEnd, StopNames,
                   StopRequestsEnd, StopClears, Testing, Storing
    <2>2. active /\ app.what \in {"host_stop", "low_battery"}
      BY <1>1, <2>1 DEF ControlInv, AtRest, Testing, Storing
    <2>3. CASE StopChecksBattery \/ StopOverrides
      <3>1. /\ app'.pc \in {"overriding", "noted"} /\ app'.what = app.what /\ app.pc \in Testing
            /\ UNCHANGED << stopping, overtaken >>
            /\ stopReason' = stopReason \/ stopReason' = "low_battery"
        BY <1>1, <2>3 DEF StopChecksBattery, StopOverrides, Shapes, Apps
      <3> QED BY <1>1, <2>1, <2>2, <3>1 DEF ControlInv, GenerationInv
    <2>4. CASE StopChecksEnd
      <3>1. \/ app'.pc = "idle"
            \/ app'.pc \in {"naming", "ending"} /\ app'.what = app.what /\ ~endReq
        BY <1>1, <2>4 DEF StopChecksEnd, AppIdle, Shapes, Apps
      <3>2. app.pc = "noted" /\ UNCHANGED << stopping, outcome, overtaken >>
        BY <2>4 DEF StopChecksEnd
      <3> QED BY <1>1, <2>1, <2>2, <3>1, <3>2 DEF ControlInv, GenerationInv
    <2>5. CASE StopNames
      <3>1. app.pc = "naming" /\ app'.pc = "ending" /\ app'.what = app.what
        BY <1>1, <2>5 DEF StopNames, Shapes, Apps
      <3>2. stopReason' = app.what /\ (abortReq => overtaken') /\ UNCHANGED stopping
        BY <2>5 DEF StopNames
      <3> QED BY <1>1, <2>1, <2>2, <3>1, <3>2 DEF ControlInv, GenerationInv
    <2>6. CASE StopRequestsEnd
      <3>1. app.pc = "ending" /\ app'.pc = "clearing" /\ app'.what = app.what
        BY <1>1, <2>6 DEF StopRequestsEnd, Shapes, Apps
      <3>2. UNCHANGED << cleanupReady, outcome, overtaken >> BY <2>6 DEF StopRequestsEnd
      <3> QED BY <1>1, <2>1, <2>2, <3>1, <3>2 DEF ControlInv, GenerationInv
    <2>7. CASE StopClears
      <3>1. app'.pc = "idle" /\ ~cleanupReady' /\ app.pc = "clearing" /\ UNCHANGED << outcome, overtaken >>
        BY <2>7 DEF StopClears, AppIdle
      <3> QED BY <1>1, <2>1, <2>2, <3>1 DEF ControlInv, GenerationInv
    <2> QED BY <1>36, <2>3, <2>4, <2>5, <2>6, <2>7 DEF StopGoesOn
  <1>14. CASE AppAborts BY <1>1, <1>14, ControlAppFails DEF AppAborts, AppMayRun, ControlInv
  <1>15. CASE FailFlags
    <2>1. app'.pc = "cancelling" /\ app'.what = app.what /\ app.pc = "failing" BY <1>1, <1>15 DEF FailFlags, Shapes, Apps
    <2>2. active BY <1>1, <2>1 DEF ControlInv, AtRest
    <2> QED BY <1>1, <1>15, <2>1, <2>2 DEF FailFlags, AbortFlags, ControlInv, GenerationInv
  <1>16. CASE FailCancels
    <2>1. app'.pc = "idle" /\ app.pc = "cancelling" BY <1>16 DEF FailCancels, AppIdle
    <2>2. active /\ selected = NoSlot /\ selected' = NoSlot
      BY <1>1, <1>16, <2>1 DEF FailCancels, ControlInv, AtRest
    <2>3. Len(completions') <= SlotCount
      BY <1>1, <1>16, StreamAssumption DEF FailCancels, CompletionsAfterTeardown, ControlInv
    <2>4. UNCHANGED << opening, stopping, outcome, generation, sending, spool, stager, capture >>
      BY <1>16 DEF FailCancels
    <2> QED BY <1>1, <2>1, <2>2, <2>3, <2>4 DEF ControlInv, GenerationInv
  <1>17. CASE CleanupReady
    <2>1. active BY <1>1, <1>17 DEF CleanupReady, ControlInv, AtRest
    <2> QED BY <1>1, <1>17, <2>1 DEF CleanupReady, AppMayRun, ControlInv, GenerationInv
  <1>18. CASE SelectReady
    <2>1. app'.pc = "selected" BY <1>18 DEF SelectReady, AppIdle
    <2>2. selected' \in Slots BY <1>1, <1>18, HeadTailProperties DEF SelectReady, Shapes
    <2>3. selected' # NoSlot BY <2>2, StreamAssumption DEF Slots, NoSlot
    <2> QED BY <1>1, <1>18, <2>1, <2>3
           DEF SelectReady, MaySend, AppMayRun, ControlInv, GenerationInv
  <1>19. CASE DecideFrame
    <2>1. FrameDue \subseteq {"start", "end", "abort", "stress"} BY DEF FrameDue
    <2>2. app'.pc = "claim" /\ app'.what \in {"start", "end", "abort", "stress"}
      BY <1>19, <2>1 DEF DecideFrame, AppIdle
    <2> QED BY <1>1, <1>19, <2>2
           DEF DecideFrame, MaySend, AppMayRun, ControlInv, GenerationInv
  <1>20. CASE EndCannotClose
    BY <1>1, <1>20, ControlAppFails DEF EndCannotClose, MaySend, AppMayRun, ControlInv
  <1>21. CASE ClaimFrame
    <2>1. active BY <1>1, <1>21 DEF ClaimFrame, ControlInv, AtRest
    <2>2. CASE FreeSlots = {}
      BY <1>1, <1>21, <2>1, <2>2 DEF ClaimFrame, ControlInv, GenerationInv, AppIdle
    <2>3. CASE FreeSlots # {}
      <3>1. app'.pc = "publish" /\ app'.what = app.what /\ app'.slot = FirstFree
        BY <1>1, <1>21, <2>3 DEF ClaimFrame, Shapes, Apps
      <3>2. FirstFree \in Slots BY <2>3, FirstFreeIsFree
      <3> QED BY <1>1, <1>21, <2>1, <3>1, <3>2 DEF ClaimFrame, ControlInv, GenerationInv
    <2> QED BY <2>2, <2>3
  <1>22. CASE PublishFrame
    <2>1. active BY <1>1, <1>22 DEF PublishFrame, ControlInv, AtRest
    <2>2. CASE app' = AppIdle /\ UNCHANGED selected
      BY <1>1, <1>22, <2>1, <2>2 DEF PublishFrame, ControlInv, GenerationInv, AppIdle
    <2>3. CASE app' = [AppIdle EXCEPT !.pc = "selected"] /\ selected' = Head(ready') /\ Publishes(app.slot)
      <3>1. ready' = Append(ready, app.slot) /\ ready \in Seq(Slots) /\ app.slot \in Slots
        BY <1>1, <1>22, <2>3 DEF PublishFrame, Publish, Shapes, ControlInv
      <3>2. ready' \in Seq(Slots) /\ ready' # << >> BY <3>1, AppendProperties
      <3>3. selected' \in Slots BY <2>3, <3>2, HeadTailProperties
      <3>4. selected' # NoSlot /\ app'.pc = "selected"
        BY <2>3, <3>3, StreamAssumption DEF Slots, NoSlot, AppIdle
      <3> QED BY <1>1, <1>22, <2>1, <3>4 DEF PublishFrame, ControlInv, GenerationInv
    <2> QED BY <1>22, <2>2, <2>3 DEF PublishFrame
  <1>23. CASE NotifyAccepted
    <2>1. active /\ app.pc = "selected" BY <1>1, <1>23 DEF NotifyAccepted, ControlInv, AtRest
    <2>2. Len(completions') <= SlotCount
      <3>1. completions \in Seq(Slots) /\ selected \in Slots /\ Len(completions) < SlotCount
        BY <1>1, <2>1 DEF ControlInv, Shapes, NoSlot
      <3>2. completions' = completions \/ completions' = Append(completions, selected)
        BY <1>23 DEF NotifyAccepted
      <3>3. Len(Append(completions, selected)) = Len(completions) + 1 /\ Len(completions) \in Nat
        BY <3>1, AppendProperties
      <3> QED BY <3>1, <3>2, <3>3, StreamAssumption
    <2>3. capturing \/ stager.pc = "idle" BY <1>1, <2>1 DEF ControlInv
    <2>4. /\ selected' = NoSlot
          /\ UNCHANGED << active, workspace, session, endReq, abortReq, cleanupReady, stager, capture >>
      BY <1>23 DEF NotifyAccepted
    <2>5. CASE AppFails("failure") BY <2>1, <2>2, <2>3, <2>4, <2>5, ControlAppFails
    <2>6. CASE app' = AppIdle /\ UNCHANGED << outcome, generation >>
      <3>1. app'.pc = "idle" BY <2>6 DEF AppIdle
      <3> QED BY <1>1, <2>1, <2>2, <2>4, <2>6, <3>1 DEF ControlInv, GenerationInv
    <2> QED BY <1>23, <2>5, <2>6 DEF NotifyAccepted
  <1>24. CASE NotifyRefused
    <2>1. active /\ app'.pc = "idle" BY <1>1, <1>24 DEF NotifyRefused, ControlInv, AtRest, AppIdle
    <2> QED BY <1>1, <1>24, <2>1 DEF NotifyRefused, ControlInv, GenerationInv
  <1>25. CASE SendComplete
    <2>1. AppMayRun /\ UNCHANGED << selected, generation, stager, capture >>
      BY <1>25 DEF SendComplete
    <2>2. selected = NoSlot BY <1>1, <2>1 DEF AppMayRun, ControlInv
    <2>3. CASE GoesOn /\ UNCHANGED << ring, completions >>
      BY <1>1, <2>1, <2>3 DEF GoesOn, ControlInv, GenerationInv, AtRest, ReuseSafe
    <2>4. CASE ~(GoesOn /\ UNCHANGED << ring, completions >>)
      <3>1. active /\ completions # << >> /\ completions' = Tail(completions)
        BY <1>25, <2>4 DEF SendComplete
      <3>2. Len(completions') <= SlotCount
        <4>1. completions \in Seq(Slots) /\ Len(completions) <= SlotCount
          BY <1>1 DEF ControlInv, Shapes
        <4> QED BY <3>1, <4>1, TailShorter, StreamAssumption
      <3>3. CASE Finish(FALSE) /\ ReuseSafe' BY <2>1, <2>2, <3>3, ControlFinish
      <3>4. CASE GoesOn
        BY <1>1, <2>1, <2>2, <3>1, <3>2, <3>4 DEF GoesOn, ControlInv, GenerationInv, AppMayRun
      <3> QED BY <1>25, <2>4, <3>3, <3>4 DEF SendComplete
    <2> QED BY <2>3, <2>4
  <1>26. CASE SendCompleteFails
    <2>1. completions # << >> /\ completions' = Tail(completions) BY <1>26 DEF SendCompleteFails
    <2>2. completions \in Seq(Slots) /\ Len(completions) <= SlotCount BY <1>1 DEF ControlInv, Shapes
    <2>3. Len(completions') <= SlotCount BY <2>1, <2>2, TailShorter, StreamAssumption
    <2> QED BY <1>1, <1>26, <2>3, ControlAppFails DEF SendCompleteFails, AppMayRun, ControlInv
  <1>27. ASSUME NEW n \in 1 .. Records, RecordAck(n) PROVE ControlInv' /\ GenerationInv'
    <2>1. app.pc = "idle" /\ app'.pc = "acking" /\ active /\ (capturing \/ stager.pc = "idle")
      BY <1>27 DEF RecordAck, AppMayRun, AppIdle
    <2>2. UNCHANGED << opening, stopping, generation, stopReason, slots, stager, capture >>
      BY <1>27 DEF RecordAck
    <2> QED BY <1>1, <2>1, <2>2 DEF ControlInv, GenerationInv, Testing, Storing
  <1>37. CASE AckRetires
    <2>1. app.pc = "acking" /\ active /\ selected = NoSlot /\ (capturing \/ stager.pc = "idle")
      BY <1>1, <1>37 DEF AckRetires, ControlInv, AtRest
    <2>2. UNCHANGED << opening, stopping, slots, stager, capture >> BY <1>37 DEF AckRetires
    <2>3. CASE AppFails("failure") BY <1>1, <2>1, <2>2, <2>3, ControlAppFails DEF ControlInv
    <2>4. CASE app' = AppIdle /\ UNCHANGED << generation, outcome >>
      <3>1. app'.pc = "idle" BY <2>4 DEF AppIdle
      <3> QED BY <1>1, <2>1, <2>2, <2>4, <3>1 DEF ControlInv, GenerationInv, Testing, Storing
    <2> QED BY <1>37, <2>3, <2>4 DEF AckRetires
  <1>28. CASE EndAck
    <2>1. selected = NoSlot BY <1>1, <1>28 DEF EndAck, AppMayRun, ControlInv
    <2>2. CASE Finish(FALSE) /\ ReuseSafe
      <3>1. ReuseSafe' BY <1>28, <2>2 DEF EndAck, ReuseSafe
      <3> QED BY <1>28, <2>1, <2>2, <3>1, ControlFinish DEF EndAck
    <2>3. CASE UNCHANGED << opening, endReq, aborting, cleanupReady, outcome, tx, spool, app >>
      BY <1>1, <1>28, <2>3 DEF EndAck, ControlInv, GenerationInv
    <2> QED BY <1>28, <2>2, <2>3 DEF EndAck
  <1>29. CASE AckTimeout
    <2>1. CASE AppFails("failure")
      BY <1>1, <1>29, <2>1, ControlAppFails DEF AckTimeout, AppMayRun, ControlInv
    <2>2. CASE UNCHANGED << endReq, endAcked, outcome, generation, app >>
      BY <1>1, <1>29, <2>2 DEF AckTimeout, ControlInv, GenerationInv
    <2> QED BY <1>29, <2>1, <2>2 DEF AckTimeout
  <1>30. CASE TxStall BY <1>1, <1>30, ControlAppFails DEF TxStall, AppMayRun, ControlInv
  <1>31. CASE AbortOverLink
    <2>1. ReuseSafe' /\ selected' = NoSlot BY <1>31 DEF AbortOverLink, ReuseSafe
    <2> QED BY <1>31, <2>1, ControlFinish DEF AbortOverLink
  <1>32. CASE AbortTimeout
    <2>1. active /\ selected' = NoSlot
      BY <1>1, <1>32 DEF AbortTimeout, AppMayRun, ControlInv, AtRest
    <2>2. CASE Finish(TRUE) /\ ReuseSafe'
      BY <1>32, <2>1, <2>2, ControlFinish DEF AbortTimeout
    <2>3. CASE GoesOn
      BY <1>1, <1>32, <2>1, <2>3 DEF AbortTimeout, GoesOn, ControlInv, GenerationInv
    <2> QED BY <1>32, <2>2, <2>3 DEF AbortTimeout
  <1>33. CASE TransportUnavailable
    <2>1. CASE active
      BY <1>1, <1>33, <2>1, ControlAppFails DEF TransportUnavailable, AppMayRun, ControlInv
    <2>2. CASE ~active
      BY <1>1, <1>33, <2>2
         DEF TransportUnavailable, ControlInv, GenerationInv, AtRest, ReuseSafe
    <2> QED BY <2>1, <2>2
  <1>34. CASE HandleDisconnect
    <2>1. CASE active
      BY <1>1, <1>34, <2>1, ControlAppFails DEF HandleDisconnect, AppMayRun, ControlInv
    <2>2. CASE ~active
      BY <1>1, <1>34, <2>2 DEF HandleDisconnect, ControlInv, GenerationInv, AtRest, ReuseSafe
    <2> QED BY <2>1, <2>2
  <1>35. CASE StackSends \/ LinkDrop \/ Reconnect \/ UNCHANGED vars
    BY <1>1, <1>35
       DEF StackSends, LinkDrop, Reconnect, vars, ControlInv, GenerationInv, AtRest, ReuseSafe
  <1> QED BY <1>2, <1>3, <1>4, <1>5, <1>6, <1>7, <1>8, <1>9, <1>10, <1>11, <1>12, <1>13, <1>14,
             <1>15, <1>16, <1>17, <1>18, <1>19, <1>20, <1>21, <1>22, <1>23, <1>24, <1>25, <1>26,
             <1>27, <1>28, <1>29, <1>30, <1>31, <1>32, <1>33, <1>34, <1>35, <1>36, <1>37
      DEF StreamNext

\* A step of a stop leads to its next one, or ends it.
LEMMA StopSteps ==
  ASSUME ControlLayer, StopGoesOn
  PROVE  app.pc \in Testing \cup Storing /\ app'.pc \in {"idle"} \cup Testing \cup Storing
  <1>1. app.pc \in Testing \cup Storing
    BY DEF StopGoesOn, StopChecksBattery, StopOverrides, StopChecksEnd, StopNames,
           StopRequestsEnd, StopClears, Testing, Storing
  <1>2. app' = AppIdle \/ \E pc \in Testing \cup Storing : app' = [app EXCEPT !.pc = pc]
    BY DEF StopGoesOn, StopChecksBattery, StopOverrides, StopChecksEnd, StopNames,
           StopRequestsEnd, StopClears, Testing, Storing
  <1>3. \A pc : [app EXCEPT !.pc = pc].pc = pc BY DEF ControlLayer, Shapes, Apps
  <1>4. CASE app' = AppIdle
    <2>1. app'.pc = "idle" BY <1>4 DEF AppIdle
    <2> QED BY <1>1, <2>1
  <1>5. CASE \E pc \in Testing \cup Storing : app' = [app EXCEPT !.pc = pc]
    <2>1. PICK pc \in Testing \cup Storing : app' = [app EXCEPT !.pc = pc] BY <1>5
    <2>2. app'.pc = pc BY <1>3, <2>1
    <2> QED BY <1>1, <2>1, <2>2
  <1> QED BY <1>2, <1>4, <1>5

LEMMA ControlHolds == StreamSpec => []ControlLayer
  <1>1. StreamInit => ControlLayer BY ShapesInit, ControlInit DEF ControlLayer
  <1>2. ControlLayer /\ [StreamNext]_vars => ControlLayer'
    BY ShapesStep, ControlStep DEF ControlLayer
  <1> QED BY <1>1, <1>2, PTL DEF StreamSpec

-----------------------------------------------------------------------------
(* The second layer: slots.                                                  *)

Buffers == SlotShapes /\ HoldersInv /\ QueuesInv

LEMMA HeadIsFirst ==
  ASSUME NEW X, NEW q \in Seq(X), q # << >>
  PROVE  /\ DOMAIN q = 1 .. Len(q) /\ Len(q) \in Nat \ {0} /\ 1 \in DOMAIN q
         /\ Head(q) = q[1] /\ q[1] \in X
  <1>1. DOMAIN q = 1 .. Len(q) /\ Len(q) \in Nat /\ Len(q) # 0 BY LenProperties, EmptySeq
  <1>2. Head(q) = q[1] BY HeadTailProperties
  <1> QED BY <1>1, <1>2, ElementOfSeq

LEMMA MembersOf ==
  ASSUME NEW X, NEW q \in Seq(X)
  PROVE  \A i \in DOMAIN q : q[i] \in X
  BY LenProperties, ElementOfSeq

\* No slot changes, and nobody takes or lets go of one he builds.
LEMMA BuffersStay ==
  ASSUME ControlLayer, ControlLayer', SlotLayer, UNCHANGED << ring, ready, completions >>,
         stager.pc = "reading" \/ stager'.pc = "reading" => stager' = stager,
         app.pc = "publish" \/ app'.pc = "publish" => app' = app,
         app'.pc = "selected" =>
           (app.pc = "selected" /\ selected' = selected) \/ (ready # << >> /\ selected' = Head(ready))
  PROVE  Buffers'
  <1>1. SlotShapes' BY DEF SlotLayer, SlotShapes, Stages, Publishing
  <1>2. QueuesInv' BY DEF SlotLayer, QueuesInv
  <1>3. app'.pc = "selected" =>
          /\ ring[selected'].state \in {"READY", "QUARANTINED"} /\ ~ring[selected'].pending
          /\ ring[selected'].state = "READY" => ready # << >> /\ Head(ready) = selected'
    <2>1. CASE app.pc = "selected" /\ selected' = selected BY <2>1 DEF SlotLayer, HoldersInv
    <2>2. CASE ready # << >> /\ selected' = Head(ready)
      <3>0. ready \in Seq(Slots) BY DEF ControlLayer, Shapes
      <3>1. 1 \in DOMAIN ready /\ Head(ready) = ready[1] /\ ready[1] \in Slots
        BY <2>2, <3>0, HeadIsFirst
      <3> QED BY <2>2, <3>1 DEF SlotLayer, QueuesInv, SlotShapes
    <2> QED BY <2>1, <2>2
  <1>4. ASSUME NEW s \in Slots, Holding(s), Stages(s) \/ Publishing(s) PROVE Holding(s)'
    <2>1. s # selected'
      <3>1. CASE app'.pc # "selected" BY <3>1, StreamAssumption DEF ControlLayer, ControlInv, Slots, NoSlot
      <3>2. CASE app'.pc = "selected" /\ app.pc = "selected" /\ selected' = selected
        BY <1>4, <3>2 DEF Holding
      <3>3. CASE ready # << >> /\ selected' = Head(ready)
        <4>0. ready \in Seq(Slots) BY DEF ControlLayer, Shapes
        <4>1. 1 \in DOMAIN ready /\ Head(ready) = ready[1] BY <3>3, <4>0, HeadIsFirst
        <4>2. ring[Head(ready)].state = "READY" BY <4>1 DEF SlotLayer, QueuesInv
        <4> QED BY <1>4, <3>3, <4>2 DEF Holding
      <3> QED BY <3>1, <3>2, <3>3
    <2> QED BY <1>4, <2>1 DEF Holding
  <1>5. HoldersInv'
    BY <1>3, <1>4 DEF SlotLayer, HoldersInv, ControlLayer, ControlInv, Stages, Publishing
  <1> QED BY <1>1, <1>2, <1>5 DEF Buffers

LEMMA LinkStays ==
  ASSUME SlotLayer, UNCHANGED << completions, link, stack, sentBack, connected >>,
         app'.pc \in {"failing", "cancelling"} /\ app'.what = "disconnect" => ~connected,
         ~connected => \/ completions = << >>
                       \/ app'.pc \in {"failing", "cancelling"} /\ app'.what = app.what
  PROVE  LinkInv'
  BY DEF SlotLayer, LinkInv

LEMMA GensStay ==
  ASSUME SlotLayer,
         Going' => Going /\ generation' = generation /\
           \A s \in Slots : \/ ring'[s].state = "FREE" \/ ring'[s] = ring[s]
                            \/ ring'[s].state # "QUARANTINED" /\ ring'[s].gen = generation
  PROVE  GensInv'
  BY DEF SlotLayer, GensInv

\* A free slot is taken, by the stager or by the App task.
LEMMA BuffersTaken ==
  ASSUME ControlLayer, ControlLayer', SlotLayer, FreeSlots # {}, NEW frame,
         ring' = [ring EXCEPT ![FirstFree] = Building(frame)],
         UNCHANGED << ready, selected, completions >>,
         \/ /\ stager.pc # "reading" /\ stager'.pc = "reading" /\ stager'.slot = FirstFree
            /\ app' = app
         \/ /\ app.pc = "claim" /\ app'.pc = "publish" /\ app'.slot = FirstFree
            /\ stager' = stager
  PROVE  Buffers'
  <1>1. PICK s \in Slots : s = FirstFree /\ ring[s].state = "FREE" BY FirstFreeIsFree
  <1>2. /\ \A t \in Slots : t # s => ring'[t] = ring[t]
        /\ ring'[s].state = "BUILDING" /\ ~ring'[s].pending
    BY <1>1 DEF ControlLayer, Shapes, Building
  <1>3. ~ring[s].pending BY <1>1 DEF SlotLayer, SlotShapes, FreeSlot
  <1>4. SlotShapes'
    <2>1. \A t \in Slots : ring'[t].state = "BUILDING" => Stages(t)' \/ Publishing(t)'
      BY <1>2 DEF SlotLayer, SlotShapes, Stages, Publishing
    <2> QED BY <1>1, <1>2, <2>1 DEF SlotLayer, SlotShapes
  <1>5. \A i \in DOMAIN ready : ready[i] \in Slots /\ ready[i] # s
    <2>1. ready \in Seq(Slots) BY DEF ControlLayer, Shapes
    <2>2. \A i \in DOMAIN ready : ready[i] \in Slots BY <2>1, MembersOf
    <2> QED BY <1>1, <2>2 DEF SlotLayer, QueuesInv
  <1>6. \A i \in DOMAIN completions : completions[i] \in Slots /\ completions[i] # s
    <2>1. completions \in Seq(Slots) BY DEF ControlLayer, Shapes
    <2>2. \A i \in DOMAIN completions : completions[i] \in Slots BY <2>1, MembersOf
    <2> QED BY <1>3, <2>2 DEF SlotLayer, QueuesInv
  <1>7. QueuesInv'
    BY <1>1, <1>2, <1>5, <1>6 DEF SlotLayer, QueuesInv
  <1>8. selected # s
    BY <1>1 DEF SlotLayer, HoldersInv, ControlLayer, ControlInv, Slots, NoSlot
  <1>9. ASSUME NEW t \in Slots, Holding(t) PROVE Holding(t)' /\ t # s
    BY <1>1, <1>2, <1>9 DEF Holding
  <1>10. Holding(s)' BY <1>1, <1>2, <1>8 DEF Holding
  <1>11. app'.pc = "selected" => app' = app /\ selected \in Slots /\ selected # s
    BY <1>8 DEF ControlLayer, ControlInv, Shapes, NoSlot
  <1>12. HoldersInv'
    BY <1>1, <1>2, <1>9, <1>10, <1>11 DEF SlotLayer, HoldersInv, ControlLayer, ControlInv
  <1> QED BY <1>4, <1>7, <1>12 DEF Buffers

\* The READY slots are queued once each.
ReadyQueued ==
  /\ \A i \in DOMAIN ready : ring[ready[i]].state = "READY"
  /\ \A s \in Slots : ring[s].state = "READY" => \E i \in DOMAIN ready : ready[i] = s
  /\ \A i, j \in DOMAIN ready : ready[i] = ready[j] => i = j

LEMMA LessThins ==
  ASSUME ControlLayer, NEW S
  PROVE  Less(ready, S) \in Seq(Slots) /\ Thinned(Less(ready, S), ready, S)
  <1>1. ready \in Seq(Slots) BY DEF ControlLayer, Shapes
  <1> QED BY <1>1, LessKeeps

LEMMA ReadyThinned ==
  ASSUME ControlLayer, ControlLayer', ReadyQueued, NEW S, Thinned(ready', ready, S),
         \A s \in Slots : s \notin S => (ring'[s].state = "READY" <=> ring[s].state = "READY"),
         \A s \in Slots : s \in S => ring'[s].state # "READY"
  PROVE  ReadyQueued'
  <1>1. PICK at \in [DOMAIN ready' -> DOMAIN ready] :
          /\ \A k \in DOMAIN ready' : ready'[k] = ready[at[k]] /\ ready[at[k]] \notin S
          /\ \A k, l \in DOMAIN ready' : k < l => at[k] < at[l]
          /\ \A i \in DOMAIN ready : ready[i] \notin S => \E k \in DOMAIN ready' : at[k] = i
    BY DEF Thinned
  <1>2. \A i \in DOMAIN ready : ready[i] \in Slots /\ i \in Nat
    <2>1. ready \in Seq(Slots) BY DEF ControlLayer, Shapes
    <2> QED BY <2>1, MembersOf, LenProperties
  <1>3. \A k \in DOMAIN ready' : k \in Nat
    <2>1. ready' \in Seq(Slots) BY DEF ControlLayer, Shapes
    <2> QED BY <2>1, LenProperties
  <1>4. \A i \in DOMAIN ready' : ring'[ready'[i]].state = "READY"
    BY <1>1, <1>2 DEF ReadyQueued
  <1>5. \A s \in Slots : ring'[s].state = "READY" => \E i \in DOMAIN ready' : ready'[i] = s
    <2> SUFFICES ASSUME NEW s \in Slots, ring'[s].state = "READY"
                 PROVE  \E i \in DOMAIN ready' : ready'[i] = s
      OBVIOUS
    <2>1. PICK i \in DOMAIN ready : ready[i] = s BY DEF ReadyQueued
    <2>2. s \notin S OBVIOUS
    <2> QED BY <1>1, <2>1, <2>2
  <1>6. \A i, j \in DOMAIN ready' : ready'[i] = ready'[j] => i = j
    <2> SUFFICES ASSUME NEW i \in DOMAIN ready', NEW j \in DOMAIN ready', ready'[i] = ready'[j]
                 PROVE  i = j
      OBVIOUS
    <2>1. at[i] = at[j] /\ at[i] \in Nat BY <1>1, <1>2 DEF ReadyQueued
    <2>2. ~(i < j) /\ ~(j < i) BY <1>1, <2>1
    <2> QED BY <1>3, <2>2
  <1> QED BY <1>4, <1>5, <1>6 DEF ReadyQueued

\* A slot that is held is given back, or one that is selected.
LEMMA BuffersGiven ==
  ASSUME ControlLayer, ControlLayer', SlotLayer, NEW s \in Slots,
         ring' = [ring EXCEPT ![s] = FreeSlot], ~ring[s].pending,
         UNCHANGED completions,
         ready' = ready \/ ready' = Less(ready, {s}),
         ring[s].state = "READY" => ready' = Less(ready, {s}),
         app'.pc = "selected" => ready' = ready,
         stager' = stager \/ (stager'.pc # "reading" /\ (stager.pc = "reading" => stager.slot = s)),
         app' = app \/ (app'.pc \notin {"publish", "selected"} /\ (app.pc = "publish" => app.slot = s)),
         stager'.pc = "reading" => stager'.slot # s,
         app'.pc = "publish" => app'.slot # s,
         app'.pc = "selected" => selected # s,
         selected' = selected \/ selected' = NoSlot
  PROVE  Buffers'
  <1>1. /\ \A t \in Slots : t # s => ring'[t] = ring[t]
        /\ ring'[s] = FreeSlot /\ ring'[s].state = "FREE" /\ ~ring'[s].pending
    BY DEF ControlLayer, Shapes, FreeSlot
  <1>2. SlotShapes'
    BY <1>1 DEF SlotLayer, SlotShapes, Stages, Publishing
  <1>3. completions \in Seq(Slots) BY DEF ControlLayer, Shapes
  <1>4. \A i \in DOMAIN completions : completions[i] \in Slots /\ completions[i] # s
    BY <1>3, MembersOf DEF SlotLayer, QueuesInv
  <1>5. ReadyQueued'
    <2>1. ReadyQueued BY DEF SlotLayer, QueuesInv, ReadyQueued
    <2>2. CASE ready' = ready /\ ring[s].state # "READY"
      <3>1. \A i \in DOMAIN ready : ready[i] \in Slots
        <4>1. ready \in Seq(Slots) BY DEF ControlLayer, Shapes
        <4> QED BY <4>1, MembersOf
      <3> QED BY <1>1, <2>1, <2>2, <3>1 DEF ReadyQueued
    <2>3. CASE ready' = Less(ready, {s})
      <3>1. Thinned(ready', ready, {s}) BY <2>3, LessThins
      <3> QED BY <1>1, <2>1, <3>1, ReadyThinned
    <2> QED BY <2>2, <2>3
  <1>6. QueuesInv' BY <1>1, <1>4, <1>5 DEF SlotLayer, QueuesInv, ReadyQueued
  <1>7. \A t \in Slots : Holding(t) /\ t # s => Holding(t)'
    BY <1>1, StreamAssumption DEF Holding, Slots, NoSlot
  <1>8. app'.pc = "selected" => /\ app' = app /\ selected \in Slots /\ selected # s
                                /\ selected' = selected
    BY DEF ControlLayer, ControlInv, Shapes, NoSlot
  <1>9. app'.pc = "selected" =>
       /\ ring'[selected'].state \in {"READY", "QUARANTINED"} /\ ~ring'[selected'].pending
       /\ ring'[selected'].state = "READY" => ready' # << >> /\ Head(ready') = selected'
    BY <1>1, <1>8 DEF SlotLayer, HoldersInv
  <1>10. HoldersInv'
    BY <1>7, <1>9 DEF SlotLayer, HoldersInv, ControlLayer, ControlInv
  <1> QED BY <1>2, <1>6, <1>10 DEF Buffers

\* A slot that was written is queued; nobody builds it any more.
LEMMA BuffersPublished ==
  ASSUME ControlLayer, ControlLayer', SlotLayer, NEW s \in Slots,
         ring[s].state = "BUILDING", Stages(s) \/ Publishing(s),
         ring' = [ring EXCEPT ![s].state = "READY"], ready' = Append(ready, s),
         UNCHANGED completions,
         \/ /\ Stages(s) /\ stager'.pc = "idle" /\ app' = app /\ selected' = selected
         \/ /\ Publishing(s) /\ stager' = stager
            /\ app'.pc = "selected" /\ selected' = Head(ready')
  PROVE  Buffers'
  <1>1. /\ \A t \in Slots : t # s => ring'[t] = ring[t]
        /\ ring'[s].state = "READY" /\ ring'[s].pending = ring[s].pending
        /\ ~ring[s].pending
    <2>1. ring[s] \in SlotRecords /\ DOMAIN ring = Slots BY DEF ControlLayer, Shapes
    <2>2. ~ring[s].pending BY DEF SlotLayer, SlotShapes
    <2> QED BY <2>1, <2>2, SlotReady
  <1>2. SlotShapes'
    BY <1>1 DEF SlotLayer, SlotShapes, Stages, Publishing
  <1>3. completions \in Seq(Slots) /\ ready \in Seq(Slots) BY DEF ControlLayer, Shapes
  <1>4. \A i \in DOMAIN completions : completions[i] \in Slots /\ completions[i] # s
    BY <1>1, <1>3, MembersOf DEF SlotLayer, QueuesInv
  <1>5. \A i \in DOMAIN ready : ready[i] \in Slots /\ ready[i] # s
    BY <1>3, MembersOf DEF SlotLayer, QueuesInv
  <1>6. /\ DOMAIN ready = 1 .. Len(ready) /\ Len(ready) \in Nat
        /\ DOMAIN ready' = 1 .. Len(ready) + 1
        /\ \A i \in DOMAIN ready : ready'[i] = ready[i]
        /\ ready'[Len(ready) + 1] = s
        /\ ready' # << >> /\ Head(ready') = ready'[1]
    <2>1. ready' \in Seq(Slots) /\ ready' # << >> BY <1>3, AppendProperties
    <2> QED BY <1>3, <2>1, AppendProperties, LenProperties, HeadIsFirst
  <1>7. ReadyQueued'
    <2>1. \A i \in DOMAIN ready' : i \in DOMAIN ready \/ (i = Len(ready) + 1 /\ ready'[i] = s) BY <1>6
    <2>2. \A i \in DOMAIN ready' : ring'[ready'[i]].state = "READY"
      BY <1>1, <1>5, <1>6, <2>1 DEF SlotLayer, QueuesInv
    <2>3. \A t \in Slots : ring'[t].state = "READY" => \E i \in DOMAIN ready' : ready'[i] = t
      BY <1>1, <1>6 DEF SlotLayer, QueuesInv
    <2>4. \A i, j \in DOMAIN ready' : ready'[i] = ready'[j] => i = j
      BY <1>5, <1>6, <2>1 DEF SlotLayer, QueuesInv
    <2> QED BY <2>2, <2>3, <2>4 DEF ReadyQueued
  <1>8. QueuesInv' BY <1>1, <1>4, <1>7 DEF SlotLayer, QueuesInv, ReadyQueued
  <1>9. CASE Stages(s) /\ stager'.pc = "idle" /\ app' = app /\ selected' = selected
    <2>1. \A t \in Slots : Holding(t) /\ t # s => Holding(t)' BY <1>1, <1>9 DEF Holding
    <2>2. app.pc = "selected" => selected \in Slots /\ selected # s
      BY <1>9 DEF ControlLayer, ControlInv, Shapes, NoSlot, SlotLayer, HoldersInv, Stages, Holding
    <2>3. ready # << >> => Head(ready') = Head(ready) 
      BY <1>3, <1>6, HeadIsFirst
    <2>4. app.pc = "publish" => app.slot # s /\ app.slot \in Slots
      BY <1>9 DEF SlotLayer, HoldersInv, Stages, ControlLayer, ControlInv
    <2>5. HoldersInv'
      BY <1>1, <1>6, <1>9, <2>1, <2>2, <2>3, <2>4 DEF SlotLayer, HoldersInv
    <2> QED BY <1>2, <1>8, <2>5 DEF Buffers
  <1>10. CASE Publishing(s) /\ stager' = stager /\ app'.pc = "selected" /\ selected' = Head(ready')
    <2>1. ring'[selected'].state = "READY" /\ selected' \in Slots
      <3>1. 1 \in DOMAIN ready' /\ selected' = ready'[1] BY <1>6, <1>10
      <3>2. ready' \in Seq(Slots) BY DEF ControlLayer, Shapes
      <3> QED BY <1>7, <3>1, <3>2, MembersOf DEF ReadyQueued
    <2>2. ~ring'[selected'].pending BY <1>2, <2>1 DEF SlotShapes
    <2>3. stager.pc = "reading" => stager.slot \in Slots /\ stager.slot # s
      BY <1>10 DEF SlotLayer, HoldersInv, Publishing, ControlLayer, ControlInv
    <2>4. stager.pc = "reading" => Holding(stager.slot)'
      BY <1>1, <1>10, <2>1, <2>3 DEF SlotLayer, HoldersInv, Holding
    <2>5. HoldersInv' BY <1>6, <1>10, <2>1, <2>2, <2>4 DEF HoldersInv
    <2> QED BY <1>2, <1>8, <2>5 DEF Buffers
  <1> QED BY <1>9, <1>10

\* What a cancel makes of a slot.
LEMMA CancelledSlot ==
  ASSUME Shapes, NEW s \in Slots
  PROVE  /\ ring[s].state \in {"FREE", "QUARANTINED"} => Cancelled(s) = ring[s]
         /\ ring[s].state = "READY" /\ selected # s => Cancelled(s) = FreeSlot
         /\ ring[s].state \in {"BUILDING", "IN_FLIGHT"} \/ (ring[s].state = "READY" /\ selected = s) =>
              /\ Cancelled(s).state = "QUARANTINED" /\ Cancelled(s).pending = ring[s].pending
              /\ Cancelled(s).gen = ring[s].gen /\ Cancelled(s).frame = ring[s].frame
  <1>1. ring[s] \in SlotRecords BY DEF Shapes
  <1>2. /\ [ring[s] EXCEPT !.state = "QUARANTINED"].state = "QUARANTINED"
        /\ [ring[s] EXCEPT !.state = "QUARANTINED"].pending = ring[s].pending
        /\ [ring[s] EXCEPT !.state = "QUARANTINED"].gen = ring[s].gen
        /\ [ring[s] EXCEPT !.state = "QUARANTINED"].frame = ring[s].frame
    BY <1>1 DEF SlotRecords
  <1>3. CASE ring[s].state \in {"FREE", "QUARANTINED"} BY <1>3 DEF Cancelled
  <1>4. CASE ring[s].state = "READY" /\ selected # s BY <1>4 DEF Cancelled
  <1>5. CASE ring[s].state \in {"BUILDING", "IN_FLIGHT"} \/ (ring[s].state = "READY" /\ selected = s)
    <2>1. Cancelled(s) = [ring[s] EXCEPT !.state = "QUARANTINED"] BY <1>5 DEF Cancelled
    <2> QED BY <1>2, <1>5, <2>1
  <1> QED BY <1>3, <1>4, <1>5

\* A failure cancels what was not handed over; the stager may give its slot back.
LEMMA BuffersCancelled ==
  ASSUME ControlLayer, ControlLayer', SlotLayer,
         ring' \in [Slots -> SlotRecords],
         \A s \in Slots : ring'[s] = Cancelled(s) \/ (ring'[s] = FreeSlot /\ Stages(s) /\ stager'.pc # "reading"),
         ready' = << >>, UNCHANGED << selected, completions >>,
         stager' = stager \/ stager'.pc # "reading",
         app' = app \/ app'.pc = "idle"
  PROVE  Buffers'
  <1>0. /\ Shapes
        /\ \A s \in Slots : ring[s].state \in States /\ ring[s].pending \in BOOLEAN
        /\ FreeSlot.state = "FREE" /\ FreeSlot.pending = FALSE
    BY DEF ControlLayer, Shapes, SlotRecords, FreeSlot
  <1>1. \A s \in Slots :
          /\ ring[s].state = "FREE" => ring'[s] = FreeSlot
          /\ ring[s].state = "READY" /\ selected # s => ring'[s] = FreeSlot
          /\ ring'[s].state \in {"FREE", "QUARANTINED"}
          /\ ring'[s].state = "FREE" => ring'[s] = FreeSlot
    <2> TAKE s \in Slots
    <2>1. ring[s].state = "FREE" => ring[s] = FreeSlot BY DEF SlotLayer, SlotShapes
    <2>2. CASE ring'[s] = FreeSlot BY <1>0, <2>2
    <2>3. CASE ring'[s] = Cancelled(s)
      BY <1>0, <2>1, <2>3, CancelledSlot DEF States
    <2> QED BY <2>2, <2>3
  <1>2. \A s \in Slots : ring'[s].pending = ring[s].pending
    <2> TAKE s \in Slots
    <2>1. Stages(s) => ring[s].pending = FALSE
      BY <1>0 DEF SlotLayer, HoldersInv, Stages, Holding
    <2>2. ring[s].state = "READY" => ring[s].pending = FALSE
      BY <1>0 DEF SlotLayer, SlotShapes
    <2>3. CASE ring'[s] = FreeSlot /\ Stages(s) BY <1>0, <2>1, <2>3
    <2>4. CASE ring'[s] = Cancelled(s)
      BY <1>0, <2>2, <2>4, CancelledSlot DEF States
    <2> QED BY <2>3, <2>4
  <1>3. \A s \in Slots : Holding(s) /\ ~(Stages(s) /\ stager'.pc # "reading") => Holding(s)'
    <2> SUFFICES ASSUME NEW s \in Slots, Holding(s), ~(Stages(s) /\ stager'.pc # "reading")
                 PROVE  Holding(s)'
      OBVIOUS
    <2>1. ring'[s] = Cancelled(s) OBVIOUS
    <2>2. ring'[s].state = "QUARANTINED" BY <1>0, <2>1, CancelledSlot DEF Holding
    <2> QED BY <1>2, <2>2 DEF Holding
  <1>4. SlotShapes'
    <2>1. \A s \in Slots : ring'[s].pending => ring'[s].state = "QUARANTINED"
      BY <1>0, <1>1
    <2> QED BY <1>1, <2>1 DEF SlotShapes
  <1>5. QueuesInv'
    <2>1. \A i \in DOMAIN completions : completions[i] \in Slots
      <3>1. completions \in Seq(Slots) BY DEF ControlLayer, Shapes
      <3> QED BY <3>1, MembersOf
    <2> QED BY <1>1, <1>2, <2>1 DEF SlotLayer, QueuesInv
  <1>6. app'.pc = "selected" => ring'[selected].state = "QUARANTINED" /\ ~ring'[selected].pending
    <2> SUFFICES ASSUME app'.pc = "selected"
                 PROVE  ring'[selected].state = "QUARANTINED" /\ ~ring'[selected].pending
      OBVIOUS
    <2>1. app.pc = "selected" /\ selected \in Slots BY DEF ControlLayer, ControlInv, Shapes, NoSlot
    <2>2. ~Stages(selected) BY DEF Stages, SlotLayer, HoldersInv, Holding
    <2>3. ring'[selected] = Cancelled(selected) BY <2>1, <2>2
    <2>4. ring[selected].state \in {"READY", "QUARANTINED"} /\ ~ring[selected].pending
      BY <2>1 DEF SlotLayer, HoldersInv
    <2>5. ring'[selected].state = "QUARANTINED" BY <1>0, <2>1, <2>3, <2>4, CancelledSlot
    <2> QED BY <1>2, <2>1, <2>4, <2>5
  <1>7. stager.pc = "reading" /\ app.pc = "publish" => stager.slot # app.slot
    BY DEF SlotLayer, HoldersInv
  <1>8. stager'.pc = "reading" => stager' = stager /\ stager.slot \in Slots /\ Holding(stager.slot)
    BY DEF SlotLayer, HoldersInv, ControlLayer, ControlInv
  <1>9. app'.pc = "publish" => app' = app /\ app.slot \in Slots /\ Holding(app.slot) /\ ~Stages(app.slot)
    BY <1>7 DEF SlotLayer, HoldersInv, ControlLayer, ControlInv, Stages
  <1>10. HoldersInv'
    BY <1>3, <1>6, <1>7, <1>8, <1>9 DEF HoldersInv, Stages
  <1> QED BY <1>4, <1>5, <1>10 DEF Buffers

\* After a disconnect only what a task still writes is kept.
LEMMA BuffersTornDown ==
  ASSUME ControlLayer, ControlLayer', SlotLayer, app.pc = "cancelling", app'.pc = "idle",
         ring' = [s \in Slots |-> AfterTeardown(s)],
         ready' = << >>, completions' = << >>, stager' = stager
  PROVE  Buffers'
  <1>1. selected = NoSlot /\ selected' = NoSlot BY DEF ControlLayer, ControlInv
  <1>2. \A s \in Slots : s # NoSlot BY StreamAssumption DEF Slots, NoSlot
  <1>3. \A s \in Slots :
          /\ ring'[s] = FreeSlot \/ (ring'[s].state = "QUARANTINED" /\ ~ring'[s].pending)
          /\ Holding(s) => ring'[s].state = "QUARANTINED" /\ ~ring'[s].pending
    <2> TAKE s \in Slots
    <2>1. Shapes BY DEF ControlLayer
    <2>2. ring'[s] = AfterTeardown(s) OBVIOUS
    <2>3. Holding(s) => Cancelled(s).state = "QUARANTINED" /\ ~Cancelled(s).pending
      BY <2>1, CancelledSlot DEF Holding
    <2> QED BY <1>1, <1>2, <2>2, <2>3 DEF AfterTeardown
  <1>4. SlotShapes' BY <1>3 DEF SlotShapes, FreeSlot
  <1>5. QueuesInv' BY <1>3, <1>4 DEF QueuesInv, FreeSlot
  <1>6. stager.pc = "reading" => Holding(stager.slot)' /\ stager.slot \in Slots
    BY <1>1, <1>2, <1>3 DEF SlotLayer, HoldersInv, Holding, ControlLayer, ControlInv
  <1>7. HoldersInv' BY <1>6 DEF HoldersInv
  <1> QED BY <1>4, <1>5, <1>7 DEF Buffers

\* The selected slot is handed to the stack.
LEMMA BuffersAccepted ==
  ASSUME ControlLayer, ControlLayer', SlotLayer, app.pc = "selected",
         NEW state \in {"IN_FLIGHT", "QUARANTINED"},
         ring' = [ring EXCEPT ![selected].pending = TRUE, ![selected].state = state],
         completions' = Append(completions, selected), ready' = Less(ready, {selected}),
         stager' = stager, app'.pc \in {"idle", "failing"}
  PROVE  Buffers'
  <1>1. PICK s \in Slots : s = selected /\ selected' = NoSlot /\ s # NoSlot
    BY DEF ControlLayer, ControlInv, Shapes, NoSlot
  <1>2. /\ \A t \in Slots : t # s => ring'[t] = ring[t]
        /\ ring'[s].state = state /\ ring'[s].pending
        /\ ~ring[s].pending
    BY <1>1 DEF ControlLayer, Shapes, SlotRecords, SlotLayer, HoldersInv
  <1>3. SlotShapes' BY <1>2 DEF SlotLayer, SlotShapes, Stages, Publishing
  <1>4. ReadyQueued'
    <2>1. Thinned(ready', ready, {s}) BY <1>1, LessThins
    <2>2. ReadyQueued BY DEF SlotLayer, QueuesInv, ReadyQueued
    <2>3. \A t \in Slots : t \in {s} => ring'[t].state # "READY" BY <1>2
    <2>4. \A t \in Slots : t \notin {s} => (ring'[t].state = "READY" <=> ring[t].state = "READY")
      BY <1>2
    <2> QED BY <2>1, <2>2, <2>3, <2>4, ReadyThinned
  <1>5. completions \in Seq(Slots) BY DEF ControlLayer, Shapes
  <1>6. \A i \in DOMAIN completions : completions[i] \in Slots /\ completions[i] # s
    BY <1>2, <1>5, MembersOf DEF SlotLayer, QueuesInv
  <1>7. /\ DOMAIN completions = 1 .. Len(completions) /\ Len(completions) \in Nat
        /\ DOMAIN completions' = 1 .. Len(completions) + 1
        /\ \A i \in DOMAIN completions : completions'[i] = completions[i]
        /\ completions'[Len(completions) + 1] = s
    <2>1. completions' = Append(completions, s) BY <1>1
    <2> QED BY <1>5, <2>1, AppendProperties, LenProperties
  <1>8. QueuesInv'
    <2>1. \A i \in DOMAIN completions' :
            i \in DOMAIN completions \/ (i = Len(completions) + 1 /\ completions'[i] = s)
      BY <1>7
    <2>2. \A i \in DOMAIN completions' : ring'[completions'[i]].pending
      <3> TAKE i \in DOMAIN completions'
      <3>1. CASE i \in DOMAIN completions
        <4>1. PICK t \in Slots : t = completions[i] /\ t # s BY <1>6, <3>1
        <4>2. completions'[i] = t /\ ring'[t] = ring[t] BY <1>2, <1>7, <3>1, <4>1
        <4>3. ring[t].pending BY <3>1, <4>1 DEF SlotLayer, QueuesInv
        <4> QED BY <4>2, <4>3
      <3>2. CASE completions'[i] = s BY <1>2, <3>2
      <3> QED BY <2>1, <3>1, <3>2
    <2>3. \A t \in Slots : ring'[t].pending => \E i \in DOMAIN completions' : completions'[i] = t
      BY <1>2, <1>7 DEF SlotLayer, QueuesInv
    <2>4. \A i, j \in DOMAIN completions' : completions'[i] = completions'[j] => i = j
      BY <1>6, <1>7, <2>1 DEF SlotLayer, QueuesInv
    <2> QED BY <1>4, <2>2, <2>3, <2>4 DEF QueuesInv, ReadyQueued
  <1>9. \A t \in Slots : Holding(t) => Holding(t)'
    <2> SUFFICES ASSUME NEW t \in Slots, Holding(t) PROVE Holding(t)' OBVIOUS
    <2>1. t # s /\ t # NoSlot BY <1>1, StreamAssumption DEF Holding, Slots, NoSlot
    <2>2. ring'[t] = ring[t] BY <1>2, <2>1
    <2> QED BY <1>1, <2>1, <2>2 DEF Holding
  <1>10. HoldersInv' BY <1>9 DEF SlotLayer, HoldersInv, ControlLayer, ControlInv
  <1> QED BY <1>3, <1>8, <1>10 DEF Buffers

\* The oldest completion gives its slot back.
LEMMA BuffersCompleted ==
  ASSUME ControlLayer, ControlLayer', SlotLayer, app.pc = "idle", completions # << >>,
         ring' = [ring EXCEPT ![Head(completions)] = FreeSlot],
         completions' = Tail(completions), UNCHANGED << ready, stager >>,
         app'.pc \in {"idle", "failing"}
  PROVE  Buffers'
  <1>1. completions \in Seq(Slots) /\ ready \in Seq(Slots) BY DEF ControlLayer, Shapes
  <1>2. PICK s \in Slots : s = Head(completions) /\ s = completions[1] /\ 1 \in DOMAIN completions
    BY <1>1, HeadIsFirst
  <1>3. ring[s].pending /\ ring[s].state \in {"IN_FLIGHT", "QUARANTINED"}
    BY <1>2 DEF SlotLayer, QueuesInv, SlotShapes
  <1>4. /\ \A t \in Slots : t # s => ring'[t] = ring[t]
        /\ ring'[s] = FreeSlot /\ ring'[s].state = "FREE" /\ ~ring'[s].pending
    BY <1>2 DEF ControlLayer, Shapes, FreeSlot
  <1>5. SlotShapes' BY <1>4 DEF SlotLayer, SlotShapes, Stages, Publishing
  <1>6. \A i \in DOMAIN ready : ready[i] \in Slots /\ ready[i] # s
    BY <1>1, <1>3, MembersOf DEF SlotLayer, QueuesInv
  <1>7. /\ DOMAIN completions = 1 .. Len(completions) /\ Len(completions) \in Nat \ {0}
        /\ DOMAIN completions' = 1 .. Len(completions) - 1
        /\ \A i \in DOMAIN completions' : i + 1 \in DOMAIN completions /\ completions'[i] = completions[i + 1]
    BY <1>1, HeadTailProperties, HeadIsFirst, LenProperties
  <1>8. QueuesInv'
    <2>1. \A i \in DOMAIN completions : completions[i] \in Slots BY <1>1, MembersOf
    <2>2. \A i \in DOMAIN completions' : completions'[i] \in Slots /\ completions'[i] # s
      BY <1>2, <1>7, <2>1 DEF SlotLayer, QueuesInv
    <2>3. \A i \in DOMAIN completions' : ring'[completions'[i]].pending
      BY <1>4, <1>7, <2>2 DEF SlotLayer, QueuesInv
    <2>4. \A t \in Slots : ring'[t].pending => \E i \in DOMAIN completions' : completions'[i] = t
      <3> SUFFICES ASSUME NEW t \in Slots, ring'[t].pending
                   PROVE  \E i \in DOMAIN completions' : completions'[i] = t
        OBVIOUS
      <3>1. t # s BY <1>4
      <3>2. PICK k \in DOMAIN completions : completions[k] = t BY <1>4, <3>1 DEF SlotLayer, QueuesInv
      <3>3. k # 1 BY <1>2, <3>1, <3>2
      <3>4. k - 1 \in DOMAIN completions' /\ completions'[k - 1] = completions[k] BY <1>7, <3>2, <3>3
      <3> QED BY <3>2, <3>4
    <2>5. \A i, j \in DOMAIN completions' : completions'[i] = completions'[j] => i = j
      <3> SUFFICES ASSUME NEW i \in DOMAIN completions', NEW j \in DOMAIN completions',
                          completions'[i] = completions'[j]
                   PROVE  i = j
        OBVIOUS
      <3>1. completions[i + 1] = completions[j + 1] /\ i + 1 \in DOMAIN completions
            /\ j + 1 \in DOMAIN completions
        BY <1>7
      <3>2. i + 1 = j + 1 BY <3>1 DEF SlotLayer, QueuesInv
      <3> QED BY <1>7, <3>2
    <2> QED BY <1>4, <1>6, <2>3, <2>4, <2>5 DEF SlotLayer, QueuesInv
  <1>9. selected = NoSlot /\ selected' = NoSlot BY DEF ControlLayer, ControlInv
  <1>10. stager.pc = "reading" => Holding(stager.slot)'
    BY <1>3, <1>4, <1>9 DEF SlotLayer, HoldersInv, Holding, ControlLayer, ControlInv
  <1>11. HoldersInv' BY <1>10 DEF HoldersInv
  <1> QED BY <1>5, <1>8, <1>11 DEF Buffers

\* The poll gives up the terminal frame that nobody took.
LEMMA BuffersGivenUp ==
  ASSUME ControlLayer, ControlLayer', SlotLayer, AbortTimeout
  PROVE  Buffers'
  <1>1. app.pc = "idle" /\ app'.pc = "idle" /\ stager' = stager /\ completions' = completions
    BY DEF AbortTimeout, AppMayRun, Finish, GoesOn
  <1>2. selected = NoSlot /\ selected' = NoSlot BY <1>1 DEF ControlLayer, ControlInv
  <1>3. \A s \in Slots : IF s \in UnsentTerminal THEN ring'[s] = FreeSlot ELSE ring'[s] = ring[s]
    BY DEF AbortTimeout
  <1>4. \A s \in Slots : s \in UnsentTerminal => ring[s].state = "READY" /\ ~ring[s].pending
    BY DEF UnsentTerminal, SlotLayer, SlotShapes
  <1>5. SlotShapes'
    <2>1. \A s \in Slots : ring'[s] = FreeSlot \/ ring'[s] = ring[s] BY <1>3
    <2>2. FreeSlot.state = "FREE" /\ FreeSlot.pending = FALSE BY DEF FreeSlot
    <2> QED BY <1>1, <2>1, <2>2 DEF SlotLayer, SlotShapes, Stages, Publishing
  <1>6. ReadyQueued'
    <2>1. ready' = Less(ready, UnsentTerminal) BY DEF AbortTimeout
    <2>2. Thinned(ready', ready, UnsentTerminal) BY <2>1, LessThins
    <2>3. ReadyQueued BY DEF SlotLayer, QueuesInv, ReadyQueued
    <2>4. \A s \in Slots : s \in UnsentTerminal => ring'[s].state # "READY" BY <1>3 DEF FreeSlot
    <2> QED BY <1>3, <2>2, <2>3, <2>4, ReadyThinned
  <1>7. \A s \in Slots : ring'[s].pending <=> ring[s].pending BY <1>3, <1>4 DEF FreeSlot
  <1>8. QueuesInv'
    <2>1. completions \in Seq(Slots) BY DEF ControlLayer, Shapes
    <2>2. \A i \in DOMAIN completions : completions[i] \in Slots BY <2>1, MembersOf
    <2> QED BY <1>1, <1>6, <1>7, <2>2 DEF SlotLayer, QueuesInv, ReadyQueued
  <1>9. stager.pc = "reading" => Holding(stager.slot)'
    BY <1>1, <1>2, <1>3, <1>4 DEF SlotLayer, HoldersInv, Holding, ControlLayer, ControlInv
  <1>10. HoldersInv' BY <1>1, <1>9 DEF HoldersInv
  <1> QED BY <1>5, <1>8, <1>10 DEF Buffers

\* A failure of the capture task or of the Flash.
LEMMA SlotsFailAtOnce ==
  ASSUME ControlLayer, ControlLayer', SlotLayer, NEW latched, FailsAtOnce(latched),
         \A s \in Slots : ring'[s] = Cancelled(s) \/ (ring'[s] = FreeSlot /\ Stages(s) /\ stager'.pc # "reading"),
         ready' = << >>,
         stager' = stager \/ stager'.pc # "reading",
         UNCHANGED << selected, completions, app, link, stack, sentBack, connected >>
  PROVE  SlotLayer'
  <1>1. ring' \in [Slots -> SlotRecords] BY DEF ControlLayer, Shapes
  <1>2. Buffers' BY <1>1, BuffersCancelled
  <1>3. LinkInv' BY LinkStays DEF SlotLayer, LinkInv
  <1>4. abortReq' BY DEF FailsAtOnce, AbortFlags
  <1>5. GensInv' BY <1>4 DEF GensInv, Going
  <1> QED BY <1>2, <1>3, <1>5 DEF Buffers, SlotLayer

\* The App task gives the session up.
LEMMA SlotsAppFails ==
  ASSUME ControlLayer, ControlLayer', SlotLayer, NEW what, AppFails(what), what # "disconnect",
         app.pc \in {"idle", "acking"},
         UNCHANGED << ring, ready, selected, completions, stager, link, stack, sentBack, connected >>
  PROVE  SlotLayer'
  <1>1. app'.pc = "failing" /\ app'.what = what BY DEF AppFails, AppIdle
  <1>2. Buffers' BY <1>1, BuffersStay
  <1>3. LinkInv' BY <1>1, LinkStays DEF SlotLayer, LinkInv
  <1>4. GensInv' BY <1>1 DEF GensInv, Going
  <1> QED BY <1>2, <1>3, <1>4 DEF Buffers, SlotLayer

\* A session ends with no slot out, or with those the poll leaves.
LEMMA SlotsIdle ==
  ASSUME ControlLayer, ControlLayer', SlotLayer,
         UNCHANGED << generation, ring, ready, selected, completions, stager, app,
                      link, stack, sentBack, connected >>,
         active' => active, abortReq => abortReq' \/ ~active'
  PROVE  SlotLayer'
  <1>1. app'.pc = "selected" => app.pc = "selected" /\ selected' = selected OBVIOUS
  <1>2. Buffers' BY <1>1, BuffersStay
  <1>3. LinkInv' BY LinkStays DEF SlotLayer, LinkInv
  <1>4. GensInv' BY GensStay DEF Going
  <1> QED BY <1>2, <1>3, <1>4 DEF Buffers, SlotLayer

\* The App task goes from one of its steps to another.
LEMMA SlotsAppMoves ==
  ASSUME ControlLayer, ControlLayer', SlotLayer,
         UNCHANGED << active, abortReq, generation, ring, ready, completions, stager,
                      link, stack, sentBack, connected >>,
         app.pc \in {"idle", "claim", "acking"} \cup Testing \cup Storing,
         app'.pc \in {"idle", "claim", "selected", "acking"} \cup Testing \cup Storing,
         app'.pc = "selected" => ready # << >> /\ selected' = Head(ready)
  PROVE  SlotLayer'
  <1> USE DEF Testing, Storing
  <1>1. Buffers' BY BuffersStay
  <1>2. LinkInv' BY LinkStays DEF SlotLayer, LinkInv
  <1>3. GensInv' BY GensStay DEF Going
  <1> QED BY <1>1, <1>2, <1>3 DEF Buffers, SlotLayer

\* The stager looks for a record, or lets go of it.
LEMMA SlotsStagerMoves ==
  ASSUME ControlLayer, ControlLayer', SlotLayer,
         UNCHANGED << active, abortReq, generation, ring, ready, selected, completions, app,
                      link, stack, sentBack, connected >>,
         stager.pc # "reading", stager'.pc # "reading"
  PROVE  SlotLayer'
  <1>1. app'.pc = "selected" => app.pc = "selected" /\ selected' = selected OBVIOUS
  <1>2. Buffers' BY <1>1, BuffersStay
  <1>3. LinkInv' BY LinkStays DEF SlotLayer, LinkInv
  <1>4. GensInv' BY GensStay DEF Going
  <1> QED BY <1>2, <1>3, <1>4 DEF Buffers, SlotLayer

\* The stager gives its slot back unpublished.
LEMMA SlotsStagerReleases ==
  ASSUME ControlLayer, ControlLayer', SlotLayer, stager.pc = "reading", stager'.pc = "idle",
         ReleaseBuilder(stager.slot),
         UNCHANGED << active, abortReq, generation, selected, completions, app,
                      link, stack, sentBack, connected >>
  PROVE  SlotLayer'
  <1>1. PICK s \in Slots : s = stager.slot BY DEF ControlLayer, ControlInv
  <1>2. Holding(s) BY <1>1 DEF SlotLayer, HoldersInv
  <1>3. ring' = [ring EXCEPT ![s] = FreeSlot] /\ ready' = ready BY <1>1 DEF ReleaseBuilder
  <1>4. ~ring[s].pending /\ ring[s].state # "READY" /\ s # selected BY <1>2 DEF Holding
  <1>5. app.pc = "publish" => app.slot # s BY <1>1 DEF SlotLayer, HoldersInv
  <1>6. Buffers' BY <1>1, <1>3, <1>4, <1>5, BuffersGiven
  <1>7. LinkInv' BY LinkStays DEF SlotLayer, LinkInv
  <1>8. \A t \in Slots : ring'[t].state = "FREE" \/ ring'[t] = ring[t]
    BY <1>1, <1>3 DEF ControlLayer, Shapes, FreeSlot
  <1>9. GensInv' BY <1>8, GensStay DEF Going
  <1> QED BY <1>6, <1>7, <1>9 DEF Buffers, SlotLayer

\* A completion comes for the slot that was handed over first.
LEMMA SlotsComplete ==
  ASSUME ControlLayer, ControlLayer', SlotLayer, AppMayRun,
         sentBack # << >>, sentBack' = Tail(sentBack), completions # << >>,
         ring' = [ring EXCEPT ![Head(completions)] = FreeSlot],
         completions' = Tail(completions),
         UNCHANGED << link, connected, stack, ready, selected, stager >>,
         app' = app \/ (app'.pc = "failing" /\ app'.what # "disconnect"),
         active' => active, abortReq => abortReq' \/ ~active',
         generation' = generation \/ app'.pc = "failing"
  PROVE  SlotLayer'
  <1>1. app.pc = "idle" /\ app'.pc \in {"idle", "failing"} BY DEF AppMayRun
  <1>2. Buffers' BY <1>1, BuffersCompleted
  <1>3. completions \in Seq(Slots) /\ sentBack \in Seq(Slots) /\ stack \in Seq(Slots)
    BY DEF ControlLayer, Shapes
  <1>4. /\ DOMAIN completions = 1 .. Len(completions) /\ Len(completions) \in Nat \ {0}
        /\ Len(completions') = Len(completions) - 1
        /\ \A i \in 1 .. Len(completions) - 1 : completions'[i] = completions[i + 1]
    BY <1>3, HeadTailProperties, HeadIsFirst, LenProperties
  <1>5. /\ DOMAIN sentBack = 1 .. Len(sentBack) /\ Len(sentBack) \in Nat \ {0}
        /\ Len(sentBack') = Len(sentBack) - 1 /\ DOMAIN sentBack' = 1 .. Len(sentBack) - 1
        /\ \A i \in 1 .. Len(sentBack) - 1 : sentBack'[i] = sentBack[i + 1]
    BY <1>3, HeadTailProperties, HeadIsFirst, LenProperties
  <1>6. DOMAIN stack = 1 .. Len(stack) /\ Len(stack) \in Nat BY <1>3, LenProperties
  <1>7. LinkInv'
    <2>1. connected BY DEF SlotLayer, LinkInv
    <2>2. /\ Len(sentBack) + Len(stack) <= Len(completions)
          /\ link = "up" => Len(completions) = Len(sentBack) + Len(stack)
          /\ link = "down" => stack = << >>
      BY DEF SlotLayer, LinkInv
    <2>b. PICK a \in Nat \ {0}, b \in Nat, c \in Nat \ {0} :
            a = Len(sentBack) /\ b = Len(stack) /\ c = Len(completions) /\ a + b <= c
      BY <1>4, <1>5, <1>6, <2>2
    <2>3. \A i \in DOMAIN sentBack' : completions'[i] = sentBack'[i]
      <3> TAKE i \in DOMAIN sentBack'
      <3>0. i \in 1 .. a - 1 BY <1>5, <2>b
      <3>1. i + 1 \in DOMAIN sentBack /\ i \in 1 .. Len(completions) - 1
        <4>1. i + 1 \in 1 .. a /\ i \in 1 .. c - 1 BY <2>b, <3>0
        <4> QED BY <1>5, <2>b, <4>1
      <3>2. completions[i + 1] = sentBack[i + 1] BY <3>1 DEF SlotLayer, LinkInv
      <3> QED BY <1>4, <1>5, <3>1, <3>2
    <2>4. \A i \in DOMAIN stack : completions'[Len(sentBack') + i] = stack[i]
      <3> TAKE i \in DOMAIN stack
      <3>1. Len(sentBack') + i \in 1 .. Len(completions) - 1
            /\ Len(sentBack') + i + 1 = Len(sentBack) + i
        <4>1. i \in 1 .. b BY <1>6, <2>b
        <4>2. (a - 1) + i \in 1 .. c - 1 /\ (a - 1) + i + 1 = a + i BY <2>b, <4>1
        <4>3. Len(sentBack') = a - 1 /\ Len(completions) = c /\ Len(sentBack) = a BY <1>5, <2>b
        <4> QED BY <4>2, <4>3
      <3>2. completions[Len(sentBack) + i] = stack[i] BY DEF SlotLayer, LinkInv
      <3> QED BY <1>4, <3>1, <3>2
    <2>5. ~(app'.pc \in {"failing", "cancelling"} /\ app'.what = "disconnect") BY <1>1
    <2>6. Len(sentBack') + Len(stack) <= Len(completions')
      <3>1. (a - 1) + b <= c - 1 BY <2>b
      <3> QED BY <1>4, <1>5, <2>b, <3>1
    <2>7. link = "up" => Len(completions') = Len(sentBack') + Len(stack)
      <3>1. link = "up" => c - 1 = (a - 1) + b BY <2>2, <2>b
      <3> QED BY <1>4, <1>5, <2>b, <3>1
    <2> QED BY <2>1, <2>2, <2>3, <2>4, <2>5, <2>6, <2>7 DEF LinkInv
  <1>8. Head(completions) \in Slots BY <1>3, HeadIsFirst
  <1>9. \A t \in Slots : ring'[t].state = "FREE" \/ ring'[t] = ring[t]
    BY <1>8 DEF ControlLayer, Shapes, FreeSlot
  <1>10. GensInv' BY <1>9, GensStay DEF Going
  <1> QED BY <1>2, <1>7, <1>10 DEF Buffers, SlotLayer

\* The App task hands the selected slot to the stack.
LEMMA SlotsAccepted ==
  ASSUME ControlLayer, ControlLayer', SlotLayer, NotifyAccepted
  PROVE  SlotLayer'
  <1> DEFINE valid == StillValid(ring[selected])
             state == IF valid THEN "IN_FLIGHT" ELSE "QUARANTINED"
  <1>1. app.pc = "selected" /\ selected \in Slots
    BY DEF NotifyAccepted, ControlLayer, ControlInv, Shapes, NoSlot
  <1>2. ring[selected].state \in {"READY", "QUARANTINED"} BY <1>1 DEF SlotLayer, HoldersInv
  <1>3. Owned(ring[selected]) BY <1>2 DEF Owned
  <1>4. /\ ring' = [ring EXCEPT ![selected].pending = TRUE, ![selected].state = state]
        /\ completions' = Append(completions, selected)
        /\ stack' = Append(stack, selected) /\ link = "up"
        /\ ready' = Less(ready, {selected})
        /\ UNCHANGED << stager, link, connected, sentBack, active, abortReq >>
    BY <1>3 DEF NotifyAccepted
  <1>5. app' = AppIdle \/ (app'.pc = "failing" /\ app'.what = "failure")
    BY DEF NotifyAccepted, AppFails, AppIdle
  <1>6. app'.pc \in {"idle", "failing"} BY <1>5 DEF AppIdle
  <1>7. Buffers'
    <2>1. PICK st \in {"IN_FLIGHT", "QUARANTINED"} : st = state OBVIOUS
    <2>2. ring' = [ring EXCEPT ![selected].pending = TRUE, ![selected].state = st] BY <1>4, <2>1
    <2> QED BY <1>1, <1>4, <1>6, <2>2, BuffersAccepted
  <1>8. completions \in Seq(Slots) /\ sentBack \in Seq(Slots) /\ stack \in Seq(Slots)
    BY DEF ControlLayer, Shapes
  <1>9. /\ DOMAIN completions = 1 .. Len(completions) /\ Len(completions) \in Nat
        /\ Len(completions') = Len(completions) + 1
        /\ \A i \in DOMAIN completions : completions'[i] = completions[i]
        /\ completions'[Len(completions) + 1] = selected
    BY <1>1, <1>4, <1>8, AppendProperties, LenProperties
  <1>10. /\ DOMAIN stack = 1 .. Len(stack) /\ Len(stack) \in Nat
         /\ Len(stack') = Len(stack) + 1 /\ DOMAIN stack' = 1 .. Len(stack) + 1
         /\ \A i \in DOMAIN stack : stack'[i] = stack[i]
         /\ stack'[Len(stack) + 1] = selected
    BY <1>1, <1>4, <1>8, AppendProperties, LenProperties
  <1>11. DOMAIN sentBack = 1 .. Len(sentBack) /\ Len(sentBack) \in Nat BY <1>8, LenProperties
  <1>12. LinkInv'
    <2>1. Len(completions) = Len(sentBack) + Len(stack) /\ connected
      BY <1>4 DEF SlotLayer, LinkInv
    <2>2. \A i \in DOMAIN sentBack : completions'[i] = sentBack[i]
      BY <1>9, <1>10, <1>11, <2>1 DEF SlotLayer, LinkInv
    <2>3. \A i \in DOMAIN stack' : completions'[Len(sentBack) + i] = stack'[i]
      <3> TAKE i \in DOMAIN stack'
      <3>1. CASE i \in DOMAIN stack
        <4>1. Len(sentBack) + i \in DOMAIN completions BY <1>9, <1>10, <1>11, <2>1, <3>1
        <4> QED BY <1>9, <1>10, <3>1, <4>1 DEF SlotLayer, LinkInv
      <3>2. CASE i = Len(stack) + 1
        <4>1. Len(sentBack) + i = Len(completions) + 1 BY <1>10, <1>11, <2>1, <3>2
        <4> QED BY <1>9, <1>10, <3>2, <4>1
      <3> QED BY <1>10, <3>1, <3>2
    <2>4. ~(app'.pc \in {"failing", "cancelling"} /\ app'.what = "disconnect")
      BY <1>5 DEF AppIdle
    <2> QED BY <1>4, <1>9, <1>10, <1>11, <2>1, <2>2, <2>3, <2>4 DEF LinkInv
  <1>13. GensInv'
    <2> SUFFICES ASSUME Going' PROVE GensInv' BY DEF GensInv
    <2>1. active /\ ~abortReq /\ app' = AppIdle BY <1>4, <1>5 DEF Going, AppIdle
    <2>2. generation' = generation /\ Going
      BY <1>1, <2>1 DEF NotifyAccepted, AppFails, AppIdle, Going
    <2>3. ring[selected].state = "READY" /\ ring[selected].gen = generation
      BY <1>1, <1>2, <2>2 DEF SlotLayer, GensInv
    <2>4. valid BY <2>1, <2>3 DEF StillValid
    <2>5. ring'[selected].state = "IN_FLIGHT" /\ ring'[selected].gen = generation
          /\ \A t \in Slots : t # selected => ring'[t] = ring[t]
      <3> HIDE DEF valid
      <3> QED BY <1>1, <1>4, <2>3, <2>4 DEF ControlLayer, Shapes, SlotRecords
    <2> QED BY <2>2, <2>5, GensStay
  <1> QED BY <1>7, <1>12, <1>13 DEF Buffers, SlotLayer

LEMMA SlotInit == StreamInit => SlotLayer
  <1> SUFFICES ASSUME StreamInit PROVE SlotLayer OBVIOUS
  <1>1. \A s \in Slots : ring[s] = FreeSlot /\ ring[s].state = "FREE" /\ ~ring[s].pending
    BY DEF StreamInit, FreeSlot
  <1>2. SlotShapes BY <1>1 DEF SlotShapes
  <1>3. HoldersInv BY DEF HoldersInv, StreamInit, AppIdle, NoStage
  <1>4. QueuesInv BY <1>1 DEF QueuesInv, StreamInit
  <1>5. LinkInv BY DEF LinkInv, StreamInit, AppIdle
  <1>6. GensInv BY <1>1 DEF GensInv
  <1> QED BY <1>2, <1>3, <1>4, <1>5, <1>6 DEF SlotLayer

LEMMA SlotStagerStep ==
  ASSUME ControlLayer, ControlLayer', SlotLayer,
         \/ StageGate \/ StagePeekFails \/ StageTake
         \/ StagePublish \/ StageReadBusy \/ StageReadFails
  PROVE  SlotLayer'
  <1>1. CASE StageGate
    <2>1. stager.pc # "reading" /\ stager'.pc # "reading" BY <1>1 DEF StageGate, NoStage
    <2> QED BY <1>1, <2>1, SlotsStagerMoves DEF StageGate
  <1>2. CASE StagePeekFails
    <2>1. stager.pc # "reading" /\ stager'.pc # "reading" BY <1>2 DEF StagePeekFails, NoStage
    <2>2. CASE active
      <3>1. /\ FailsAtOnce(FALSE)
            /\ \A s \in Slots : ring'[s] = Cancelled(s)
            /\ ready' = << >>
        BY <1>2, <2>2 DEF StagePeekFails, CancelUnsent
      <3> QED BY <1>2, <2>1, <3>1, SlotsFailAtOnce DEF StagePeekFails
    <2>3. CASE ~active BY <1>2, <2>1, <2>3, SlotsStagerMoves DEF StagePeekFails
    <2> QED BY <2>2, <2>3
  <1>3. CASE StageTake
    <2> DEFINE now == IF tx.n # 0 THEN tx ELSE [NoTx EXCEPT !.n = stager.n]
    <2>1. CASE stager' = NoStage /\ UNCHANGED ring
      <3>1. stager.pc # "reading" /\ stager'.pc # "reading" BY <1>3, <2>1 DEF StageTake, NoStage
      <3> QED BY <1>3, <2>1, <3>1, SlotsStagerMoves DEF StageTake
    <2>2. CASE ~(stager' = NoStage /\ UNCHANGED ring)
      <3>1. /\ FreeSlots # {}
            /\ ring' = [ring EXCEPT ![FirstFree] = Building(Frame("record", now.n, now.staged + 1))]
            /\ stager' = [pc |-> "reading", n |-> now.n, f |-> now.staged + 1,
                          gen |-> generation, slot |-> FirstFree]
        BY <1>3, <2>2 DEF StageTake
      <3>2. /\ UNCHANGED << active, abortReq, generation, ready, selected, completions, app,
                            link, stack, sentBack, connected >>
            /\ stager.pc # "reading"
        BY <1>3 DEF StageTake
      <3>3. stager'.pc = "reading" /\ stager'.slot = FirstFree BY <3>1
      <3>4. PICK frame : ring' = [ring EXCEPT ![FirstFree] = Building(frame)] BY <3>1
      <3>5. Buffers' BY <3>1, <3>2, <3>3, <3>4, BuffersTaken
      <3>6. LinkInv' BY <3>2, LinkStays DEF SlotLayer, LinkInv
      <3>7. FirstFree \in Slots BY <3>1, FirstFreeIsFree
      <3>8. \A s \in Slots : ring'[s] = ring[s] \/ (ring'[s].state = "BUILDING" /\ ring'[s].gen = generation)
        BY <3>4, <3>7 DEF ControlLayer, Shapes, Building
      <3>9. GensInv' BY <3>2, <3>8, GensStay DEF Going
      <3> QED BY <3>5, <3>6, <3>9 DEF Buffers, SlotLayer
    <2> QED BY <2>1, <2>2
  <1>4. CASE StagePublish
    <2>1. /\ stager.pc = "reading" /\ stager'.pc = "idle"
          /\ UNCHANGED << active, abortReq, generation, selected, completions, app,
                          link, stack, sentBack, connected >>
      BY <1>4 DEF StagePublish, NoStage
    <2>2. CASE ReleaseBuilder(stager.slot) BY <2>1, <2>2, SlotsStagerReleases
    <2>3. CASE Publishes(stager.slot) /\ Publish(stager.slot)
      <3>1. PICK s \in Slots : s = stager.slot BY <2>1 DEF ControlLayer, ControlInv
      <3>2. /\ ring' = [ring EXCEPT ![s].state = "READY"] /\ ready' = Append(ready, s)
            /\ ring[s].state = "BUILDING" /\ ring[s].gen = generation
        BY <2>3, <3>1 DEF Publishes, Publish
      <3>3. Stages(s) BY <2>1, <3>1 DEF Stages
      <3>4. Buffers' BY <2>1, <3>2, <3>3, BuffersPublished
      <3>5. LinkInv' BY <2>1, LinkStays DEF SlotLayer, LinkInv
      <3>6. \A t \in Slots : ring'[t] = ring[t] \/ (ring'[t].state = "READY" /\ ring'[t].gen = generation)
        BY <3>2 DEF ControlLayer, Shapes, SlotRecords
      <3>7. GensInv' BY <2>1, <3>6, GensStay DEF Going
      <3> QED BY <3>4, <3>5, <3>7 DEF Buffers, SlotLayer
    <2> QED BY <1>4, <2>2, <2>3 DEF StagePublish, Publish, ReleaseBuilder
  <1>5. CASE StageReadBusy
    <2>1. stager'.pc = "idle" BY <1>5 DEF StageReadBusy, NoStage
    <2> QED BY <1>5, <2>1, SlotsStagerReleases DEF StageReadBusy
  <1>6. CASE StageReadFails
    <2>1. stager.pc = "reading" /\ stager'.pc = "idle" BY <1>6 DEF StageReadFails, NoStage
    <2>2. CASE active
      <3>1. /\ FailsAtOnce(FALSE) /\ ready' = << >>
            /\ \A s \in Slots : ring'[s] = Cancelled(s) \/ (ring'[s] = FreeSlot /\ Stages(s) /\ stager'.pc # "reading")
            /\ UNCHANGED << selected, completions, app, link, stack, sentBack, connected >>
        BY <1>6, <2>1, <2>2 DEF StageReadFails, Stages
      <3> QED BY <2>1, <3>1, SlotsFailAtOnce
    <2>3. CASE ~active BY <1>6, <2>1, <2>3, SlotsStagerReleases DEF StageReadFails
    <2> QED BY <2>2, <2>3
  <1> QED BY <1>1, <1>2, <1>3, <1>4, <1>5, <1>6

\* The App task takes and publishes a slot for a frame of its own.
LEMMA SlotFrameStep ==
  ASSUME ControlLayer, ControlLayer', SlotLayer, ClaimFrame \/ PublishFrame \/ NotifyRefused
  PROVE  SlotLayer'
  <1>1. CASE ClaimFrame
    <2>1. CASE FreeSlots = {}
      <3>1. app'.pc = "idle" BY <1>1, <2>1 DEF ClaimFrame, AppIdle
      <3> QED BY <1>1, <2>1, <3>1, SlotsAppMoves DEF ClaimFrame
    <2>2. CASE FreeSlots # {}
      <3>1. /\ ring' = [ring EXCEPT ![FirstFree] = Building(Frame(app.what, 0, 0))]
            /\ app.pc = "claim" /\ app'.pc = "publish" /\ app'.slot = FirstFree
            /\ UNCHANGED << active, abortReq, generation, ready, selected, completions, stager,
                            link, stack, sentBack, connected >>
        BY <1>1, <2>2 DEF ClaimFrame, ControlLayer, Shapes, Apps
      <3>2. PICK frame : ring' = [ring EXCEPT ![FirstFree] = Building(frame)] BY <3>1
      <3>3. Buffers' BY <2>2, <3>1, <3>2, BuffersTaken
      <3>4. LinkInv' BY <3>1, LinkStays DEF SlotLayer, LinkInv
      <3>5. FirstFree \in Slots BY <2>2, FirstFreeIsFree
      <3>6. \A s \in Slots : ring'[s] = ring[s] \/ (ring'[s].state = "BUILDING" /\ ring'[s].gen = generation)
        BY <3>2, <3>5 DEF ControlLayer, Shapes, Building
      <3>7. GensInv' BY <3>1, <3>6, GensStay DEF Going
      <3> QED BY <3>3, <3>4, <3>7 DEF Buffers, SlotLayer
    <2> QED BY <2>1, <2>2
  <1>2. CASE PublishFrame
    <2>1. PICK s \in Slots : s = app.slot /\ app.pc = "publish"
      BY <1>2 DEF PublishFrame, ControlLayer, ControlInv
    <2>2. UNCHANGED << active, abortReq, generation, completions, stager, link, stack, sentBack, connected >>
      BY <1>2 DEF PublishFrame
    <2>3. Holding(s) BY <2>1 DEF SlotLayer, HoldersInv
    <2>4. stager.pc = "reading" => stager.slot # s BY <2>1 DEF SlotLayer, HoldersInv
    <2>5. CASE Publishes(s)
      <3>1. /\ ring' = [ring EXCEPT ![s].state = "READY"] /\ ready' = Append(ready, s)
            /\ ring[s].state = "BUILDING" /\ ring[s].gen = generation
            /\ selected' = Head(ready') /\ app'.pc = "selected"
        BY <1>2, <2>1, <2>5 DEF PublishFrame, Publish, Publishes, AppIdle
      <3>2. Publishing(s) BY <2>1 DEF Publishing
      <3>3. Buffers' BY <2>2, <3>1, <3>2, BuffersPublished
      <3>4. LinkInv' BY <2>1, <2>2, <3>1, LinkStays DEF SlotLayer, LinkInv
      <3>5. \A t \in Slots : ring'[t] = ring[t] \/ (ring'[t].state = "READY" /\ ring'[t].gen = generation)
        BY <3>1 DEF ControlLayer, Shapes, SlotRecords
      <3>6. GensInv' BY <2>1, <2>2, <3>5, GensStay DEF Going
      <3> QED BY <3>3, <3>4, <3>6 DEF Buffers, SlotLayer
    <2>6. CASE ~Publishes(s)
      <3>1. /\ ring' = [ring EXCEPT ![s] = FreeSlot] /\ ready' = ready
            /\ selected' = selected /\ app'.pc = "idle"
        BY <1>2, <2>1, <2>6 DEF PublishFrame, Publish, Publishes, AppIdle
      <3>2. ~ring[s].pending /\ ring[s].state # "READY" BY <2>3 DEF Holding
      <3>3. Buffers' BY <2>1, <2>2, <2>4, <3>1, <3>2, BuffersGiven
      <3>4. LinkInv' BY <2>1, <2>2, <3>1, LinkStays DEF SlotLayer, LinkInv
      <3>5. \A t \in Slots : ring'[t].state = "FREE" \/ ring'[t] = ring[t]
        BY <3>1 DEF ControlLayer, Shapes, FreeSlot
      <3>6. GensInv' BY <2>1, <2>2, <3>5, GensStay DEF Going
      <3> QED BY <3>3, <3>4, <3>6 DEF Buffers, SlotLayer
    <2> QED BY <2>5, <2>6
  <1>3. CASE NotifyRefused
    <2>1. PICK s \in Slots : s = selected /\ app.pc = "selected"
      BY <1>3 DEF NotifyRefused, ControlLayer, ControlInv, Shapes, NoSlot
    <2>2. /\ app'.pc = "idle" /\ selected' = NoSlot
          /\ UNCHANGED << active, abortReq, generation, completions, stager, link, stack, sentBack, connected >>
      BY <1>3 DEF NotifyRefused, AppIdle
    <2>3. LinkInv' BY <2>1, <2>2, LinkStays DEF SlotLayer, LinkInv
    <2>4. CASE ring' = [ring EXCEPT ![s] = FreeSlot] /\ ready' = Less(ready, {s})
      <3>1. ~ring[s].pending BY <2>1 DEF SlotLayer, HoldersInv
      <3>2. stager.pc = "reading" => stager.slot # s
        BY <2>1 DEF SlotLayer, HoldersInv, Holding
      <3>3. Buffers' BY <2>1, <2>2, <2>4, <3>1, <3>2, BuffersGiven
      <3>4. \A t \in Slots : ring'[t].state = "FREE" \/ ring'[t] = ring[t]
        BY <2>4 DEF ControlLayer, Shapes, FreeSlot
      <3>5. GensInv' BY <2>1, <2>2, <3>4, GensStay DEF Going
      <3> QED BY <2>3, <3>3, <3>5 DEF Buffers, SlotLayer
    <2>5. CASE UNCHANGED << ring, ready >>
      <3>1. Buffers' BY <2>1, <2>2, <2>5, BuffersStay
      <3>2. GensInv' BY <2>1, <2>2, <2>5, GensStay DEF Going
      <3> QED BY <2>3, <3>1, <3>2 DEF Buffers, SlotLayer
    <2> QED BY <1>3, <2>1, <2>4, <2>5 DEF NotifyRefused
  <1> QED BY <1>1, <1>2, <1>3

\* The steps that cancel or end a session.
LEMMA SlotEndStep ==
  ASSUME ControlLayer, ControlLayer', SlotLayer,
         \/ Begin \/ CaptureAborts \/ FailFlags \/ FailCancels \/ AbortTimeout
         \/ SendComplete \/ SendCompleteFails
  PROVE  SlotLayer'
  <1>1. CASE Begin
    <2>1. /\ \A s \in Slots : ring'[s] = FreeSlot
          /\ FreeSlot.state = "FREE" /\ FreeSlot.pending = FALSE
          /\ ready' = << >> /\ completions' = << >> /\ selected' = NoSlot
          /\ app'.pc = "idle" /\ stager'.pc = "idle" /\ connected' /\ connected
          /\ UNCHANGED << link, stack, sentBack, app >>
      BY <1>1 DEF Begin, AppMayRun, FreeSlot
    <2>2. completions = << >> BY <1>1 DEF Begin, ReuseSafe
    <2>3. SlotShapes' BY <2>1 DEF SlotShapes
    <2>4. HoldersInv' BY <2>1 DEF HoldersInv
    <2>5. QueuesInv' BY <2>1 DEF QueuesInv
    <2>6. LinkInv' BY <2>1, <2>2 DEF SlotLayer, LinkInv
    <2>7. GensInv' BY <2>1 DEF GensInv
    <2> QED BY <2>3, <2>4, <2>5, <2>6, <2>7 DEF SlotLayer
  <1>2. CASE CaptureAborts
    <2>1. /\ FailsAtOnce(readyLatched) /\ ready' = << >> /\ stager' = stager
          /\ \A s \in Slots : ring'[s] = Cancelled(s)
          /\ UNCHANGED << selected, completions, app, link, stack, sentBack, connected >>
      BY <1>2 DEF CaptureAborts, CancelUnsent
    <2> QED BY <2>1, SlotsFailAtOnce
  <1>3. CASE FailFlags
    <2>1. /\ app.pc = "failing" /\ app'.pc = "cancelling" /\ app'.what = app.what
          /\ UNCHANGED << ring, ready, selected, completions, stager, link, stack, sentBack, connected >>
      BY <1>3 DEF FailFlags, ControlLayer, Shapes, Apps
    <2>2. Buffers' BY <2>1, BuffersStay
    <2>3. LinkInv' BY <2>1, LinkStays DEF SlotLayer, LinkInv
    <2>4. abortReq' BY <1>3 DEF FailFlags, AbortFlags
    <2>5. GensInv' BY <2>4 DEF GensInv, Going
    <2> QED BY <2>2, <2>3, <2>5 DEF Buffers, SlotLayer
  <1>4. CASE FailCancels
    <2>1. /\ app.pc = "cancelling" /\ app'.pc = "idle" /\ stager' = stager
          /\ UNCHANGED << link, stack, sentBack, connected, abortReq >> /\ ready' = << >>
      BY <1>4 DEF FailCancels, CancelUnsent, AppIdle
    <2>2. abortReq BY <2>1 DEF ControlLayer, ControlInv
    <2>3. GensInv' BY <2>1, <2>2 DEF GensInv, Going
    <2>4. CASE app.what = "disconnect"
      <3>1. ring' = [s \in Slots |-> AfterTeardown(s)] /\ completions' = << >>
        BY <1>4, <2>4 DEF FailCancels, CompletionsAfterTeardown
      <3>2. Buffers' BY <2>1, <3>1, BuffersTornDown
      <3>3. ~connected /\ link = "down" /\ sentBack = << >> /\ stack = << >>
        BY <2>1, <2>4 DEF SlotLayer, LinkInv
      <3>4. LinkInv' BY <2>1, <3>1, <3>3 DEF LinkInv
      <3> QED BY <2>3, <3>2, <3>4 DEF Buffers, SlotLayer
    <2>5. CASE app.what # "disconnect"
      <3>1. /\ \A s \in Slots : ring'[s] = Cancelled(s)
            /\ UNCHANGED << selected, completions >>
        BY <1>4, <2>5 DEF FailCancels, CancelUnsent
      <3>2. ring' \in [Slots -> SlotRecords] BY DEF ControlLayer, Shapes
      <3>3. Buffers' BY <2>1, <3>1, <3>2, BuffersCancelled
      <3>4. LinkInv' BY <2>1, <2>5, <3>1, LinkStays DEF SlotLayer, LinkInv
      <3> QED BY <2>3, <3>3, <3>4 DEF Buffers, SlotLayer
    <2> QED BY <2>4, <2>5
  <1>5. CASE AbortTimeout
    <2>1. Buffers' BY <1>5, BuffersGivenUp
    <2>2. app' = app /\ app.pc = "idle" /\ abortReq
          /\ UNCHANGED << completions, link, stack, sentBack, connected >>
          /\ (abortReq' \/ ~active')
      BY <1>5 DEF AbortTimeout, AppMayRun, Finish, GoesOn
    <2>3. LinkInv' BY <2>2, LinkStays DEF SlotLayer, LinkInv
    <2>4. GensInv' BY <2>2 DEF GensInv, Going
    <2> QED BY <2>1, <2>3, <2>4 DEF Buffers, SlotLayer
  <1>6. CASE SendComplete
    <2>1. AppMayRun /\ sentBack # << >> /\ sentBack' = Tail(sentBack)
          /\ UNCHANGED << link, connected, stack, ready, selected, generation, stager >>
      BY <1>6 DEF SendComplete
    <2>2. completions # << >> /\ ring[Head(completions)].pending
      <3>1. completions \in Seq(Slots) /\ sentBack \in Seq(Slots) /\ stack \in Seq(Slots)
        BY DEF ControlLayer, Shapes
      <3>2. Len(sentBack) \in Nat \ {0} /\ Len(stack) \in Nat BY <2>1, <3>1, HeadIsFirst, LenProperties
      <3>3. Len(completions) # 0 BY <3>1, <3>2, LenProperties DEF SlotLayer, LinkInv
      <3>4. completions # << >> BY <3>3, EmptySeq
      <3> QED BY <3>1, <3>4, HeadIsFirst DEF SlotLayer, QueuesInv
    <2>3. active
      BY <2>2 DEF ControlLayer, ControlInv, AtRest, ReuseSafe
    <2>4. /\ ring' = [ring EXCEPT ![Head(completions)] = FreeSlot]
          /\ completions' = Tail(completions)
          /\ Finish(FALSE) \/ GoesOn
      BY <1>6, <2>2, <2>3 DEF SendComplete
    <2>5. app' = app /\ (active' => active) /\ (abortReq => abortReq' \/ ~active')
      BY <2>4 DEF Finish, GoesOn
    <2> QED BY <2>1, <2>2, <2>4, <2>5, SlotsComplete
  <1>7. CASE SendCompleteFails
    <2>1. app'.pc = "failing" /\ app'.what # "disconnect" BY <1>7 DEF SendCompleteFails, AppFails, AppIdle
    <2> QED BY <1>7, <2>1, SlotsComplete DEF SendCompleteFails
  <1> QED BY <1>1, <1>2, <1>3, <1>4, <1>5, <1>6, <1>7

\* The steps of the link.
LEMMA SlotLinkStep ==
  ASSUME ControlLayer, ControlLayer', SlotLayer,
         HandleDisconnect \/ StackSends \/ LinkDrop \/ Reconnect
  PROVE  SlotLayer'
  <1>1. CASE HandleDisconnect
    <2>1. /\ app.pc = "idle" /\ connected' = FALSE /\ link = "down" /\ sentBack = << >>
          /\ UNCHANGED << ring, ready, selected, completions, stager, link, stack, sentBack, abortReq >>
      BY <1>1 DEF HandleDisconnect, AppMayRun
    <2>2. CASE active
      <3>1. app'.pc = "failing" /\ app'.what = "disconnect"
        BY <1>1, <2>2 DEF HandleDisconnect, AppFails, AppIdle
      <3>2. Buffers' BY <2>1, <3>1, BuffersStay
      <3>3. LinkInv' BY <2>1, <3>1 DEF SlotLayer, LinkInv
      <3>4. GensInv' BY <3>1 DEF GensInv, Going
      <3> QED BY <3>2, <3>3, <3>4 DEF Buffers, SlotLayer
    <2>3. CASE ~active
      <3>1. app' = app /\ active' = active BY <1>1, <2>3 DEF HandleDisconnect
      <3>2. completions = << >> BY <2>3 DEF ControlLayer, ControlInv, AtRest, ReuseSafe
      <3>3. Buffers' BY <2>1, <3>1, BuffersStay
      <3>4. LinkInv' BY <2>1, <3>1, <3>2 DEF SlotLayer, LinkInv
      <3>5. GensInv' BY <2>3, <3>1 DEF GensInv, Going
      <3> QED BY <3>3, <3>4, <3>5 DEF Buffers, SlotLayer
    <2> QED BY <2>2, <2>3
  <1>2. CASE StackSends \/ LinkDrop \/ Reconnect
    <2>1. UNCHANGED << active, abortReq, generation, ring, ready, selected, completions, stager, app >>
      BY <1>2 DEF StackSends, LinkDrop, Reconnect
    <2>2. app'.pc = "selected" => app.pc = "selected" /\ selected' = selected BY <2>1
    <2>3. Buffers' BY <2>1, <2>2, BuffersStay
    <2>4. GensInv' BY <2>1, GensStay DEF Going
    <2>5. completions \in Seq(Slots) /\ sentBack \in Seq(Slots) /\ stack \in Seq(Slots)
      BY DEF ControlLayer, Shapes
    <2>6. /\ Len(sentBack) \in Nat /\ DOMAIN sentBack = 1 .. Len(sentBack)
          /\ Len(stack) \in Nat /\ DOMAIN stack = 1 .. Len(stack)
          /\ Len(completions) \in Nat
      BY <2>5, LenProperties
    <2>7. CASE StackSends
      <3>1. /\ stack # << >> /\ sentBack' = Append(sentBack, Head(stack)) /\ stack' = Tail(stack)
            /\ UNCHANGED << link, connected >>
        BY <2>7 DEF StackSends
      <3>2. /\ Len(stack) # 0 /\ Head(stack) = stack[1] /\ stack[1] \in Slots
            /\ Len(stack') = Len(stack) - 1 /\ DOMAIN stack' = 1 .. Len(stack) - 1
            /\ \A i \in 1 .. Len(stack) - 1 : stack'[i] = stack[i + 1]
        BY <2>5, <3>1, HeadIsFirst, HeadTailProperties, LenProperties
      <3>3. /\ Len(sentBack') = Len(sentBack) + 1 /\ DOMAIN sentBack' = 1 .. Len(sentBack) + 1
            /\ \A i \in 1 .. Len(sentBack) : sentBack'[i] = sentBack[i]
            /\ sentBack'[Len(sentBack) + 1] = stack[1]
        BY <2>5, <3>1, <3>2, AppendProperties, LenProperties
      <3>4. \A i \in DOMAIN sentBack' : completions[i] = sentBack'[i]
        <4>1. 1 \in DOMAIN stack BY <2>6, <3>2
        <4>2. completions[Len(sentBack) + 1] = stack[1] BY <4>1 DEF SlotLayer, LinkInv
        <4> QED BY <2>6, <3>3, <4>2 DEF SlotLayer, LinkInv
      <3>5. \A i \in DOMAIN stack' : completions[Len(sentBack') + i] = stack'[i]
        <4> TAKE i \in DOMAIN stack'
        <4>0. PICK a \in Nat, b \in Nat : a = Len(sentBack) /\ b = Len(stack) BY <2>6
        <4>1. i + 1 \in DOMAIN stack /\ Len(sentBack') + i = Len(sentBack) + (i + 1)
          <5>1. i \in 1 .. b - 1 BY <3>2, <4>0
          <5>2. i + 1 \in 1 .. b /\ (a + 1) + i = a + (i + 1) BY <4>0, <5>1
          <5> QED BY <2>6, <3>3, <4>0, <5>2
        <4>2. completions[Len(sentBack) + (i + 1)] = stack[i + 1] BY <4>1 DEF SlotLayer, LinkInv
        <4> QED BY <3>2, <4>1, <4>2
      <3>6. link # "down" /\ connected
        BY <3>1 DEF SlotLayer, LinkInv
      <3>7. Len(sentBack') + Len(stack') = Len(sentBack) + Len(stack) BY <2>6, <3>2, <3>3
      <3>8. LinkInv' BY <2>1, <3>1, <3>4, <3>5, <3>6, <3>7 DEF SlotLayer, LinkInv
      <3> QED BY <2>3, <2>4, <3>8 DEF Buffers, SlotLayer
    <2>8. CASE LinkDrop
      <3>1. /\ stack' = << >> /\ UNCHANGED << connected, sentBack >> /\ link = "up" /\ link' = "down"
            /\ Len(stack') = 0
        BY <2>8, EmptySeq DEF LinkDrop
      <3>2. connected BY <3>1 DEF SlotLayer, LinkInv
      <3>3. Len(sentBack) <= Len(completions) BY <2>6 DEF SlotLayer, LinkInv
      <3>4. LinkInv' BY <2>1, <2>6, <3>1, <3>2, <3>3 DEF SlotLayer, LinkInv
      <3> QED BY <2>3, <2>4, <3>4 DEF Buffers, SlotLayer
    <2>9. CASE Reconnect
      <3>1. /\ app.pc = "idle" /\ ~connected /\ connected' /\ link' = "up"
            /\ UNCHANGED << stack, sentBack >>
        BY <2>9 DEF Reconnect, AppMayRun
      <3>2. completions = << >> /\ sentBack = << >> /\ stack = << >>
        BY <3>1 DEF SlotLayer, LinkInv
      <3>3. LinkInv' BY <2>1, <3>1, <3>2, EmptySeq DEF LinkInv
      <3> QED BY <2>3, <2>4, <3>3 DEF Buffers, SlotLayer
    <2> QED BY <1>2, <2>7, <2>8, <2>9
  <1> QED BY <1>1, <1>2

LEMMA SlotStep ==
  ASSUME ControlLayer, ControlLayer', SlotLayer, [StreamNext]_vars
  PROVE  SlotLayer'
  <1>1. CASE Commit \/ CaptureDone \/ HandleReady \/ CleanupReady \/ AbortOverLink \/ UNCHANGED vars
    <2>1. /\ UNCHANGED << generation, ring, ready, selected, completions, stager, app,
                          link, stack, sentBack, connected >>
          /\ active' => active
          /\ abortReq => abortReq' \/ ~active'
      <3>0. CASE Commit BY <3>0 DEF Commit
      <3>1. CASE CaptureDone BY <3>1 DEF CaptureDone
      <3>2. CASE HandleReady \/ CleanupReady BY <3>2 DEF HandleReady, CleanupReady
      <3>3. CASE AbortOverLink BY <3>3 DEF AbortOverLink, Finish
      <3>4. CASE UNCHANGED vars BY <3>4 DEF vars
      <3> QED BY <1>1, <3>0, <3>1, <3>2, <3>3, <3>4
    <2> QED BY <2>1, SlotsIdle
  <1>2. ASSUME NEW reason \in {"host_stop", "low_battery"}, RequestStop(reason) PROVE SlotLayer'
    <2>1. app.pc = "idle" /\ app'.pc = "asked" BY <1>2 DEF RequestStop, AppMayRun, AppIdle
    <2> QED BY <1>2, <2>1, SlotsAppMoves DEF RequestStop, Testing
  <1>9. CASE StopGoesOn
    <2>1. app.pc \in Testing \cup Storing /\ app'.pc \in {"idle"} \cup Testing \cup Storing
      BY <1>9, StopSteps
    <2>2. UNCHANGED << active, abortReq, generation, ring, ready, completions, stager,
                       link, stack, sentBack, connected >>
      BY <1>9 DEF StopGoesOn, StopChecksBattery, StopOverrides, StopChecksEnd, StopNames,
                  StopRequestsEnd, StopClears
    <2>3. app'.pc # "selected" BY <2>1 DEF Testing, Storing
    <2> QED BY <2>1, <2>2, <2>3, SlotsAppMoves
  <1>3. CASE AppAborts \/ EndCannotClose \/ TxStall
    <2>1. PICK what : AppFails(what) /\ what # "disconnect"
      BY <1>3 DEF AppAborts, EndCannotClose, TxStall
    <2>2. app.pc = "idle" /\ UNCHANGED << ring, ready, selected, completions, stager, link, stack, sentBack, connected >>
      BY <1>3 DEF AppAborts, EndCannotClose, TxStall, AppMayRun, MaySend
    <2> QED BY <2>1, <2>2, SlotsAppFails
  <1>4. CASE SelectReady \/ DecideFrame
    <2>1. /\ UNCHANGED << active, abortReq, generation, ring, ready, completions, stager,
                          link, stack, sentBack, connected >>
          /\ app.pc = "idle" /\ app'.pc \in {"claim", "selected"}
          /\ app'.pc = "selected" => ready # << >> /\ selected' = Head(ready)
      BY <1>4 DEF SelectReady, DecideFrame, MaySend, AppMayRun, AppIdle
    <2> QED BY <2>1, SlotsAppMoves
  <1>5. ASSUME NEW n \in 1 .. Records, RecordAck(n) PROVE SlotLayer'
    <2>1. app.pc = "idle" /\ app'.pc = "acking" BY <1>5 DEF RecordAck, AppMayRun, AppIdle
    <2> QED BY <1>5, <2>1, SlotsAppMoves DEF RecordAck
  <1>10. CASE AckRetires
    <2>1. UNCHANGED << ring, ready, selected, completions, stager, link, stack, sentBack, connected, active, abortReq >>
          /\ app.pc = "acking"
      BY <1>10 DEF AckRetires
    <2>2. CASE AppFails("failure") BY <2>1, <2>2, SlotsAppFails
    <2>3. CASE app' = AppIdle /\ UNCHANGED generation
      <3>1. app'.pc = "idle" BY <2>3 DEF AppIdle
      <3> QED BY <2>1, <2>3, <3>1, SlotsAppMoves
    <2> QED BY <1>10, <2>2, <2>3 DEF AckRetires
  <1>6. CASE EndAck
    <2>1. UNCHANGED << generation, ring, ready, selected, completions, stager, app,
                       link, stack, sentBack, connected >>
          /\ (active' => active) /\ ~abortReq
      BY <1>6 DEF EndAck, Finish
    <2> QED BY <2>1, SlotsIdle
  <1>7. CASE AckTimeout
    <2>1. UNCHANGED << ring, ready, selected, completions, stager, link, stack, sentBack, connected, active, abortReq >>
          /\ app.pc = "idle"
      BY <1>7 DEF AckTimeout, AppMayRun
    <2>2. CASE AppFails("failure") BY <2>1, <2>2, SlotsAppFails
    <2>3. CASE UNCHANGED << app, generation >> BY <2>1, <2>3, SlotsIdle
    <2> QED BY <1>7, <2>2, <2>3 DEF AckTimeout
  <1>8. CASE TransportUnavailable
    <2>1. UNCHANGED << ring, ready, selected, completions, stager, link, stack, sentBack, connected, active, abortReq >>
          /\ app.pc = "idle"
      BY <1>8 DEF TransportUnavailable, AppMayRun
    <2>2. CASE AppFails("transport") BY <2>1, <2>2, SlotsAppFails
    <2>3. CASE UNCHANGED << app, generation >> BY <2>1, <2>3, SlotsIdle
    <2> QED BY <1>8, <2>2, <2>3 DEF TransportUnavailable
  <1> QED BY <1>1, <1>2, <1>3, <1>4, <1>5, <1>6, <1>7, <1>8, <1>9, <1>10,
             SlotStagerStep, SlotFrameStep, SlotEndStep, SlotLinkStep, SlotsAccepted
      DEF StreamNext

LEMMA SlotsHold == StreamSpec => [](ControlLayer /\ SlotLayer)
  <1>1. StreamInit => SlotLayer BY SlotInit
  <1>2. ControlLayer /\ ControlLayer' /\ SlotLayer /\ [StreamNext]_vars => SlotLayer' BY SlotStep
  <1> QED BY <1>1, <1>2, ControlHolds, PTL DEF StreamSpec

\* A position in the stack's queue is one in the queue of completions.
LEMMA StackIsDue ==
  ASSUME ControlLayer, SlotLayer, NEW i \in DOMAIN stack
  PROVE  /\ Len(sentBack) + i \in DOMAIN completions
         /\ completions[Len(sentBack) + i] = stack[i] /\ stack[i] \in Slots
         /\ ring[stack[i]].pending
  <1>1. completions \in Seq(Slots) /\ sentBack \in Seq(Slots) /\ stack \in Seq(Slots)
    BY DEF ControlLayer, Shapes
  <1>2. PICK a \in Nat, b \in Nat, c \in Nat :
          /\ a = Len(sentBack) /\ b = Len(stack) /\ c = Len(completions)
          /\ DOMAIN stack = 1 .. b /\ DOMAIN completions = 1 .. c
    BY <1>1, LenProperties
  <1>3. a + b <= c BY <1>2 DEF SlotLayer, LinkInv
  <1>4. a + i \in 1 .. c BY <1>2, <1>3
  <1>5. completions[Len(sentBack) + i] = stack[i] BY DEF SlotLayer, LinkInv
  <1>6. stack[i] \in Slots BY <1>1, MembersOf
  <1> QED BY <1>2, <1>4, <1>5, <1>6 DEF SlotLayer, QueuesInv

\* The buffers that the stack has to send and the one a task writes into are
\* neither free nor ready, and the workspace is kept for them, whatever is
\* cancelled and torn down meanwhile.
THEOREM StreamKeepsHeldBuffers == StreamSpec => []HeldBuffersKept
  <1>1. ControlLayer /\ SlotLayer => HeldBuffersKept
    <2> SUFFICES ASSUME ControlLayer, SlotLayer PROVE HeldBuffersKept OBVIOUS
    <2>1. ASSUME NEW i \in DOMAIN stack
          PROVE  /\ ring[stack[i]].state \in {"IN_FLIGHT", "QUARANTINED"} /\ ring[stack[i]].pending
                 /\ stager.pc = "reading" => stager.slot # stack[i]
      <3>1. stack[i] \in Slots /\ ring[stack[i]].pending BY StackIsDue
      <3> QED BY <3>1 DEF SlotLayer, SlotShapes, HoldersInv, Holding
    <2>2. /\ stager.pc = "reading" => ring[stager.slot].state \in {"BUILDING", "QUARANTINED"}
          /\ app.pc = "publish" => ring[app.slot].state \in {"BUILDING", "QUARANTINED"}
      BY DEF SlotLayer, HoldersInv, Holding
    <2>3. stack # << >> \/ stager.pc = "reading" => workspace
      <3> SUFFICES ASSUME ~active, stack # << >> \/ stager.pc = "reading" PROVE FALSE
        BY DEF ControlLayer, ControlInv
      <3>1. completions = << >> /\ \A s \in Slots : ring[s].state = "FREE"
        BY DEF ControlLayer, ControlInv, AtRest, ReuseSafe
      <3>2. stager.pc # "reading" BY <2>2, <3>1 DEF ControlLayer, ControlInv
      <3>3. stack \in Seq(Slots) /\ stack # << >> BY <3>2 DEF ControlLayer, Shapes
      <3>4. 1 \in DOMAIN stack BY <3>3, HeadIsFirst
      <3>5. ring[stack[1]].state \in {"IN_FLIGHT", "QUARANTINED"} /\ stack[1] \in Slots
        BY <2>1, <3>3, <3>4, MembersOf
      <3> QED BY <3>1, <3>5
    <2> QED BY <2>1, <2>2, <2>3 DEF HeldBuffersKept
  <1> QED BY <1>1, SlotsHold, PTL

-----------------------------------------------------------------------------
(* The kinds of steps, as the third and the fourth layer see them.           *)

phases == << session, active, startSent, endReq, endWait, endAcked, abortReq, cleanupReady >>
counts == << tx, ackWait, committed, backlog, inFlight >>

Quiet ==
  UNCHANGED << phases, counts, app, stager, capturing, dropped, generation,
               ring, ready, selected, completions, wire >>

Retired ==
  /\ completions # << >> /\ completions' = Tail(completions)
  /\ ring' = [ring EXCEPT ![Head(completions)] = FreeSlot]

\* The App task is in the middle of a stop or of an ACK, or of nothing.
Plain == {"idle", "acking"} \cup Testing \cup Storing

\* It looks at a stop or at an ACK, and changes nothing of the stream.
Moves ==
  /\ active /\ app.pc \in Plain /\ app'.pc \in Plain
  /\ app'.pc = "acking" =>
       /\ app.pc = "idle" /\ ~abortReq
       /\ ackWait # << >> /\ Head(ackWait) # 0 /\ Head(ackWait) = app'.n
  /\ UNCHANGED << phases, counts, stager, capturing, dropped, generation,
                  ring, ready, selected, completions, wire >>

\* The App task gives the session up, perhaps for a frame that was not sent.
GivesUp ==
  /\ active /\ app.pc \in {"idle", "acking"} /\ app'.pc = "failing"
  /\ UNCHANGED << ring, completions >> \/ Retired
  /\ UNCHANGED << phases, counts, stager, capturing, dropped, ready, selected, wire >>

\* A failure of the capture task or of the Flash.
FailsNow ==
  /\ active /\ (capturing \/ stager.pc # "idle")
  /\ abortReq' /\ ~endWait' /\ ~endAcked' /\ tx' = NoTx /\ ackWait' = << >>
  /\ \A s \in Slots : ring'[s] = Cancelled(s) \/ (ring'[s] = FreeSlot /\ Stages(s) /\ stager' = NoStage)
  /\ ready' = << >>
  /\ stager' = stager \/ stager' = NoStage
  /\ UNCHANGED << session, active, startSent, cleanupReady, committed, backlog, inFlight,
                  app, capturing, dropped, selected, completions, wire >>

\* A session ends with every slot back.
Ends ==
  /\ AppMayRun /\ active /\ ReuseSafe' /\ ready' = << >>
  /\ \/ abortReq /\ cleanupReady
     \/ endWait /\ ~abortReq
     \/ endAcked
     \/ abortReq /\ \E s \in Slots : Out(s) /\ ring[s].frame.kind = "abort"
  /\ ~active' /\ ~endReq' /\ ~endWait' /\ ~endAcked' /\ ~abortReq' /\ ~cleanupReady'
  /\ tx' = NoTx /\ ackWait' = << >> /\ backlog' = << >> /\ inFlight' = << >>
  /\ stopReport'.reason = stopReason /\ (stopReport'.timeout => abortReq)
  /\ UNCHANGED << session, startSent, committed, app, stager, capturing, dropped, generation,
                  selected, wire >>

\* A stop that was not asked for before is stored.
Stops ==
  /\ active /\ app.pc \in Storing /\ app'.pc \in {"clearing", "idle"}
  /\ ~cleanupReady /\ ~cleanupReady' /\ (endAcked' = endAcked \/ ~endAcked')
  /\ UNCHANGED << session, active, startSent, endWait, abortReq, counts, stager, capturing,
                  dropped, generation, ring, ready, selected, completions, wire >>

\* A completion that ends nothing.
Completes ==
  /\ AppMayRun /\ active /\ Retired
  /\ endAcked /\ ring[Head(completions)].gen = generation => ~ReuseSafe'
  /\ UNCHANGED << phases, counts, app, stager, capturing, dropped, generation,
                  ready, selected, wire >>

Acks ==
  /\ active /\ app.pc = "acking" /\ app'.pc = "idle"
  /\ inFlight # << >> /\ inFlight' = Tail(inFlight)
  /\ ackWait' = IF ackWait = << >> THEN << >> ELSE Tail(ackWait)
  /\ UNCHANGED << phases, tx, committed, backlog, stager, capturing, dropped, generation,
                  ring, ready, selected, completions, wire >>

\* END is acked before its buffer is back, or its ACK is overdue.
EndHeard ==
  /\ AppMayRun /\ active /\ endWait
  /\ \/ ~abortReq /\ ~ReuseSafe /\ endAcked'
     \/ ReuseSafe /\ ackWait # << >> /\ Head(ackWait) = 0 /\ endAcked' = endAcked
  /\ ~endWait' /\ ackWait' = << >>
  /\ UNCHANGED << session, active, startSent, endReq, abortReq, cleanupReady,
                  tx, committed, backlog, inFlight, app, stager, capturing, dropped, generation, ring, ready, selected, completions, wire >>

\* The poll drops the ABORT that nobody took.
Withdraws ==
  /\ AppMayRun /\ abortReq /\ cleanupReady
  /\ \A s \in Slots : ring'[s] = IF s \in UnsentTerminal THEN FreeSlot ELSE ring[s]
  /\ ready' = Less(ready, UnsentTerminal)
  /\ UNCHANGED << phases, counts, app, stager, capturing, dropped, generation,
                  selected, completions, wire >>

\* When nothing is out, nothing is queued.
LEMMA SafeIsEmpty ==
  ASSUME ControlLayer', SlotLayer', ReuseSafe'
  PROVE  ready' = << >>
  <1> SUFFICES ASSUME ready' # << >> PROVE FALSE OBVIOUS
  <1>1. ready' \in Seq(Slots) BY DEF ControlLayer, Shapes
  <1>2. 1 \in DOMAIN ready' /\ ready'[1] \in Slots BY <1>1, HeadIsFirst
  <1> QED BY <1>2 DEF SlotLayer, QueuesInv, ReuseSafe

LEMMA StepKinds ==
  ASSUME ControlLayer, SlotLayer, ControlLayer', SlotLayer', RestInv, [StreamNext]_vars
  PROVE  \/ Quiet \/ Moves \/ GivesUp \/ FailsNow \/ Ends \/ Stops
         \/ Completes \/ Acks \/ EndHeard \/ Withdraws
         \/ StageGate \/ StageTake \/ StagePublish \/ StageReadBusy
         \/ Commit \/ CaptureDone \/ Begin \/ FailFlags \/ FailCancels \/ CleanupReady
         \/ SelectReady \/ DecideFrame \/ ClaimFrame \/ PublishFrame
         \/ NotifyAccepted \/ NotifyRefused
  <1> USE DEF phases, counts
  <1>1. CASE HandleReady \/ StackSends \/ LinkDrop \/ Reconnect \/ UNCHANGED vars
    <2>1. CASE HandleReady BY <2>1 DEF HandleReady, Quiet
    <2>2. CASE StackSends BY <2>2 DEF StackSends, Quiet
    <2>3. CASE LinkDrop \/ Reconnect BY <2>3 DEF LinkDrop, Reconnect, Quiet
    <2>4. CASE UNCHANGED vars BY <2>4 DEF vars, Quiet
    <2> QED BY <1>1, <2>1, <2>2, <2>3, <2>4
  <1>2. ASSUME NEW what, AppFails(what), active, app.pc \in {"idle", "acking"},
               UNCHANGED << phases, counts, stager, capturing, dropped, ring, ready, selected, completions, wire >>
        PROVE  GivesUp
    BY <1>2 DEF AppFails, AppIdle, GivesUp
  <1>3. CASE AppAborts BY <1>2, <1>3 DEF AppAborts, AppMayRun
  <1>4. CASE EndCannotClose BY <1>2, <1>4 DEF EndCannotClose, MaySend, AppMayRun
  <1>5. CASE TxStall BY <1>2, <1>5 DEF TxStall, AppMayRun
  <1>6. CASE TransportUnavailable
    <2>1. CASE active BY <1>2, <1>6, <2>1 DEF TransportUnavailable, AppMayRun
    <2>2. CASE ~active BY <1>6, <2>2 DEF TransportUnavailable, Quiet
    <2> QED BY <2>1, <2>2
  <1>7. CASE HandleDisconnect
    <2>1. CASE active BY <1>2, <1>7, <2>1 DEF HandleDisconnect, AppMayRun
    <2>2. CASE ~active BY <1>7, <2>2 DEF HandleDisconnect, Quiet
    <2> QED BY <2>1, <2>2
  <1>8. CASE SendCompleteFails
    BY <1>8 DEF SendCompleteFails, AppFails, AppIdle, AppMayRun, GivesUp, Retired
  <1>9. CASE StagePeekFails
    <2>1. active BY <1>9 DEF StagePeekFails, RestInv
    <2> QED BY <1>9, <2>1 DEF StagePeekFails, CancelUnsent, FailsAtOnce, AbortFlags, FailsNow
  <1>10. CASE StageReadFails
    <2>1. active BY <1>10 DEF StageReadFails, RestInv
    <2> QED BY <1>10, <2>1 DEF StageReadFails, FailsAtOnce, AbortFlags, FailsNow, Stages
  <1>11. CASE CaptureAborts
    BY <1>11 DEF CaptureAborts, CancelUnsent, FailsAtOnce, AbortFlags, FailsNow
  <1>12. ASSUME NEW reason \in {"host_stop", "low_battery"}, RequestStop(reason) PROVE Moves
    <2>1. app.pc = "idle" /\ app'.pc = "asked" BY <1>12 DEF RequestStop, AppMayRun, AppIdle
    <2> QED BY <1>12, <2>1 DEF RequestStop, Moves, Plain, Testing
  <1>20. CASE StopGoesOn
    <2> USE DEF Testing, Storing
    <2>1. active /\ (app.pc \in Storing => ~cleanupReady)
      BY <1>20 DEF StopGoesOn, StopChecksBattery, StopOverrides, StopChecksEnd, StopNames,
                   StopRequestsEnd, StopClears, ControlLayer, ControlInv, AtRest
    <2>2. CASE StopChecksBattery \/ StopOverrides \/ StopChecksEnd \/ StopNames
      <3>1. /\ app.pc \in Testing \cup Storing
            /\ app'.pc \in {"idle"} \cup Testing \cup Storing
        BY <1>20, StopSteps
      <3> QED BY <2>1, <2>2, <3>1
             DEF StopChecksBattery, StopOverrides, StopChecksEnd, StopNames, Moves, Plain
    <2>3. CASE StopRequestsEnd \/ StopClears
      <3>1. app.pc \in Storing /\ app'.pc \in {"clearing", "idle"}
        BY <2>3 DEF StopRequestsEnd, StopClears, AppIdle, ControlLayer, Shapes, Apps
      <3> QED BY <2>1, <2>3, <3>1 DEF StopRequestsEnd, StopClears, Stops
    <2> QED BY <1>20, <2>2, <2>3 DEF StopGoesOn
  <1>13. ASSUME NEW n \in 1 .. Records, RecordAck(n) PROVE Moves
    <2>1. app.pc = "idle" /\ app'.pc = "acking" /\ app'.n = n BY <1>13 DEF RecordAck, AppMayRun, AppIdle
    <2> QED BY <1>13, <2>1 DEF RecordAck, Moves, Plain
  <1>21. CASE AckRetires
    <2>1. app.pc = "acking" /\ active
      BY <1>21 DEF AckRetires, ControlLayer, ControlInv, AtRest
    <2>2. CASE inFlight # << >> /\ Head(inFlight) = app.n
      <3>1. app'.pc = "idle" BY <1>21, <2>2 DEF AckRetires, AppIdle
      <3> QED BY <1>21, <2>1, <2>2, <3>1 DEF AckRetires, Acks, Log!AckOldest
    <2>3. CASE ~(inFlight # << >> /\ Head(inFlight) = app.n)
      BY <1>2, <1>21, <2>1, <2>3 DEF AckRetires
    <2> QED BY <2>2, <2>3
  <1>14. ASSUME NEW timeout \in BOOLEAN, Finish(timeout), AppMayRun, active, ReuseSafe',
                timeout => abortReq,
                \/ abortReq /\ cleanupReady
                \/ endWait /\ ~abortReq
                \/ endAcked
                \/ abortReq /\ \E s \in Slots : Out(s) /\ ring[s].frame.kind = "abort",
                UNCHANGED << generation, selected, stager, capturing, dropped, wire >>
         PROVE  Ends
    <2>1. ready' = << >> BY <1>14, SafeIsEmpty
    <2> QED BY <1>14, <2>1 DEF Finish, Log!DropAll, Ends
  <1>15. CASE EndAck
    <2>1. CASE ReuseSafe
      <3>1. ReuseSafe' BY <1>15, <2>1 DEF EndAck, ReuseSafe
      <3> QED BY <1>14, <1>15, <2>1, <3>1 DEF EndAck
    <2>2. CASE ~ReuseSafe BY <1>15, <2>2 DEF EndAck, EndHeard
    <2> QED BY <2>1, <2>2
  <1>16. CASE AckTimeout
    <2>1. CASE Head(ackWait) = 0 /\ EndMayRepeat
      BY <1>16, <2>1 DEF AckTimeout, EndMayRepeat, EndHeard
    <2>2. CASE ~(Head(ackWait) = 0 /\ EndMayRepeat)
      BY <1>2, <1>16, <2>2 DEF AckTimeout, AppMayRun
    <2> QED BY <2>1, <2>2
  <1>17. CASE AbortOverLink
    <2>1. ReuseSafe' /\ active BY <1>17 DEF AbortOverLink, ReuseSafe, ControlLayer, ControlInv, AtRest
    <2> QED BY <1>14, <1>17, <2>1 DEF AbortOverLink
  <1>18. CASE AbortTimeout
    <2>1. active BY <1>18 DEF AbortTimeout, ControlLayer, ControlInv, AtRest
    <2>2. CASE ReuseSafe'
      <3>1. Finish(TRUE) BY <1>18, <2>2 DEF AbortTimeout
      <3> QED BY <1>14, <1>18, <2>1, <2>2, <3>1 DEF AbortTimeout
    <2>3. CASE ~ReuseSafe' BY <1>18, <2>3 DEF AbortTimeout, GoesOn, Withdraws
    <2> QED BY <2>2, <2>3
  <1>19. CASE SendComplete
    <2>1. CASE GoesOn /\ UNCHANGED << ring, completions >>
      BY <1>19, <2>1 DEF SendComplete, GoesOn, Quiet
    <2>2. CASE active /\ completions # << >> /\ ring[Head(completions)].pending
      <3>1. Retired BY <1>19, <2>2 DEF SendComplete, Retired
      <3>2. UNCHANGED << generation, ready, selected, stager, capturing, dropped, wire >> /\ AppMayRun
        BY <1>19 DEF SendComplete
      <3> DEFINE slot == ring[Head(completions)]
                 over == /\ slot.gen = generation /\ ReuseSafe'
                         /\ \/ slot.frame.kind = "abort" /\ abortReq /\ abortAccepted
                            \/ endAcked
      <3>3. CASE over
        <4>1. Finish(FALSE) BY <1>19, <2>2, <3>3 DEF SendComplete
        <4>2. Head(completions) \in Slots
          BY <2>2, HeadTailProperties DEF ControlLayer, Shapes
        <4>3. Out(Head(completions)) BY <2>2, <4>2 DEF Out, SlotLayer, SlotShapes
        <4> QED BY <1>14, <2>2, <3>2, <3>3, <4>1, <4>2, <4>3
      <3>4. CASE ~over
        <4>1. GoesOn BY <1>19, <2>2, <3>4 DEF SendComplete
        <4> QED BY <2>2, <3>1, <3>2, <3>4, <4>1 DEF GoesOn, Completes
      <3> QED BY <3>3, <3>4
    <2> QED BY <1>19, <2>1, <2>2 DEF SendComplete
  <1> QED BY <1>1, <1>3, <1>4, <1>5, <1>6, <1>7, <1>8, <1>9, <1>10, <1>11, <1>12, <1>13,
             <1>15, <1>16, <1>17, <1>18, <1>19, <1>20, <1>21
      DEF StreamNext

\* A slot that is out was out before, with its frame, and is READY by its publish only.
Aged(s) ==
  Out(s)' =>
    /\ Out(s) /\ ring'[s].frame = ring[s].frame /\ (ring[s].pending => ring'[s].pending)
    /\ ring'[s].state = "READY" =>
         \/ ring[s].state = "READY"
         \/ Stages(s) /\ StagePublish /\ StillStaging /\ Publishes(s)
         \/ Publishing(s) /\ PublishFrame /\ Publishes(s)

\* A task takes a slot for a frame.
Takes(s, frame) ==
  /\ ~Out(s) /\ ring' = [ring EXCEPT ![s] = Building(frame)]
  /\ UNCHANGED << ready, completions, selected >>

LEMMA SlotsAge ==
  ASSUME ControlLayer, SlotLayer, ControlLayer', SlotLayer',
         \/ Quiet \/ Moves \/ GivesUp \/ FailsNow \/ Ends \/ Stops
         \/ Completes \/ Acks \/ EndHeard \/ Withdraws
         \/ StageGate \/ StagePublish \/ StageReadBusy
         \/ Commit \/ CaptureDone \/ Begin \/ FailFlags \/ FailCancels \/ CleanupReady
         \/ SelectReady \/ DecideFrame \/ PublishFrame \/ NotifyAccepted \/ NotifyRefused
  PROVE  \A s \in Slots : Aged(s)
  <1>1. ASSUME NEW s \in Slots, ring'[s] = ring[s] PROVE Aged(s) BY <1>1 DEF Aged, Out
  <1>2. ASSUME NEW s \in Slots, ring'[s] = FreeSlot PROVE Aged(s) BY <1>2 DEF Aged, Out, FreeSlot
  <1>3. ASSUME NEW s \in Slots, ring'[s] = Cancelled(s) PROVE Aged(s)
    <2>1. ring[s].state \in States BY DEF ControlLayer, Shapes, SlotRecords
    <2>2. Shapes BY DEF ControlLayer
    <2>3. CASE ring'[s] = ring[s] BY <1>1, <2>3
    <2>4. CASE ring'[s] = FreeSlot BY <1>2, <2>4
    <2>5. CASE ring'[s] # ring[s] /\ ring'[s] # FreeSlot
      <3>1. /\ ring[s].state # "FREE" /\ ring'[s].state = "QUARANTINED"
            /\ ring'[s].pending = ring[s].pending /\ ring'[s].frame = ring[s].frame
        BY <1>3, <2>1, <2>2, <2>5, CancelledSlot DEF States
      <3> QED BY <3>1 DEF Aged, Out
    <2> QED BY <2>3, <2>4, <2>5
  <1>4. \A s \in Slots, t \in Slots :
          ring' = [ring EXCEPT ![s] = FreeSlot] => ring'[t] = ring[t] \/ ring'[t] = FreeSlot
    BY DEF ControlLayer, Shapes
  <1>5. completions # << >> => Head(completions) \in Slots
    BY HeadTailProperties DEF ControlLayer, Shapes
  <1>6. CASE Quiet \/ Moves \/ Stops \/ Acks \/ EndHeard
    BY <1>1, <1>6 DEF Quiet, Moves, Stops, Acks, EndHeard
  <1>7. CASE GivesUp \/ Completes
    BY <1>1, <1>2, <1>4, <1>5, <1>7 DEF GivesUp, Completes, Retired
  <1>8. CASE FailsNow BY <1>2, <1>3, <1>8 DEF FailsNow
  <1>9. CASE Ends
    <2>1. \A s \in Slots : ring'[s].state = "FREE" BY <1>9 DEF Ends, ReuseSafe
    <2> QED BY <2>1 DEF Aged, Out
  <1>10. CASE Withdraws BY <1>1, <1>2, <1>10 DEF Withdraws
  <1>11. CASE StageGate \/ Commit \/ CaptureDone
    BY <1>1, <1>11 DEF StageGate, Commit, CaptureDone
  <1>12. CASE FailFlags \/ CleanupReady \/ SelectReady \/ DecideFrame
    BY <1>1, <1>12 DEF FailFlags, CleanupReady, SelectReady, DecideFrame
  <1>13. CASE Begin BY <1>2, <1>13 DEF Begin
  <1>14. CASE FailCancels
    <2> SUFFICES ASSUME NEW s \in Slots PROVE Aged(s) OBVIOUS
    <2>1. CASE ring'[s] = Cancelled(s) BY <1>3, <2>1
    <2>2. CASE ring'[s] = FreeSlot BY <1>2, <2>2
    <2> QED BY <1>14, <2>1, <2>2 DEF FailCancels, CancelUnsent, AfterTeardown
  <1>15. CASE StageReadBusy
    <2>1. stager.slot \in Slots BY <1>15 DEF StageReadBusy, ControlLayer, ControlInv
    <2> QED BY <1>1, <1>2, <1>4, <1>15, <2>1 DEF StageReadBusy, ReleaseBuilder
  <1>16. CASE StagePublish
    <2>1. PICK s \in Slots : s = stager.slot /\ stager.pc = "reading"
      BY <1>16 DEF StagePublish, ControlLayer, ControlInv
    <2>2. CASE StillStaging /\ Publishes(s)
      <3>1. ring' = [ring EXCEPT ![s].state = "READY"]
        BY <1>16, <2>1, <2>2 DEF StagePublish, Publish
      <3>2. /\ \A t \in Slots : t # s => ring'[t] = ring[t]
            /\ ring'[s].frame = ring[s].frame /\ ring'[s].pending = ring[s].pending
        BY <3>1 DEF ControlLayer, Shapes, SlotRecords
      <3>3. Stages(s) /\ Out(s) BY <2>1, <2>2 DEF Stages, Out, Publishes
      <3>4. Aged(s) BY <1>16, <2>2, <3>2, <3>3 DEF Aged
      <3> QED BY <1>1, <3>2, <3>4
    <2>3. CASE ~(StillStaging /\ Publishes(s))
      <3>1. ring' = [ring EXCEPT ![s] = FreeSlot]
        BY <1>16, <2>1, <2>3 DEF StagePublish, Publish, ReleaseBuilder
      <3> QED BY <1>1, <1>2, <1>4, <3>1
    <2> QED BY <2>2, <2>3
  <1>17. CASE PublishFrame
    <2>1. PICK s \in Slots : s = app.slot /\ app.pc = "publish"
      BY <1>17 DEF PublishFrame, ControlLayer, ControlInv
    <2>2. CASE Publishes(s)
      <3>1. ring' = [ring EXCEPT ![s].state = "READY"]
        BY <1>17, <2>1, <2>2 DEF PublishFrame, Publish
      <3>2. /\ \A t \in Slots : t # s => ring'[t] = ring[t]
            /\ ring'[s].frame = ring[s].frame /\ ring'[s].pending = ring[s].pending
        BY <3>1 DEF ControlLayer, Shapes, SlotRecords
      <3>3. Publishing(s) /\ Out(s) BY <2>1, <2>2 DEF Publishing, Out, Publishes
      <3>4. Aged(s) BY <1>17, <2>2, <3>2, <3>3 DEF Aged
      <3> QED BY <1>1, <3>2, <3>4
    <2>3. CASE ~Publishes(s)
      <3>1. ring' = [ring EXCEPT ![s] = FreeSlot]
        BY <1>17, <2>1, <2>3 DEF PublishFrame, Publish
      <3> QED BY <1>1, <1>2, <1>4, <3>1
    <2> QED BY <2>2, <2>3
  <1>18. CASE NotifyAccepted
    <2>1. PICK s \in Slots : s = selected /\ app.pc = "selected"
      BY <1>18 DEF NotifyAccepted, ControlLayer, ControlInv, Shapes, NoSlot
    <2>2. ring[s].state \in {"READY", "QUARANTINED"} BY <2>1 DEF SlotLayer, HoldersInv
    <2>3. PICK state \in {"IN_FLIGHT", "QUARANTINED"} :
            ring' = [ring EXCEPT ![s].pending = TRUE, ![s].state = state]
      BY <1>18, <2>1, <2>2 DEF NotifyAccepted, Owned
    <2>4. /\ \A t \in Slots : t # s => ring'[t] = ring[t]
          /\ ring'[s].frame = ring[s].frame /\ ring'[s].pending /\ ring'[s].state = state
      BY <2>3 DEF ControlLayer, Shapes, SlotRecords
    <2>5. Aged(s) BY <2>2, <2>4 DEF Aged, Out
    <2> QED BY <1>1, <2>4, <2>5
  <1>19. CASE NotifyRefused
    <2>1. selected \in Slots BY <1>19 DEF NotifyRefused, ControlLayer, ControlInv, Shapes, NoSlot
    <2> QED BY <1>1, <1>2, <1>4, <1>19, <2>1 DEF NotifyRefused
  <1> QED BY <1>6, <1>7, <1>8, <1>9, <1>10, <1>11, <1>12, <1>13, <1>14, <1>15, <1>16, <1>17,
             <1>18, <1>19

\* StageTake takes a slot, or only gives the record up or begins it.
Fragment(now, s) ==
  /\ now.staged # Fragments /\ Takes(s, Frame("record", now.n, now.staged + 1))
  /\ stager' = [pc |-> "reading", n |-> now.n, f |-> now.staged + 1, gen |-> generation, slot |-> s]

LEMMA TakeKinds ==
  ASSUME ControlLayer, SlotLayer, StageTake
  PROVE  /\ stager.pc = "peeked"
         /\ \/ stager' = NoStage /\ tx' = tx /\ UNCHANGED ring
            \/ /\ StagingAllowed /\ tx'.n # 0
               /\ tx' = IF tx.n # 0 THEN tx ELSE [NoTx EXCEPT !.n = stager.n]
               /\ \/ stager' = NoStage /\ UNCHANGED ring
                  \/ \E s \in Slots : Fragment(tx', s)
  <1> DEFINE now == IF tx.n # 0 THEN tx ELSE [NoTx EXCEPT !.n = stager.n]
  <1>1. CASE ~StagingAllowed \/ now.n = 0 BY <1>1 DEF StageTake
  <1>2. CASE ~(~StagingAllowed \/ now.n = 0) /\ (now.staged = Fragments \/ FreeSlots = {})
    BY <1>2 DEF StageTake
  <1>3. CASE ~(~StagingAllowed \/ now.n = 0) /\ ~(now.staged = Fragments \/ FreeSlots = {})
    <2>1. PICK s \in Slots : s = FirstFree /\ ring[s].state = "FREE" BY <1>3, FirstFreeIsFree
    <2>2. /\ tx' = now /\ UNCHANGED << ready, completions, selected >> /\ stager.pc = "peeked"
          /\ ring' = [ring EXCEPT ![s] = Building(Frame("record", now.n, now.staged + 1))]
          /\ stager' = [pc |-> "reading", n |-> now.n, f |-> now.staged + 1, gen |-> generation, slot |-> s]
      BY <1>3, <2>1 DEF StageTake
    <2>3. Fragment(tx', s) BY <1>3, <2>1, <2>2 DEF Fragment, Takes, Out
    <2> QED BY <1>3, <2>2, <2>3
  <1> QED BY <1>1, <1>2, <1>3

LEMMA ClaimKinds ==
  ASSUME ControlLayer, SlotLayer, ClaimFrame
  PROVE  /\ app.pc = "claim"
         /\ \/ app' = AppIdle /\ UNCHANGED ring
            \/ \E s \in Slots : /\ Takes(s, Frame(app.what, 0, 0))
                                /\ app' = [app EXCEPT !.pc = "publish", !.slot = s]
  <1>1. CASE FreeSlots = {} BY <1>1 DEF ClaimFrame
  <1>2. CASE FreeSlots # {}
    <2>1. PICK s \in Slots : s = FirstFree /\ ring[s].state = "FREE" BY <1>2, FirstFreeIsFree
    <2>2. Takes(s, Frame(app.what, 0, 0)) /\ app' = [app EXCEPT !.pc = "publish", !.slot = s]
      BY <1>2, <2>1 DEF ClaimFrame, Takes, Out
    <2> QED BY <2>2 DEF ClaimFrame
  <1> QED BY <1>1, <1>2

\* What the stack's acceptance of a frame changes, besides its slot.
Noted(frame) ==
  \/ /\ frame.kind = "start" /\ startSent' /\ app' = AppIdle
     /\ UNCHANGED << counts, endWait, generation >>
  \/ /\ frame.kind = "end" /\ endWait' /\ ackWait' = Append(ackWait, 0) /\ app' = AppIdle
     /\ UNCHANGED << tx, committed, backlog, inFlight, startSent, generation >>
  \/ /\ LastOfRecord(frame) /\ ~QueueError(frame) /\ app' = AppIdle
     /\ Log!SendOldest /\ ackWait' = Append(ackWait, frame.n) /\ tx' = NoTx
     /\ UNCHANGED << committed, endWait, startSent, generation >>
  \/ /\ frame.kind = "record" /\ ~LastOfRecord(frame) /\ ~QueueError(frame) /\ app' = AppIdle
     /\ tx' = [tx EXCEPT !.sent = @ + 1]
     /\ UNCHANGED << ackWait, committed, backlog, inFlight, endWait, startSent, generation >>
  \/ /\ frame.kind \notin {"start", "end", "record"} /\ app' = AppIdle
     /\ UNCHANGED << counts, endWait, startSent, generation >>
  \/ /\ QueueError(frame) /\ app'.pc = "failing"
     /\ UNCHANGED << counts, endWait, startSent >>

Accepts(s) ==
  /\ app.pc = "selected" /\ s = selected /\ selected' = NoSlot /\ link = "up"
  /\ ring[s].state \in {"READY", "QUARANTINED"} /\ ~ring[s].pending
  /\ \A t \in Slots : t # s => ring'[t] = ring[t]
  /\ ring'[s].frame = ring[s].frame /\ ring'[s].gen = ring[s].gen /\ ring'[s].pending
  /\ ready' = Less(ready, {s}) /\ wire' = WireWith(ring[s].frame)
  /\ UNCHANGED << active, endReq, endAcked, abortReq, cleanupReady, stager, capturing, dropped >>
  /\ \/ StillValid(ring[s]) /\ ring'[s].state = "IN_FLIGHT" /\ Noted(ring[s].frame)
     \/ /\ ~StillValid(ring[s]) /\ ring'[s].state = "QUARANTINED" /\ app' = AppIdle
        /\ UNCHANGED << counts, endWait, startSent, generation >>

LEMMA AcceptKinds ==
  ASSUME ControlLayer, SlotLayer, NotifyAccepted
  PROVE  \E s \in Slots : Accepts(s)
  <1>1. PICK s \in Slots : s = selected /\ app.pc = "selected"
    BY DEF NotifyAccepted, ControlLayer, ControlInv, Shapes, NoSlot
  <1>2. ring[s].state \in {"READY", "QUARANTINED"} /\ ~ring[s].pending
    BY <1>1 DEF SlotLayer, HoldersInv
  <1> DEFINE valid == StillValid(ring[s])
             frame == ring[s].frame
  <1>3. ring' = [ring EXCEPT ![s].pending = TRUE, ![s].state = IF valid THEN "IN_FLIGHT" ELSE "QUARANTINED"]
    BY <1>1, <1>2 DEF NotifyAccepted, Owned
  <1>4. /\ \A t \in Slots : t # s => ring'[t] = ring[t]
        /\ ring'[s].frame = ring[s].frame /\ ring'[s].gen = ring[s].gen /\ ring'[s].pending
        /\ ring'[s].state = IF valid THEN "IN_FLIGHT" ELSE "QUARANTINED"
    <2> HIDE DEF valid
    <2> QED BY <1>3 DEF ControlLayer, Shapes, SlotRecords
  <1>5. /\ ready' = Less(ready, {s}) /\ wire' = WireWith(frame) /\ link = "up" /\ selected' = NoSlot
        /\ UNCHANGED << active, endReq, endAcked, abortReq, cleanupReady, stager, capturing, dropped >>
    BY <1>1 DEF NotifyAccepted
  <1>6. ~valid => UNCHANGED << counts, endWait, startSent, generation >> /\ app' = AppIdle
    BY <1>1 DEF NotifyAccepted, counts
  <1>7. ASSUME valid PROVE Noted(frame)
    <2>1. /\ NoteFrame(frame)
          /\ IF QueueError(frame) THEN AppFails("failure")
             ELSE app' = AppIdle /\ UNCHANGED << outcome, generation >>
      BY <1>1, <1>7 DEF NotifyAccepted
    <2>2. QueueError(frame) => frame.kind = "record" /\ app'.pc = "failing"
      BY <2>1 DEF QueueError, AppFails, AppIdle
    <2>3. ~QueueError(frame) => app' = AppIdle /\ generation' = generation BY <2>1
    <2> HIDE DEF valid, frame
    <2>4. CASE frame.kind = "start" \/ frame.kind = "end"
      BY <2>1, <2>2, <2>3, <2>4 DEF NoteFrame, Noted, counts
    <2>5. CASE frame.kind \notin {"start", "end", "record"}
      BY <2>1, <2>2, <2>3, <2>5 DEF NoteFrame, Noted, counts, LastOfRecord
    <2>6. CASE frame.kind = "record" /\ QueueError(frame)
      BY <2>1, <2>2, <2>6 DEF NoteFrame, Noted, counts, LastOfRecord
    <2>7. CASE frame.kind = "record" /\ ~QueueError(frame)
      BY <2>1, <2>3, <2>7 DEF NoteFrame, Noted, LastOfRecord
    <2> QED BY <2>4, <2>5, <2>6, <2>7
  <1> QED BY <1>1, <1>2, <1>4, <1>5, <1>6, <1>7 DEF Accepts

-----------------------------------------------------------------------------
(* The third layer: frames, one invariant after the other.                   *)

\* The records of the log stay the latest ones committed, in order.
LEMMA LogStep ==
  ASSUME ControlLayer, SlotLayer, ControlLayer', SlotLayer', FrameLayer, [StreamNext]_vars
  PROVE  LogInv'
  <1>0. backlog \in Seq(1 .. Records) /\ inFlight \in Seq(1 .. Records) /\ committed \in Nat
    BY StreamAssumption DEF ControlLayer, Shapes
  <1>1. PICK a \in Nat, b \in Nat :
          /\ a = Len(backlog) /\ b = Len(inFlight)
          /\ DOMAIN backlog = 1 .. a /\ DOMAIN inFlight = 1 .. b
    BY <1>0, LenProperties
  <1>2. /\ a + b <= committed
        /\ \A i \in 1 .. a : backlog[i] = committed - a + i
        /\ \A i \in 1 .. b : inFlight[i] = committed - a - b + i
    BY <1>1 DEF FrameLayer, LogInv
  <1>3. CASE UNCHANGED << committed, backlog, inFlight >> BY <1>3 DEF FrameLayer, LogInv
  <1>4. CASE backlog' = << >> /\ inFlight' = << >> /\ committed' \in Nat
    BY <1>4, EmptySeq DEF LogInv
  <1>5. CASE Commit
    <2>1. committed' = committed + 1 /\ backlog' = Append(backlog, committed + 1) /\ inFlight' = inFlight
      BY <1>5 DEF Commit, Log!CommitRecord
    <2>2. committed + 1 \in 1 .. Records BY <1>0, <1>5, StreamAssumption DEF Commit
    <2>3. /\ Len(backlog') = a + 1 /\ DOMAIN backlog' = 1 .. a + 1
          /\ \A i \in 1 .. a : backlog'[i] = backlog[i]
          /\ backlog'[a + 1] = committed + 1
      BY <1>0, <1>1, <2>1, <2>2, AppendProperties
    <2>4. \A i \in 1 .. a + 1 : backlog'[i] = committed' - (a + 1) + i
      <3> TAKE i \in 1 .. a + 1
      <3>1. CASE i \in 1 .. a
        <4>1. committed - a + i = (committed + 1) - (a + 1) + i BY <1>0, <1>1, <3>1
        <4> QED BY <1>2, <2>1, <2>3, <3>1, <4>1
      <3>2. CASE i = a + 1 BY <1>0, <1>1, <2>1, <2>3, <3>2
      <3> QED BY <1>1, <3>1, <3>2
    <2>5. \A i \in 1 .. b : inFlight'[i] = committed' - (a + 1) - b + i
      <3> TAKE i \in 1 .. b
      <3>1. committed - a - b + i = (committed + 1) - (a + 1) - b + i BY <1>0, <1>1
      <3> QED BY <1>2, <2>1, <3>1
    <2>6. (a + 1) + b <= committed' BY <1>0, <1>1, <1>2, <2>1
    <2> QED BY <1>1, <2>1, <2>3, <2>4, <2>5, <2>6 DEF LogInv
  <1>6. CASE Log!SendOldest /\ committed' = committed
    <2>1. /\ backlog # << >> /\ inFlight' = Append(inFlight, Head(backlog)) /\ backlog' = Tail(backlog)
      BY <1>6 DEF Log!SendOldest
    <2>2. /\ Head(backlog) = backlog[1] /\ backlog[1] \in 1 .. Records /\ a # 0
          /\ Len(backlog') = a - 1 /\ DOMAIN backlog' = 1 .. a - 1
          /\ \A i \in 1 .. a - 1 : backlog'[i] = backlog[i + 1]
      BY <1>0, <1>1, <2>1, HeadIsFirst, HeadTailProperties, LenProperties
    <2>3. /\ Len(inFlight') = b + 1 /\ DOMAIN inFlight' = 1 .. b + 1
          /\ \A i \in 1 .. b : inFlight'[i] = inFlight[i]
          /\ inFlight'[b + 1] = backlog[1]
      BY <1>0, <1>1, <2>1, <2>2, AppendProperties
    <2>4. \A i \in 1 .. a - 1 : backlog'[i] = committed - (a - 1) + i
      <3> TAKE i \in 1 .. a - 1
      <3>1. i + 1 \in 1 .. a /\ committed - a + (i + 1) = committed - (a - 1) + i
        BY <1>0, <1>1
      <3> QED BY <1>2, <2>2, <3>1
    <2>5. \A i \in 1 .. b + 1 : inFlight'[i] = committed - (a - 1) - (b + 1) + i
      <3> TAKE i \in 1 .. b + 1
      <3>1. CASE i \in 1 .. b
        <4>1. committed - a - b + i = committed - (a - 1) - (b + 1) + i BY <1>0, <1>1, <3>1
        <4> QED BY <1>2, <2>3, <3>1, <4>1
      <3>2. CASE i = b + 1
        <4>1. 1 \in 1 .. a BY <1>1, <2>2
        <4>2. committed - a + 1 = committed - (a - 1) - (b + 1) + i BY <1>0, <1>1, <3>2
        <4> QED BY <1>2, <2>3, <3>2, <4>1, <4>2
      <3> QED BY <1>1, <3>1, <3>2
    <2>6. (a - 1) + (b + 1) <= committed BY <1>0, <1>1, <1>2
    <2> QED BY <1>6, <2>2, <2>3, <2>4, <2>5, <2>6 DEF LogInv
  <1>7. CASE Acks
    <2>1. inFlight # << >> /\ inFlight' = Tail(inFlight) /\ UNCHANGED << committed, backlog >>
      BY <1>7 DEF Acks
    <2>2. /\ b # 0 /\ Len(inFlight') = b - 1 /\ DOMAIN inFlight' = 1 .. b - 1
          /\ \A i \in 1 .. b - 1 : inFlight'[i] = inFlight[i + 1]
      BY <1>0, <1>1, <2>1, HeadIsFirst, HeadTailProperties, LenProperties
    <2>3. \A i \in 1 .. b - 1 : inFlight'[i] = committed - a - (b - 1) + i
      <3> TAKE i \in 1 .. b - 1
      <3>1. i + 1 \in 1 .. b /\ committed - a - b + (i + 1) = committed - a - (b - 1) + i
        BY <1>0, <1>1
      <3> QED BY <1>2, <2>2, <3>1
    <2>4. a + (b - 1) <= committed BY <1>0, <1>1, <1>2
    <2> QED BY <1>1, <1>2, <2>1, <2>2, <2>3, <2>4 DEF LogInv
  <1>8. CASE NotifyAccepted
    <2>1. PICK s \in Slots : Accepts(s) BY <1>8, AcceptKinds
    <2>2. UNCHANGED << committed, backlog, inFlight >> \/ (Log!SendOldest /\ committed' = committed)
      BY <2>1 DEF Accepts, Noted, counts
    <2> QED BY <1>3, <1>6, <2>2
  <1>9. CASE Ends BY <1>0, <1>4, <1>9 DEF Ends
  <1>10. CASE Begin BY <1>4, <1>10 DEF Begin, Log!DropAll
  <1>11. CASE \/ Quiet \/ Moves \/ GivesUp \/ FailsNow \/ Stops \/ Completes \/ EndHeard \/ Withdraws
    BY <1>3, <1>11
       DEF Quiet, Moves, GivesUp, FailsNow, Stops, Completes, EndHeard, Withdraws, counts
  <1>12. CASE StageGate \/ StageTake \/ StagePublish \/ StageReadBusy
    BY <1>3, <1>12 DEF StageGate, StageTake, StagePublish, StageReadBusy
  <1>13. CASE CaptureDone \/ FailFlags \/ FailCancels \/ CleanupReady
    BY <1>3, <1>13 DEF CaptureDone, FailFlags, FailCancels, CleanupReady
  <1>14. CASE SelectReady \/ DecideFrame \/ ClaimFrame \/ PublishFrame \/ NotifyRefused
    BY <1>3, <1>14 DEF SelectReady, DecideFrame, ClaimFrame, PublishFrame, NotifyRefused
  <1>15. RestInv BY DEF FrameLayer
  <1> QED BY <1>5, <1>7, <1>8, <1>9, <1>10, <1>11, <1>12, <1>13, <1>14, <1>15, StepKinds

\* A session ends only when the capture is over, and nothing is staged.
LEMMA EndsAreLate ==
  ASSUME ControlLayer, SlotLayer, FrameLayer, Ends
  PROVE  cleanupReady /\ ~capturing /\ stager.pc = "idle"
  <1>1. CASE abortReq /\ cleanupReady BY <1>1 DEF ControlLayer, ControlInv, Ends, AppMayRun
  <1>2. CASE (endWait \/ endAcked) /\ ~abortReq
    <2>1. active /\ LastIs("end") BY <1>2 DEF Ends, FrameLayer, EndInv
    <2>2. cleanupReady BY <1>2, <2>1 DEF FrameLayer, EndInv, Closed
    <2> QED BY <2>2 DEF ControlLayer, ControlInv, Ends, AppMayRun
  <1>3. CASE \E s \in Slots : Out(s) /\ ring[s].frame.kind = "abort"
    <2>1. TerminalOut BY <1>3 DEF TerminalOut, Terminal
    <2> QED BY <2>1 DEF FrameLayer, TerminalInv, ControlLayer, ControlInv
  <1> QED BY <1>1, <1>2, <1>3 DEF Ends, FrameLayer, RestInv

\* Nobody works for a session that is over; one that fails goes on with nothing.
LEMMA RestStep ==
  ASSUME ControlLayer, SlotLayer, ControlLayer', SlotLayer', FrameLayer, [StreamNext]_vars
  PROVE  RestInv'
  <1>0. RestInv BY DEF FrameLayer
  <1>1. ASSUME active' = active, active, 
               UNCHANGED << abortReq, endReq, endWait, endAcked, tx, ackWait >>
        PROVE  RestInv'
    BY <1>0, <1>1 DEF RestInv
  <1>2. ASSUME UNCHANGED << phases, counts, stager, capturing >> PROVE RestInv'
    BY <1>0, <1>2 DEF RestInv, phases, counts
  <1>3. ASSUME active', ~abortReq' PROVE RestInv' BY <1>3 DEF RestInv
  <1>4. CASE Quiet \/ Moves \/ GivesUp \/ Withdraws \/ Completes
    BY <1>2, <1>4 DEF Quiet, Moves, GivesUp, Withdraws, Completes
  <1>5. CASE FailsNow BY <1>5 DEF FailsNow, RestInv
  <1>6. CASE Ends BY <1>6, EndsAreLate DEF Ends, RestInv
  <1>7. CASE Stops BY <1>0, <1>7 DEF Stops, RestInv, counts
  <1>8. CASE Acks
    <2>1. active /\ UNCHANGED << active, abortReq, endWait, endAcked, tx >>
          /\ (ackWait = << >> => ackWait' = << >>)
      BY <1>8 DEF Acks, phases
    <2> QED BY <1>0, <2>1 DEF RestInv
  <1>9. CASE EndHeard
    <2>1. active /\ ~abortReq /\ UNCHANGED << active, abortReq >> BY <1>0, <1>9 DEF EndHeard, RestInv
    <2> QED BY <1>3, <2>1
  <1>10. CASE StageGate
    <2>1. active /\ UNCHANGED << active, abortReq, endReq, endWait, endAcked, tx, ackWait >>
      BY <1>10 DEF StageGate, StagingAllowed
    <2> QED BY <1>1, <2>1
  <1>11. CASE StageTake
    <2>1. active /\ UNCHANGED << active, abortReq, endReq, endWait, endAcked, ackWait >>
      BY <1>0, <1>11 DEF StageTake, RestInv
    <2>2. tx' = tx \/ ~abortReq BY <1>11, TakeKinds DEF StagingAllowed
    <2> QED BY <1>1, <1>3, <2>1, <2>2
  <1>12. CASE StagePublish
    <2>1. active /\ UNCHANGED << active, abortReq, endReq, endWait, endAcked, ackWait >>
      BY <1>0, <1>12 DEF StagePublish, RestInv
    <2>2. tx' = tx \/ tx.n # 0
      BY <1>12 DEF StagePublish, StillStaging, ControlLayer, ControlInv
    <2>3. tx' = tx \/ ~abortReq BY <1>0, <2>2 DEF RestInv, NoTx
    <2> QED BY <1>1, <1>3, <2>1, <2>3
  <1>13. CASE StageReadBusy
    <2>1. active /\ UNCHANGED << active, abortReq, endReq, endWait, endAcked, tx, ackWait >>
      BY <1>0, <1>13 DEF StageReadBusy, RestInv
    <2> QED BY <1>1, <2>1
  <1>14. CASE Commit
    <2>1. active /\ UNCHANGED << active, abortReq, endReq, endWait, endAcked, tx, ackWait >>
      BY <1>0, <1>14 DEF Commit, RestInv
    <2> QED BY <1>1, <2>1
  <1>15. CASE CaptureDone
    <2>1. active /\ UNCHANGED << active, abortReq, endReq, endWait, endAcked, tx, ackWait >>
      BY <1>0, <1>15 DEF CaptureDone, RestInv
    <2> QED BY <1>1, <2>1
  <1>16. CASE Begin BY <1>3, <1>16 DEF Begin
  <1>17. CASE FailFlags
    <2>1. active /\ active' = active BY <1>17 DEF FailFlags, ControlLayer, ControlInv, AtRest
    <2> QED BY <1>17, <2>1 DEF FailFlags, AbortFlags, RestInv
  <1>18. CASE FailCancels \/ CleanupReady
    <2>1. UNCHANGED << active, abortReq, endReq, endWait, endAcked, tx, ackWait, stager, capturing, backlog, inFlight >>
      BY <1>18 DEF FailCancels, CleanupReady
    <2> QED BY <1>0, <2>1 DEF RestInv
  <1>19. CASE SelectReady \/ DecideFrame \/ ClaimFrame \/ PublishFrame \/ NotifyRefused
    <2>1. UNCHANGED << active, abortReq, endReq, endWait, endAcked, tx, ackWait, stager, capturing, backlog, inFlight >>
      BY <1>19 DEF SelectReady, DecideFrame, ClaimFrame, PublishFrame, NotifyRefused
    <2> QED BY <1>0, <2>1 DEF RestInv
  <1>20. CASE NotifyAccepted
    <2>1. PICK s \in Slots : Accepts(s) BY <1>20, AcceptKinds
    <2>2. active /\ UNCHANGED << active, abortReq, endReq, endAcked >>
      BY <2>1 DEF Accepts, ControlLayer, ControlInv, AtRest
    <2>3. CASE ~abortReq BY <1>3, <2>2, <2>3
    <2>4. CASE abortReq
      <3>1. ring[s].state = "READY" => ring[s].frame.kind \in {"start", "abort", "stress"}
        BY <2>1, <2>4 DEF Accepts, FrameLayer, FramesInv
      <3>2. UNCHANGED << tx, ackWait, endWait >>
        BY <2>1, <3>1 DEF Accepts, Noted, StillValid, counts, LastOfRecord, QueueError
      <3> QED BY <1>1, <2>2, <3>2
    <2> QED BY <2>3, <2>4
  <1> QED BY <1>0, <1>4, <1>5, <1>6, <1>7, <1>8, <1>9, <1>10, <1>11, <1>12, <1>13, <1>14, <1>15,
             <1>16, <1>17, <1>18, <1>19, <1>20, StepKinds

\* Every slot has a frame of its kind.
LEMMA FramesStep ==
  ASSUME ControlLayer, SlotLayer, ControlLayer', SlotLayer', FrameLayer, [StreamNext]_vars
  PROVE  FramesInv'
  <1>0. FramesInv /\ RestInv BY DEF FrameLayer
  <1> DEFINE Proper(slot) == /\ slot.frame.kind # "none"
                             /\ slot.frame.kind # "record" => slot.frame = Frame(slot.frame.kind, 0, 0)
                             /\ slot.frame.kind = "record" => slot.frame.n # 0 /\ slot.frame.f # 0
  <1>1. ASSUME \A s \in Slots : Aged(s),
               stager'.pc = "reading" => stager' = stager,
               app'.pc = "publish" => app' = app,
               abortReq' => abortReq,
               app.pc = "cancelling" => app' = app,
               ~PublishFrame
        PROVE  FramesInv'
    <2>1. \A s \in Slots : Out(s)' => Proper(ring'[s]) BY <1>0, <1>1 DEF FramesInv, Aged
    <2>2. app'.pc = "publish" => ring'[app'.slot].frame.kind = app'.what
      <3>1. app'.pc = "publish" => app.slot \in Slots /\ Out(app.slot)'
        BY <1>1 DEF ControlLayer, ControlInv, SlotLayer, HoldersInv, Holding, Out
      <3> QED BY <1>0, <1>1, <3>1 DEF FramesInv, Aged
    <2>3. stager'.pc = "reading" => ring'[stager'.slot].frame = Frame("record", stager'.n, stager'.f)
      <3>1. stager'.pc = "reading" => stager.slot \in Slots /\ Out(stager.slot)'
        BY <1>1 DEF ControlLayer, ControlInv, SlotLayer, HoldersInv, Holding, Out
      <3> QED BY <1>0, <1>1, <3>1 DEF FramesInv, Aged
    <2>4. ASSUME abortReq', app'.pc # "cancelling", NEW s \in Slots, ring'[s].state = "READY"
          PROVE  ring'[s].frame.kind \in {"start", "abort", "stress"}
      <3>1. abortReq /\ app.pc # "cancelling" BY <1>1, <2>4
      <3>2. Out(s)' BY <2>4 DEF Out
      <3>3. ~(Stages(s) /\ StillStaging)
        BY <1>0, <3>1 DEF StillStaging, RestInv, NoTx, Stages, ControlLayer, ControlInv
      <3>4. ring[s].state = "READY" /\ ring'[s].frame = ring[s].frame
        BY <1>1, <2>4, <3>2, <3>3 DEF Aged
      <3> QED BY <1>0, <3>1, <3>4 DEF FramesInv
    <2> QED BY <2>1, <2>2, <2>3, <2>4 DEF FramesInv
  <1>2. CASE \/ Quiet \/ Moves \/ GivesUp \/ Ends \/ Stops \/ Completes \/ Acks \/ EndHeard
             \/ Withdraws
    <2> USE DEF Plain, Testing, Storing
    <2>1. \A s \in Slots : Aged(s) BY <1>2, SlotsAge
    <2>2. /\ stager' = stager
          /\ app'.pc = "publish" => app' = app
          /\ abortReq' => abortReq
          /\ app.pc = "cancelling" => app' = app
          /\ app.pc # "publish" \/ app' = app
      <3>1. CASE Quiet \/ Ends \/ Completes \/ EndHeard \/ Withdraws
        BY <3>1 DEF Quiet, Ends, Completes, EndHeard, Withdraws, phases, AppMayRun
      <3>2. CASE Moves \/ GivesUp \/ Stops \/ Acks
        BY <3>2 DEF Moves, GivesUp, Stops, Acks, phases
      <3> QED BY <1>2, <3>1, <3>2
    <2>3. ~PublishFrame BY <2>2 DEF PublishFrame, AppIdle
    <2> QED BY <1>1, <2>1, <2>2, <2>3
  <1>3. CASE StageGate \/ StagePublish \/ StageReadBusy \/ Commit \/ CaptureDone \/ CleanupReady
    <2>1. \A s \in Slots : Aged(s) BY <1>3, SlotsAge
    <2>2. /\ stager'.pc = "reading" => stager' = stager
          /\ app' = app /\ abortReq' = abortReq
      <3>1. CASE StageGate BY <3>1 DEF StageGate, NoStage
      <3>2. CASE StagePublish BY <3>2 DEF StagePublish, NoStage
      <3>3. CASE StageReadBusy BY <3>3 DEF StageReadBusy, NoStage
      <3>4. CASE Commit BY <3>4 DEF Commit
      <3>5. CASE CaptureDone \/ CleanupReady BY <3>5 DEF CaptureDone, CleanupReady
      <3> QED BY <1>3, <3>1, <3>2, <3>3, <3>4, <3>5
    <2>3. ~PublishFrame BY <2>2 DEF PublishFrame, AppIdle
    <2> QED BY <1>1, <2>1, <2>2, <2>3
  <1>4. CASE SelectReady \/ DecideFrame \/ NotifyRefused \/ NotifyAccepted
    <2>1. \A s \in Slots : Aged(s) BY <1>4, SlotsAge
    <2>2. /\ stager' = stager /\ app'.pc # "publish" /\ abortReq' = abortReq
          /\ app.pc \in {"idle", "selected"}
      <3>1. CASE SelectReady \/ DecideFrame
        BY <3>1 DEF SelectReady, DecideFrame, AppIdle, MaySend, AppMayRun
      <3>2. CASE NotifyRefused BY <3>2 DEF NotifyRefused, AppIdle
      <3>3. CASE NotifyAccepted
        <4>1. PICK s \in Slots : Accepts(s) BY <3>3, AcceptKinds
        <4>2. UNCHANGED << stager, abortReq >> /\ app.pc = "selected" BY <4>1 DEF Accepts
        <4>3. app' = AppIdle \/ app'.pc = "failing" BY <4>1 DEF Accepts, Noted
        <4> QED BY <4>2, <4>3 DEF AppIdle
      <3> QED BY <1>4, <3>1, <3>2, <3>3
    <2>3. ~PublishFrame BY <2>2 DEF PublishFrame
    <2> QED BY <1>1, <2>1, <2>2, <2>3
  <1>5. ASSUME \A s \in Slots : Aged(s), \A s \in Slots : ring'[s].state # "READY",
               stager'.pc = "reading" => stager' = stager,
               app'.pc = "publish" => app' = app
        PROVE  FramesInv'
    <2>1. \A s \in Slots : Out(s)' => Proper(ring'[s]) BY <1>0, <1>5 DEF FramesInv, Aged
    <2>2. app'.pc = "publish" => ring'[app'.slot].frame.kind = app'.what
      <3>1. app'.pc = "publish" => app.slot \in Slots /\ Out(app.slot)'
        BY <1>5 DEF ControlLayer, ControlInv, SlotLayer, HoldersInv, Holding, Out
      <3> QED BY <1>0, <1>5, <3>1 DEF FramesInv, Aged
    <2>3. stager'.pc = "reading" => ring'[stager'.slot].frame = Frame("record", stager'.n, stager'.f)
      <3>1. stager'.pc = "reading" => stager.slot \in Slots /\ Out(stager.slot)'
        BY <1>5 DEF ControlLayer, ControlInv, SlotLayer, HoldersInv, Holding, Out
      <3> QED BY <1>0, <1>5, <3>1 DEF FramesInv, Aged
    <2> QED BY <1>5, <2>1, <2>2, <2>3 DEF FramesInv
  <1>6. CASE FailsNow \/ FailCancels \/ Begin
    <2>1. \A s \in Slots : Aged(s) BY <1>6, SlotsAge
    <2>2. /\ stager'.pc = "reading" => stager' = stager
          /\ app'.pc = "publish" => app' = app
          /\ ready' = << >>
      BY <1>6 DEF FailsNow, FailCancels, CancelUnsent, Begin, AppIdle, NoStage
    <2>3. \A s \in Slots : ring'[s].state # "READY" BY <2>2 DEF SlotLayer, QueuesInv
    <2> QED BY <1>5, <2>1, <2>2, <2>3
  <1>7. CASE FailFlags
    <2>1. UNCHANGED << ring, stager >> /\ app'.pc = "cancelling"
      BY <1>7 DEF FailFlags, ControlLayer, Shapes, Apps
    <2> QED BY <1>0, <2>1 DEF FramesInv, Out
  <1>8. CASE StageTake
    <2>1. stager.pc = "peeked" /\ UNCHANGED << app, abortReq, selected >> BY <1>8 DEF StageTake
    <2>2. CASE UNCHANGED ring /\ stager' = NoStage
      BY <1>0, <2>1, <2>2 DEF FramesInv, Out, NoStage
    <2>3. CASE tx'.n # 0 /\ StagingAllowed /\ \E s \in Slots : Fragment(tx', s)
      <3>1. PICK s \in Slots : Fragment(tx', s) BY <2>3
      <3>2. /\ \A t \in Slots : t # s => ring'[t] = ring[t]
            /\ ring'[s].frame = Frame("record", tx'.n, tx'.staged + 1) /\ ring'[s].state = "BUILDING"
        BY <3>1 DEF Fragment, Takes, Building, ControlLayer, Shapes
      <3>3. tx'.staged + 1 # 0
        <4>1. tx'.staged \in 0 .. Fragments BY DEF ControlLayer, Shapes
        <4> QED BY <4>1, StreamAssumption
      <3>4. Proper(ring'[s]) BY <2>3, <3>2, <3>3 DEF Frame
      <3>5. app.pc = "publish" => app.slot # s
        BY <3>1 DEF Fragment, Takes, Out, SlotLayer, HoldersInv, Holding
      <3>6. ~abortReq BY <2>3 DEF StagingAllowed
      <3>7. \A t \in Slots : Out(t)' => Proper(ring'[t])
        BY <1>0, <3>2, <3>4 DEF FramesInv, Out
      <3>8. app'.pc = "publish" => ring'[app'.slot].frame.kind = app'.what
        BY <1>0, <2>1, <3>2, <3>5 DEF FramesInv, ControlLayer, ControlInv
      <3>9. stager'.pc = "reading" => ring'[stager'.slot].frame = Frame("record", stager'.n, stager'.f)
        BY <3>1, <3>2 DEF Fragment
      <3> QED BY <2>1, <3>6, <3>7, <3>8, <3>9 DEF FramesInv
    <2> QED BY <1>8, <2>2, <2>3, TakeKinds
  <1>9. CASE ClaimFrame
    <2>1. app.pc = "claim" /\ UNCHANGED << stager, abortReq, selected >> BY <1>9 DEF ClaimFrame
    <2>2. CASE UNCHANGED ring /\ app' = AppIdle
      BY <1>0, <2>1, <2>2 DEF FramesInv, Out, AppIdle
    <2>3. CASE ~(UNCHANGED ring /\ app' = AppIdle)
      <3>1. PICK s \in Slots : /\ Takes(s, Frame(app.what, 0, 0))
                               /\ app' = [app EXCEPT !.pc = "publish", !.slot = s]
        BY <1>9, <2>3, ClaimKinds
      <3>2. /\ \A t \in Slots : t # s => ring'[t] = ring[t]
            /\ ring'[s].frame = Frame(app.what, 0, 0) /\ ring'[s].state = "BUILDING"
        BY <3>1 DEF Takes, Building, ControlLayer, Shapes
      <3>3. app'.pc = "publish" /\ app'.what = app.what /\ app'.slot = s
        BY <3>1 DEF ControlLayer, Shapes, Apps
      <3>4. app.what \in {"start", "end", "abort", "stress"} BY <2>1 DEF ControlLayer, ControlInv
      <3>5. Proper(ring'[s]) /\ ring'[s].frame.kind = app.what BY <3>2, <3>4 DEF Frame
      <3>6. stager.pc = "reading" => stager.slot # s /\ stager.slot \in Slots
        BY <3>1 DEF Takes, Out, SlotLayer, HoldersInv, Holding, ControlLayer, ControlInv
      <3>7. \A t \in Slots : Out(t)' => Proper(ring'[t])
        BY <1>0, <3>2, <3>5 DEF FramesInv, Out
      <3>8. stager'.pc = "reading" => ring'[stager'.slot].frame = Frame("record", stager'.n, stager'.f)
        BY <1>0, <2>1, <3>2, <3>6 DEF FramesInv
      <3>9. \A t \in Slots : ring'[t].state = "READY" => ring[t].state = "READY" /\ ring'[t] = ring[t]
        BY <3>2
      <3> QED BY <1>0, <2>1, <3>3, <3>5, <3>7, <3>8, <3>9 DEF FramesInv
    <2> QED BY <2>2, <2>3
  <1>10. CASE PublishFrame
    <2>1. \A s \in Slots : Aged(s) BY <1>10, SlotsAge
    <2>2. /\ app.pc = "publish" /\ app'.pc \in {"idle", "selected"}
          /\ UNCHANGED << stager, abortReq >>
      BY <1>10 DEF PublishFrame, AppIdle
    <2>3. \A s \in Slots : Out(s)' => Proper(ring'[s]) BY <1>0, <2>1 DEF FramesInv, Aged
    <2>4. stager'.pc = "reading" => ring'[stager'.slot].frame = Frame("record", stager'.n, stager'.f)
      <3>1. stager'.pc = "reading" => stager.slot \in Slots /\ Out(stager.slot)'
        BY <2>2 DEF ControlLayer, ControlInv, SlotLayer, HoldersInv, Holding, Out
      <3> QED BY <1>0, <2>1, <2>2, <3>1 DEF FramesInv, Aged
    <2>5. ASSUME abortReq, NEW s \in Slots, ring'[s].state = "READY"
          PROVE  ring'[s].frame.kind \in {"start", "abort", "stress"}
      <3>1. Out(s)' /\ ~StagePublish BY <2>2, <2>5 DEF Out, StagePublish
      <3>2. CASE ring[s].state = "READY" BY <1>0, <2>1, <2>2, <2>5, <3>1, <3>2 DEF FramesInv, Aged
      <3>3. CASE ring[s].state # "READY"
        <4>1. Publishing(s) /\ ring'[s].frame = ring[s].frame BY <2>1, <2>5, <3>1, <3>3 DEF Aged
        <4>2. ring[s].frame.kind = app.what BY <1>0, <2>2, <4>1 DEF FramesInv, Publishing
        <4>3. app.what \in {"start", "abort", "stress"}
          BY <2>2, <2>5 DEF ControlLayer, ControlInv, FrameLayer, TerminalInv, Making
        <4> QED BY <4>1, <4>2, <4>3
      <3> QED BY <3>2, <3>3
    <2> QED BY <2>2, <2>3, <2>4, <2>5 DEF FramesInv
  <1> QED BY <1>0, <1>2, <1>3, <1>4, <1>6, <1>7, <1>8, <1>9, <1>10, StepKinds

\* A terminal frame is alone, and nothing but an abort comes after it.
LEMMA TerminalStep ==
  ASSUME ControlLayer, SlotLayer, ControlLayer', SlotLayer', FrameLayer, FramesInv', [StreamNext]_vars
  PROVE  TerminalInv'
  <1>0. TerminalInv /\ FramesInv /\ RestInv BY DEF FrameLayer
  <1> DEFINE Ending(s) == Out(s) /\ ring[s].frame.kind \in Terminal
  <1>1. ASSUME ~TerminalOut' PROVE TerminalInv'
    <2>1. \A s \in Slots : ~Ending(s)' BY <1>1 DEF TerminalOut
    <2>2. ~Making(Terminal)' BY <1>1 DEF TerminalOut
    <2>3. app'.pc = "selected" => selected' \in Slots /\ ring'[selected'].state # "FREE"
      BY DEF ControlLayer, ControlInv, Shapes, NoSlot, SlotLayer, HoldersInv, Out
    <2>4. ~(app'.pc = "selected" /\ ring'[selected'].frame.kind = "end")
      BY <2>1, <2>3 DEF Terminal, Out
    <2> QED BY <1>1, <2>1, <2>2, <2>4 DEF TerminalInv, Making, Terminal
  <1>2. ASSUME \A s \in Slots : Aged(s), ~TerminalOut,
               app'.pc \in {"claim", "publish"} => app' = app
        PROVE  ~TerminalOut'
    <2>1. \A s \in Slots : ~Ending(s)' BY <1>2 DEF TerminalOut, Aged
    <2>2. ~Making(Terminal)' BY <1>2 DEF TerminalOut, Making
    <2> QED BY <2>1, <2>2 DEF TerminalOut
  <1>3. ASSUME TerminalOut
        PROVE  /\ cleanupReady /\ stager.pc = "idle" /\ ~capturing
               /\ abortReq \/ Closed
               /\ ~FailsNow /\ ~StageGate /\ ~StageTake /\ ~StagePublish /\ ~StageReadBusy
               /\ ~Commit /\ ~CaptureDone /\ ~CleanupReady /\ ~Stops
    <2>1. cleanupReady /\ stager.pc = "idle" /\ ~capturing /\ (abortReq \/ Closed)
      BY <1>0, <1>3 DEF TerminalInv, ControlLayer, ControlInv
    <2>2. ~FailsNow /\ ~Commit /\ ~CaptureDone /\ ~CleanupReady
      BY <2>1 DEF FailsNow, Commit, CaptureDone, CleanupReady
    <2>3. ~StageTake /\ ~StagePublish /\ ~StageReadBusy
      BY <2>1 DEF StageTake, StagePublish, StageReadBusy
    <2>4. ~StageGate
      <3> SUFFICES ASSUME StageGate PROVE FALSE OBVIOUS
      <3>1. ~abortReq BY DEF StageGate, StagingAllowed
      <3>2. tx.n = 0 /\ backlog = << >> BY <2>1, <3>1 DEF Closed, Drained, NoTx
      <3> QED BY <3>2 DEF StageGate
    <2>5. ~Stops BY <2>1 DEF Stops
    <2> QED BY <2>1, <2>2, <2>3, <2>4, <2>5
  <1>4. ASSUME \A s \in Slots : Aged(s), TerminalOut, cleanupReady', stager' = stager,
               app'.pc \in {"claim", "publish"} => app' = app /\ abortReq' = abortReq,
               abortReq => abortReq', abortReq' \/ Closed',
               app'.pc = "selected" /\ ring'[selected'].frame.kind = "end" => ~abortReq'
        PROVE  TerminalInv'
    <2>1. TerminalOut' => cleanupReady' /\ stager'.pc = "idle" /\ (abortReq' \/ Closed')
      BY <1>3, <1>4
    <2>2. \A s, t \in Slots : Out(s)' /\ ring'[s].frame.kind \in Terminal /\ Out(t)' => s = t
      BY <1>0, <1>4 DEF TerminalInv, Aged
    <2>3. app'.pc = "claim" => \A s \in Slots : Out(s)' => ring'[s].frame.kind \notin Terminal
      BY <1>0, <1>4 DEF TerminalInv, Aged
    <2>4. app'.pc = "claim" /\ app'.what \in Terminal => ReuseSafe'
      <3> SUFFICES ASSUME app'.pc = "claim", app'.what \in Terminal PROVE ReuseSafe' OBVIOUS
      <3>1. ReuseSafe /\ app' = app BY <1>0, <1>4 DEF TerminalInv
      <3>2. \A s \in Slots : ring'[s].state = "FREE" BY <1>4, <3>1 DEF ReuseSafe, Aged, Out
      <3>3. completions' = << >>
        <4> SUFFICES ASSUME completions' # << >> PROVE FALSE OBVIOUS
        <4>1. completions' \in Seq(Slots) BY DEF ControlLayer, Shapes
        <4>2. 1 \in DOMAIN completions' /\ completions'[1] \in Slots BY <4>1, HeadIsFirst
        <4> QED BY <3>2, <4>2 DEF SlotLayer, QueuesInv, SlotShapes
      <3>4. selected' = NoSlot BY DEF ControlLayer, ControlInv
      <3> QED BY <3>2, <3>3, <3>4 DEF ReuseSafe
    <2>5. app'.pc = "publish" /\ app'.what \in Terminal => \A t \in Slots : Out(t)' => t = app'.slot
      BY <1>0, <1>4 DEF TerminalInv, Aged
    <2>6. \A s \in Slots : Out(s)' /\ ring'[s].frame.kind = "abort" => abortReq'
      BY <1>0, <1>4 DEF TerminalInv, Aged
    <2>7. Making({"abort"})' => abortReq' BY <1>0, <1>4 DEF TerminalInv, Making
    <2>8. Making({"end"})' => ~abortReq' /\ app'.pc # "failing"
      BY <1>0, <1>4 DEF TerminalInv, Making
    <2> QED BY <1>4, <2>1, <2>2, <2>3, <2>4, <2>5, <2>6, <2>7, <2>8 DEF TerminalInv
  <1>5. CASE Quiet \/ Moves \/ GivesUp \/ Completes \/ EndHeard \/ Withdraws
    <2>1. \A s \in Slots : Aged(s) BY <1>5, SlotsAge
    <2>2. /\ UNCHANGED << stager, abortReq, cleanupReady, startSent, endReq, dropped,
                          tx, backlog, inFlight, selected >>
          /\ app'.pc \in {"claim", "publish", "selected"} => app' = app
      BY <1>5 DEF Quiet, Moves, GivesUp, Completes, EndHeard, Withdraws, phases, counts,
                  Plain, Testing, Storing
    <2>3. app'.pc = "selected" /\ ring'[selected'].frame.kind = "end" => ~abortReq'
      <3>1. app'.pc = "selected" => selected' \in Slots /\ ring'[selected'].state # "FREE"
        BY DEF ControlLayer, ControlInv, Shapes, NoSlot, SlotLayer, HoldersInv, Out
      <3> QED BY <1>0, <2>1, <2>2, <3>1 DEF TerminalInv, Aged, Out
    <2>4. CASE TerminalOut
      <3>1. abortReq' \/ Closed' BY <1>3, <2>2, <2>4 DEF Closed, Drained
      <3> QED BY <1>3, <1>4, <2>1, <2>2, <2>3, <2>4, <3>1
    <2> QED BY <1>1, <1>2, <2>1, <2>2, <2>4
  <1>6. CASE Ends \/ Begin
    <2>1. \A s \in Slots : ~Out(s)'
      BY <1>6 DEF Ends, Begin, ReuseSafe, Out, FreeSlot
    <2>2. app'.pc = "idle" BY <1>6 DEF Ends, Begin, AppMayRun
    <2> QED BY <1>1, <2>1, <2>2 DEF TerminalOut, Making
  <1>7. CASE FailsNow \/ Stops
    <2>1. ~TerminalOut /\ \A s \in Slots : Aged(s) BY <1>3, <1>7, SlotsAge
    <2>2. app' = app \/ app'.pc \in {"clearing", "idle"} BY <1>7 DEF FailsNow, Stops
    <2> QED BY <1>1, <1>2, <2>1, <2>2
  <1>17. CASE Acks
    <2>1. \A s \in Slots : Aged(s) BY <1>17, SlotsAge
    <2>2. app'.pc = "idle" /\ UNCHANGED << stager, abortReq, cleanupReady >>
      BY <1>17 DEF Acks, phases
    <2>3. CASE TerminalOut
      <3>1. abortReq BY <1>3, <1>17, <2>3 DEF Acks, Closed, Drained
      <3> QED BY <1>3, <1>4, <2>1, <2>2, <2>3, <3>1
    <2> QED BY <1>1, <1>2, <2>1, <2>2, <2>3
  <1>8. CASE StageGate \/ StagePublish \/ StageReadBusy \/ Commit \/ CaptureDone \/ CleanupReady
    <2>1. ~TerminalOut /\ \A s \in Slots : Aged(s) BY <1>3, <1>8, SlotsAge
    <2>2. app' = app
      BY <1>8 DEF StageGate, StagePublish, StageReadBusy, Commit, CaptureDone, CleanupReady
    <2> QED BY <1>1, <1>2, <2>1, <2>2
  <1>9. CASE StageTake
    <2>1. ~TerminalOut /\ app' = app BY <1>3, <1>9 DEF StageTake
    <2>2. \A s \in Slots : ring'[s] = ring[s] \/ ring'[s].frame.kind = "record"
      <3>1. ASSUME NEW s \in Slots, Fragment(tx', s)
            PROVE  \A t \in Slots : ring'[t] = ring[t] \/ ring'[t].frame.kind = "record"
        BY <3>1 DEF Fragment, Takes, Building, Frame, ControlLayer, Shapes
      <3> QED BY <1>9, <3>1, TakeKinds
    <2>3. ~TerminalOut' BY <2>1, <2>2 DEF TerminalOut, Terminal, Making, Out
    <2> QED BY <1>1, <2>3
  <1>10. CASE FailFlags \/ FailCancels
    <2>1. \A s \in Slots : Aged(s) BY <1>10, SlotsAge
    <2>2. app'.pc \in {"cancelling", "idle"}
      BY <1>10 DEF FailFlags, FailCancels, AppIdle, ControlLayer, Shapes, Apps
    <2>3. abortReq' /\ cleanupReady' = cleanupReady /\ stager' = stager
      BY <1>10 DEF FailFlags, AbortFlags, FailCancels, ControlLayer, ControlInv
    <2>4. CASE TerminalOut BY <1>3, <1>4, <2>1, <2>2, <2>3, <2>4
    <2> QED BY <1>1, <1>2, <2>1, <2>2, <2>4
  <1>11. CASE SelectReady
    <2>1. \A s \in Slots : Aged(s) BY <1>11, SlotsAge
    <2>2. /\ UNCHANGED << stager, abortReq, cleanupReady, startSent, endReq, dropped,
                          tx, backlog, inFlight, ring, ready >>
          /\ app.pc = "idle" /\ app'.pc = "selected" /\ selected' = Head(ready) /\ ready # << >>
      BY <1>11 DEF SelectReady, MaySend, AppMayRun, AppIdle
    <2>3. ring'[selected'].frame.kind = "end" => ~abortReq'
      <3>1. ready \in Seq(Slots) BY DEF ControlLayer, Shapes
      <3>2. selected' \in Slots /\ ring[selected'].state = "READY"
        BY <2>2, <3>1, HeadIsFirst DEF SlotLayer, QueuesInv
      <3> QED BY <1>0, <2>2, <3>2 DEF FramesInv
    <2>4. CASE TerminalOut
      <3>1. abortReq' \/ Closed' BY <1>3, <2>2, <2>4 DEF Closed, Drained
      <3> QED BY <1>3, <1>4, <2>1, <2>2, <2>3, <2>4, <3>1
    <2> QED BY <1>1, <1>2, <2>1, <2>2, <2>4
  <1>12. CASE DecideFrame
    <2>1. PICK kind \in FrameDue : app' = [AppIdle EXCEPT !.pc = "claim", !.what = kind]
      BY <1>12 DEF DecideFrame
    <2>2. /\ UNCHANGED << stager, abortReq, cleanupReady, startSent, endReq, dropped, active,
                          tx, backlog, inFlight, ring, ready, selected, completions >>
          /\ app.pc = "idle" /\ active /\ (capturing \/ stager.pc = "idle")
          /\ app'.pc = "claim" /\ app'.what = kind
      BY <1>12, <2>1 DEF DecideFrame, MaySend, AppMayRun, AppIdle
    <2>3. kind \in Terminal => ReuseSafe
      BY <2>1 DEF FrameDue, EndDue, Terminal
    <2>4. ~TerminalOut
      <3> SUFFICES ASSUME TerminalOut PROVE FALSE OBVIOUS
      <3>1. ~ReuseSafe BY <2>2 DEF TerminalOut, Making, Out, ReuseSafe
      <3> QED BY <1>3, <2>1, <3>1 DEF FrameDue, EndDue, Closed
    <2>5. CASE kind \notin Terminal
      <3>1. ~TerminalOut' BY <2>2, <2>4, <2>5 DEF TerminalOut, Making, Out
      <3> QED BY <1>1, <3>1
    <2>6. CASE kind \in Terminal
      <3>1. ReuseSafe' /\ ReuseSafe BY <2>2, <2>3, <2>6 DEF ReuseSafe
      <3>2. cleanupReady /\ stager.pc = "idle" /\ (kind = "abort" => abortReq) /\ (kind = "end" => ~abortReq)
        BY <2>1, <2>2, <2>6 DEF FrameDue, EndDue, Terminal, ControlLayer, ControlInv
      <3>3. abortReq \/ Closed
        <4> SUFFICES ASSUME ~abortReq PROVE Closed OBVIOUS
        <4>1. EndDue /\ EndDeliveryClosed BY <2>1, <2>6 DEF FrameDue, Terminal
        <4>2. tx = NoTx
          BY <2>2, <4>1 DEF FrameLayer, RecordsInv, Going, EndDeliveryClosed
        <4> QED BY <4>1, <4>2 DEF EndDue, EndDeliveryClosed, Closed, Drained
      <3>4. abortReq' \/ Closed' BY <2>2, <3>3 DEF Closed, Drained
      <3>5. \A s \in Slots : ~Out(s)' BY <3>1 DEF ReuseSafe, Out
      <3>6. Making({"abort"})' => abortReq' BY <2>2, <3>2 DEF Making
      <3>7. Making({"end"})' => ~abortReq' /\ app'.pc # "failing" BY <2>2, <3>2 DEF Making
      <3> QED BY <2>2, <3>1, <3>2, <3>4, <3>5, <3>6, <3>7 DEF TerminalInv
    <2> QED BY <2>5, <2>6
  <1>13. CASE ClaimFrame
    <2>1. app.pc = "claim" /\ app.what \in {"start", "end", "abort", "stress"}
      BY <1>13 DEF ClaimFrame, ControlLayer, ControlInv
    <2>2. UNCHANGED << stager, abortReq, cleanupReady, startSent, endReq, dropped,
                       tx, backlog, inFlight, selected >>
      BY <1>13 DEF ClaimFrame
    <2>3. \A s \in Slots : Out(s) => ring[s].frame.kind \notin Terminal
      BY <1>0, <2>1 DEF TerminalInv
    <2>4. CASE UNCHANGED ring /\ app' = AppIdle
      <3>1. ~TerminalOut' BY <2>3, <2>4 DEF TerminalOut, Making, Out, AppIdle
      <3> QED BY <1>1, <3>1
    <2>5. CASE ~(UNCHANGED ring /\ app' = AppIdle)
      <3>1. PICK s \in Slots : /\ Takes(s, Frame(app.what, 0, 0))
                               /\ app' = [app EXCEPT !.pc = "publish", !.slot = s]
        BY <1>13, <2>5, ClaimKinds
      <3>2. /\ \A t \in Slots : t # s => ring'[t] = ring[t]
            /\ ring'[s].frame.kind = app.what /\ ring'[s].state = "BUILDING"
        BY <3>1 DEF Takes, Building, Frame, ControlLayer, Shapes
      <3>3. app'.pc = "publish" /\ app'.what = app.what /\ app'.slot = s
        BY <3>1 DEF ControlLayer, Shapes, Apps
      <3>4. CASE app.what \notin Terminal
        <4>1. ~TerminalOut' BY <2>3, <3>2, <3>3, <3>4 DEF TerminalOut, Making, Out
        <4> QED BY <1>1, <4>1
      <3>5. CASE app.what \in Terminal
        <4>1. TerminalOut /\ ReuseSafe BY <1>0, <2>1, <3>5 DEF TerminalOut, Making, TerminalInv
        <4>2. \A t \in Slots : Out(t)' => t = s BY <3>2, <4>1 DEF ReuseSafe, Out
        <4>3. /\ app.what = "abort" => abortReq
              /\ app.what = "end" => ~abortReq
          BY <1>0, <2>1 DEF TerminalInv, Making
        <4>4. cleanupReady' /\ stager'.pc = "idle" /\ (abortReq' \/ Closed')
          BY <1>3, <2>2, <4>1 DEF Closed, Drained
        <4>5. /\ \A t, u \in Slots : Out(t)' /\ ring'[t].frame.kind \in Terminal /\ Out(u)' => t = u
              /\ \A t \in Slots : Out(t)' => t = app'.slot
          BY <3>3, <4>2
        <4>6. \A t \in Slots : Out(t)' /\ ring'[t].frame.kind = "abort" => abortReq'
          BY <2>2, <3>2, <4>2, <4>3
        <4>7. /\ Making({"abort"})' => abortReq'
              /\ Making({"end"})' => ~abortReq' /\ app'.pc # "failing"
          BY <2>2, <3>3, <4>3 DEF Making
        <4> QED BY <3>3, <4>4, <4>5, <4>6, <4>7 DEF TerminalInv
      <3> QED BY <3>4, <3>5
    <2> QED BY <2>4, <2>5
  <1>14. CASE PublishFrame
    <2>1. \A s \in Slots : Aged(s) BY <1>14, SlotsAge
    <2>2. /\ UNCHANGED << stager, abortReq, cleanupReady, startSent, endReq, dropped,
                          tx, backlog, inFlight >>
          /\ app.pc = "publish" /\ app'.pc \in {"idle", "selected"}
      BY <1>14 DEF PublishFrame, AppIdle
    <2>3. CASE TerminalOut
      <3>1. app.slot \in Slots /\ Out(app.slot)
        BY <2>2 DEF ControlLayer, ControlInv, SlotLayer, HoldersInv, Holding, Out
      <3>2. \A t \in Slots : Out(t) => t = app.slot /\ ring[t].frame.kind = app.what
        BY <1>0, <2>2, <2>3, <3>1 DEF TerminalOut, TerminalInv, FramesInv, Making
      <3>3. app'.pc = "selected" /\ ring'[selected'].frame.kind = "end" => ~abortReq'
        <4>1. app'.pc = "selected" => selected' \in Slots /\ ring'[selected'].state # "FREE"
          BY DEF ControlLayer, ControlInv, Shapes, NoSlot, SlotLayer, HoldersInv, Out
        <4>2. app'.pc = "selected" => ring'[selected'].frame.kind = app.what
          BY <2>1, <3>2, <4>1 DEF Aged, Out
        <4> QED BY <1>0, <2>2, <4>2 DEF TerminalInv, Making
      <3>4. abortReq' \/ Closed' BY <1>3, <2>2, <2>3 DEF Closed, Drained
      <3> QED BY <1>3, <1>4, <2>1, <2>2, <2>3, <3>3, <3>4
    <2> QED BY <1>1, <1>2, <2>1, <2>2, <2>3
  <1>15. CASE NotifyAccepted
    <2>1. PICK s \in Slots : Accepts(s) BY <1>15, AcceptKinds
    <2>2. \A t \in Slots : Aged(t) BY <1>15, SlotsAge
    <2>3. /\ UNCHANGED << stager, abortReq, cleanupReady, endReq, dropped >>
          /\ app.pc = "selected" /\ app'.pc \in {"idle", "failing"}
      BY <2>1 DEF Accepts, Noted, AppIdle
    <2>4. CASE TerminalOut
      <3>1. Out(s) BY <2>1 DEF Accepts, Out
      <3>2. ring[s].frame.kind \in Terminal
        BY <1>0, <2>3, <2>4, <3>1 DEF TerminalOut, TerminalInv, Making
      <3>3. UNCHANGED << startSent, tx, backlog, inFlight >>
        BY <2>1, <3>2 DEF Accepts, Noted, Terminal, counts, LastOfRecord, QueueError
      <3>4. abortReq' \/ Closed' BY <1>3, <2>3, <2>4, <3>3 DEF Closed, Drained
      <3> QED BY <1>3, <1>4, <2>2, <2>3, <2>4, <3>4
    <2> QED BY <1>1, <1>2, <2>2, <2>3, <2>4
  <1>16. CASE NotifyRefused
    <2>1. \A t \in Slots : Aged(t) BY <1>16, SlotsAge
    <2>2. /\ UNCHANGED << stager, abortReq, cleanupReady, startSent, endReq, dropped,
                          tx, backlog, inFlight >>
          /\ app'.pc = "idle"
      BY <1>16 DEF NotifyRefused, AppIdle
    <2>3. CASE TerminalOut
      <3>1. abortReq' \/ Closed' BY <1>3, <2>2, <2>3 DEF Closed, Drained
      <3> QED BY <1>3, <1>4, <2>1, <2>2, <2>3, <3>1
    <2> QED BY <1>1, <1>2, <2>1, <2>2, <2>3
  <1> QED BY <1>0, <1>5, <1>6, <1>7, <1>8, <1>9, <1>10, <1>11, <1>12, <1>13, <1>14, <1>15, <1>16,
             <1>17, StepKinds

\* The frame that the stack takes is the last one on the wire.
LEMMA WireEnds ==
  ASSUME Shapes, NEW frame \in Frames
  PROVE  /\ WireWith(frame) \in Seq(Frames)
         /\ frame.kind # "stress" => WireWith(frame) # << >> /\ Last(WireWith(frame)) = frame
         /\ frame.kind = "stress" => WireWith(frame) = wire
  <1>1. wire \in Seq(Frames) BY DEF Shapes
  <1>2. CASE frame.kind = "stress" \/ (wire # << >> /\ Last(wire) = frame)
    BY <1>1, <1>2 DEF WireWith
  <1>3. CASE ~(frame.kind = "stress" \/ (wire # << >> /\ Last(wire) = frame))
    <2>1. WireWith(frame) = Append(wire, frame) BY <1>3 DEF WireWith
    <2>2. /\ Append(wire, frame) \in Seq(Frames) /\ Append(wire, frame) # << >>
          /\ Len(Append(wire, frame)) = Len(wire) + 1
          /\ Append(wire, frame)[Len(wire) + 1] = frame
      BY <1>1, AppendProperties, LenProperties, EmptySeq
    <2>3. Len(wire) \in Nat BY <1>1, LenProperties
    <2> QED BY <1>3, <2>1, <2>2, <2>3 DEF Last
  <1> QED BY <1>2, <1>3

\* Once END is on the wire of a session that goes on, nothing is staged.
LEMMA NothingAfterEnd ==
  ASSUME ControlLayer, SlotLayer, FrameLayer, active, ~abortReq, LastIs("end")
  PROVE  /\ Closed /\ ~capturing /\ stager.pc # "reading"
         /\ stager.pc = "peeked" => stager.n = 0
  <1>1. Closed /\ ~capturing BY DEF FrameLayer, EndInv, Closed, ControlLayer, ControlInv
  <1>2. app.pc = "failing" => stager.pc = "idle" BY <1>1 DEF ControlLayer, ControlInv
  <1>3. CASE stager.pc = "idle" BY <1>1, <1>3
  <1>4. CASE stager.pc # "idle"
    <2>1. Going BY <1>2, <1>4 DEF Going
    <2>2. tx.n = 0 /\ backlog = << >> BY <1>1 DEF Closed, Drained, NoTx
    <2> QED BY <1>1, <2>1, <2>2 DEF FrameLayer, RecordsInv, ControlLayer, ControlInv
  <1> QED BY <1>3, <1>4

\* END goes out after everything, and its ACK is about it.
LEMMA EndStep ==
  ASSUME ControlLayer, SlotLayer, ControlLayer', SlotLayer', FrameLayer, RestInv', TerminalInv',
         [StreamNext]_vars
  PROVE  EndInv'
  <1>0. EndInv /\ RestInv /\ TerminalInv BY DEF FrameLayer
  <1>1. ASSUME ~active' \/ abortReq' PROVE EndInv'
    <2>1. ~endWait' /\ ~endAcked' BY <1>1 DEF RestInv, ControlLayer, ControlInv, AtRest
    <2> QED BY <1>1, <2>1 DEF EndInv
  <1>2. ASSUME ~endWait', ~endAcked', active /\ ~abortReq /\ LastIs("end") => FALSE, active, ~abortReq,
               wire' = wire
        PROVE  EndInv'
    BY <1>2 DEF EndInv, LastIs
  <1>3. ASSUME active', ~abortReq', ~Begin PROVE active /\ ~abortReq
    <2> SUFFICES \/ UNCHANGED << active, abortReq >>
                 \/ active /\ ~abortReq
      BY <1>3 DEF ControlLayer, Shapes
    <2>1. CASE Quiet \/ Moves \/ GivesUp \/ Completes \/ Acks \/ Withdraws
      BY <2>1 DEF Quiet, Moves, GivesUp, Completes, Acks, Withdraws, phases
    <2>2. CASE FailsNow \/ Ends BY <1>3, <2>2 DEF FailsNow, Ends
    <2>3. CASE Stops \/ EndHeard BY <2>3 DEF Stops, EndHeard
    <2>4. CASE StageGate \/ StageTake BY <2>4 DEF StageGate, StageTake
    <2>5. CASE StagePublish \/ StageReadBusy BY <2>5 DEF StagePublish, StageReadBusy
    <2>6. CASE Commit \/ CaptureDone BY <2>6 DEF Commit, CaptureDone
    <2>7. CASE FailFlags BY <1>3, <2>7 DEF FailFlags, AbortFlags
    <2>8. CASE FailCancels \/ CleanupReady BY <2>8 DEF FailCancels, CleanupReady
    <2>9. CASE SelectReady \/ DecideFrame \/ ClaimFrame
      BY <2>9 DEF SelectReady, DecideFrame, ClaimFrame
    <2>10. CASE PublishFrame \/ NotifyRefused BY <2>10 DEF PublishFrame, NotifyRefused
    <2>11. CASE NotifyAccepted BY <2>11 DEF NotifyAccepted
    <2> QED BY <1>0, <1>3, <2>1, <2>2, <2>3, <2>4, <2>5, <2>6, <2>7, <2>8, <2>9, <2>10, <2>11, StepKinds
  <1>4. CASE Begin
    <2>1. ~endWait' /\ ~endAcked' /\ wire' = << >> BY <1>4 DEF Begin
    <2> QED BY <2>1 DEF EndInv, LastIs
  <1>5. ASSUME active', ~abortReq', ~Begin PROVE EndInv'
    <2>0. active /\ ~abortReq BY <1>3, <1>5
    <2>1. LastIs("end") => /\ Closed /\ ~capturing /\ stager.pc # "reading"
                           /\ stager.pc = "peeked" => stager.n = 0
      BY <2>0, NothingAfterEnd
    <2>2. ASSUME \A s \in Slots : ring'[s] = ring[s], UNCHANGED << phases, ackWait, dropped, tx, backlog, inFlight, wire >>,
                 app'.pc = "claim" => app.pc = "claim" \/ (~endWait /\ ~endAcked),
                 Going' => Going
          PROVE  EndInv'
      BY <1>0, <2>2 DEF EndInv, phases, Closed, Drained, LastIs, Out
    <2>3. CASE Quiet \/ Moves
      BY <2>2, <2>3 DEF Quiet, Moves, Plain, Testing, Storing, Going, phases, counts
    <2>4. CASE GivesUp
      <3>1. ~Going' /\ app'.pc # "claim" BY <2>4 DEF GivesUp, Going
      <3>2. UNCHANGED << startSent, endReq, endWait, endAcked, cleanupReady, ackWait, dropped, tx,
                         backlog, inFlight, wire >>
        BY <2>4 DEF GivesUp, phases, counts
      <3> QED BY <1>0, <2>0, <3>1, <3>2 DEF EndInv, Closed, Drained, LastIs
    <2>5. CASE FailsNow \/ Ends \/ Withdraws
      BY <1>5, <2>0, <2>5 DEF FailsNow, Ends, Withdraws, phases
    <2>6. CASE Stops
      <3>1. ~LastIs("end") /\ wire' = wire BY <2>1, <2>6 DEF Stops, Closed
      <3>2. ~endWait /\ ~endAcked BY <1>0, <3>1 DEF EndInv
      <3>3. ~endWait' /\ ~endAcked' BY <2>6, <3>2 DEF Stops
      <3> QED BY <1>2, <2>0, <3>1, <3>3
    <2>7. CASE Completes
      <3>1. /\ UNCHANGED << phases, counts, app, dropped, wire, selected, generation >> /\ app.pc = "idle"
        BY <2>7 DEF Completes, AppMayRun
      <3>2. \A s \in Slots : Aged(s) BY <2>7, SlotsAge
      <3>3. \A s \in Slots : Out(s)' => ring'[s] = ring[s]
        <4>1. completions \in Seq(Slots) /\ completions # << >>
          BY <2>7 DEF Completes, Retired, ControlLayer, Shapes
        <4> QED BY <2>7, <4>1, HeadIsFirst DEF Completes, Retired, Out, FreeSlot, ControlLayer, Shapes
      <3>4. ASSUME endAcked, Going PROVE \E s \in Slots : ring'[s].state = "IN_FLIGHT"
        <4>1. completions \in Seq(Slots) /\ completions # << >> /\ completions' \in Seq(Slots)
          BY <2>7 DEF Completes, Retired, ControlLayer, Shapes
        <4>2. 1 \in DOMAIN completions /\ Head(completions) = completions[1] /\ Head(completions) \in Slots
          BY <4>1, HeadIsFirst
        <4>3. ring[Head(completions)].gen = generation
          BY <3>4, <4>2 DEF SlotLayer, QueuesInv, SlotShapes, GensInv
        <4>4. ~ReuseSafe' BY <2>7, <3>4, <4>3 DEF Completes
        <4>5. selected' = NoSlot BY <3>1 DEF ControlLayer, ControlInv
        <4>6. \E s \in Slots : Out(s)'
          <5>1. CASE completions' = << >> BY <4>4, <4>5, <5>1 DEF ReuseSafe, Out
          <5>2. CASE completions' # << >>
            <6>1. 1 \in DOMAIN completions' /\ completions'[1] \in Slots
              BY <4>1, <5>2, HeadIsFirst
            <6> QED BY <6>1 DEF SlotLayer, QueuesInv, SlotShapes, Out
          <5> QED BY <5>1, <5>2
        <4>7. PICK s \in Slots : Out(s)' BY <4>6
        <4>8. ring'[s] = ring[s] /\ Out(s) BY <3>3, <4>7 DEF Out
        <4>9. ring[s].state = "IN_FLIGHT" BY <1>0, <3>4, <4>8 DEF EndInv
        <4> QED BY <4>8, <4>9
      <3>5. /\ endWait \/ endAcked => LastIs("end")
            /\ endWait \/ endAcked => ackWait = (IF endWait THEN << 0 >> ELSE << >>)
            /\ active /\ ~abortReq /\ LastIs("end") => Closed
            /\ endWait /\ endAcked => FALSE
            /\ app.pc = "claim" => ~endWait /\ ~endAcked
            /\ (endWait \/ endAcked) /\ Going => \A s \in Slots : Out(s) => ring[s].state = "IN_FLIGHT"
        BY <1>0 DEF EndInv
      <3>6. (endWait \/ endAcked) /\ Going => \A s \in Slots : Out(s)' => ring'[s].state = "IN_FLIGHT"
        BY <3>2, <3>3, <3>5 DEF Aged
      <3> QED BY <3>1, <3>4, <3>5, <3>6 DEF EndInv, phases, counts, Going, LastIs, Closed, Drained
    <2>8. CASE Acks
      <3>1. ~LastIs("end") BY <2>1, <2>8 DEF Acks, Closed, Drained
      <3>2. ~endWait /\ ~endAcked BY <1>0, <3>1 DEF EndInv
      <3> QED BY <1>2, <2>0, <2>8, <3>1, <3>2 DEF Acks, phases
    <2>9. CASE EndHeard
      <3>1. /\ endWait /\ ~endAcked /\ LastIs("end") /\ app.pc = "idle" BY <1>0, <2>9 DEF EndHeard, EndInv, AppMayRun
      <3>2. /\ UNCHANGED << active, startSent, endReq, abortReq, cleanupReady, tx, committed, backlog, inFlight,
                            app, dropped, ring, wire, selected, completions >>
            /\ ~endWait' /\ ackWait' = << >>
        BY <2>9 DEF EndHeard
      <3>3. endAcked' => \E s \in Slots : ring[s].state = "IN_FLIGHT"
        <4> SUFFICES ASSUME endAcked' PROVE \E s \in Slots : ring[s].state = "IN_FLIGHT" OBVIOUS
        <4>1. ~ReuseSafe BY <2>9, <3>1 DEF EndHeard
        <4>2. selected = NoSlot BY <3>1 DEF ControlLayer, ControlInv
        <4>3. \E s \in Slots : Out(s)
          <5>1. CASE completions = << >> BY <4>1, <4>2, <5>1 DEF ReuseSafe, Out
          <5>2. CASE completions # << >>
            <6>1. 1 \in DOMAIN completions /\ completions[1] \in Slots
              BY <5>2, HeadIsFirst DEF ControlLayer, Shapes
            <6> QED BY <6>1 DEF SlotLayer, QueuesInv, SlotShapes, Out
          <5> QED BY <5>1, <5>2
        <4> QED BY <1>0, <2>0, <3>1, <4>3 DEF EndInv, Going
      <3>4. Closed' /\ LastIs("end")' BY <2>1, <3>1, <3>2 DEF Closed, Drained, LastIs
      <3>5. \A s \in Slots : Out(s) => ring[s].state = "IN_FLIGHT" BY <1>0, <2>0, <3>1 DEF EndInv, Going
      <3> QED BY <3>1, <3>2, <3>3, <3>4, <3>5 DEF EndInv, Out
    <2>10. CASE StageGate BY <2>2, <2>10 DEF StageGate, Going, phases
    <2>11. CASE StageTake
      <3>1. UNCHANGED << session, active, startSent, endReq, endWait, endAcked, abortReq, cleanupReady, ackWait,
                         dropped, backlog, inFlight, wire, app >>
        BY <2>11 DEF StageTake
      <3>2. CASE LastIs("end")
        <4>1. tx.n = 0 /\ stager.n = 0 BY <2>1, <2>11, <3>2 DEF StageTake, Closed, Drained, NoTx
        <4>2. tx' = tx /\ UNCHANGED ring BY <2>11, <4>1, TakeKinds DEF NoTx
        <4> QED BY <2>2, <3>1, <4>2 DEF phases, Going
      <3>3. CASE ~LastIs("end")
        <4>1. ~endWait /\ ~endAcked BY <1>0, <3>3 DEF EndInv
        <4> QED BY <1>2, <2>0, <3>1, <3>3, <4>1
      <3> QED BY <3>2, <3>3
    <2>12. CASE StagePublish \/ StageReadBusy
      <3>1. UNCHANGED << endWait, endAcked, wire >> /\ stager.pc = "reading"
        BY <2>12 DEF StagePublish, StageReadBusy
      <3>2. ~LastIs("end") BY <2>1, <3>1
      <3>3. ~endWait /\ ~endAcked BY <1>0, <3>2 DEF EndInv
      <3> QED BY <1>2, <2>0, <3>1, <3>2, <3>3
    <2>13. CASE Commit \/ CaptureDone
      <3>1. UNCHANGED << endWait, endAcked, wire >> /\ capturing BY <2>13 DEF Commit, CaptureDone
      <3>2. ~LastIs("end") BY <2>1, <3>1
      <3>3. ~endWait /\ ~endAcked BY <1>0, <3>2 DEF EndInv
      <3> QED BY <1>2, <2>0, <3>1, <3>2, <3>3
    <2>14. CASE FailFlags \/ FailCancels
      <3>1. FailFlags => abortReq' BY DEF FailFlags, AbortFlags
      <3>2. ~FailCancels BY <2>0 DEF FailCancels, ControlLayer, ControlInv
      <3> QED BY <1>5, <2>14, <3>1, <3>2
    <2>15. CASE CleanupReady
      <3>1. UNCHANGED << endWait, endAcked, wire >> /\ ~cleanupReady BY <2>15 DEF CleanupReady
      <3>2. ~LastIs("end") BY <2>1, <3>1 DEF Closed
      <3>3. ~endWait /\ ~endAcked BY <1>0, <3>2 DEF EndInv
      <3> QED BY <1>2, <2>0, <3>1, <3>2, <3>3
    <2>16. CASE SelectReady BY <2>2, <2>16 DEF SelectReady, AppIdle, Going, phases, MaySend, AppMayRun
    <2>17. CASE DecideFrame
      <3>1. Going /\ UNCHANGED << phases, ackWait, dropped, tx, backlog, inFlight, wire, ring >> /\ app.pc = "idle"
        BY <2>0, <2>17 DEF DecideFrame, Going, MaySend, AppMayRun, phases
      <3>2. \E kind \in FrameDue : TRUE BY <2>17 DEF DecideFrame
      <3>3. ~endWait BY <3>2 DEF FrameDue
      <3>4. ~endAcked
        <4> SUFFICES ASSUME endAcked PROVE FALSE OBVIOUS
        <4>1. Closed /\ ~ReuseSafe BY <1>0, <2>0, <3>1 DEF EndInv, ReuseSafe
        <4> QED BY <2>0, <3>2, <4>1 DEF FrameDue, EndDue, Closed
      <3> QED BY <2>2, <3>1, <3>3, <3>4
    <2>18. CASE ClaimFrame
      <3>1. ~endWait /\ ~endAcked BY <1>0, <2>18 DEF ClaimFrame, EndInv
      <3>2. app'.pc # "claim"
        <4>1. app' = AppIdle \/ \E s \in Slots : app' = [app EXCEPT !.pc = "publish", !.slot = s]
          BY <2>18, ClaimKinds
        <4>2. CASE app' = AppIdle BY <4>2 DEF AppIdle
        <4>3. CASE app' # AppIdle
          <5>1. PICK s \in Slots : app' = [app EXCEPT !.pc = "publish", !.slot = s] BY <4>1, <4>3
          <5> QED BY <5>1 DEF ControlLayer, Shapes, Apps
        <4> QED BY <4>2, <4>3
      <3>3. UNCHANGED << phases, wire, dropped, tx, backlog, inFlight >> BY <2>18 DEF ClaimFrame, phases
      <3> QED BY <1>0, <2>0, <3>1, <3>2, <3>3 DEF EndInv, phases, LastIs, Closed, Drained
    <2>19. CASE PublishFrame \/ NotifyRefused
      <3>1. /\ UNCHANGED << phases, wire, dropped, tx, backlog, inFlight >>
            /\ app'.pc # "claim" /\ app.pc \in {"publish", "selected"}
        BY <2>19 DEF PublishFrame, NotifyRefused, phases, AppIdle
      <3>2. \E s \in Slots : Out(s) /\ ring[s].state # "IN_FLIGHT"
        BY <3>1 DEF ControlLayer, ControlInv, Shapes, NoSlot, SlotLayer, HoldersInv, Holding, Out
      <3>3. ~endWait /\ ~endAcked BY <1>0, <2>0, <3>1, <3>2 DEF EndInv, Going
      <3> QED BY <1>0, <2>0, <3>1, <3>3 DEF EndInv, phases, LastIs, Closed, Drained
    <2>20. CASE NotifyAccepted
      <3>1. PICK s \in Slots : Accepts(s) BY <2>20, AcceptKinds
      <3>2. /\ app.pc = "selected" /\ Out(s) /\ ring[s].state # "IN_FLIGHT" /\ Going
            /\ UNCHANGED << active, endReq, endAcked, abortReq, cleanupReady, dropped >>
            /\ wire' = WireWith(ring[s].frame)
        BY <2>0, <3>1 DEF Accepts, Out, Going
      <3>3. ~endWait /\ ~endAcked BY <1>0, <3>2 DEF EndInv
      <3>4. ring[s].frame \in Frames /\ Shapes BY DEF ControlLayer, Shapes, SlotRecords
      <3>5. StillValid(ring[s]) /\ ring'[s].state = "IN_FLIGHT" /\ Noted(ring[s].frame)
        BY <2>0, <3>1, <3>2 DEF Accepts, SlotLayer, GensInv, Out, StillValid
      <3>6. app'.pc # "claim" BY <3>5 DEF Noted, AppIdle
      <3>7. CASE ring[s].frame.kind = "end"
        <4>1. /\ endWait' /\ ackWait' = Append(ackWait, 0)
              /\ UNCHANGED << tx, backlog, inFlight, startSent >>
          BY <3>5, <3>7 DEF Noted, LastOfRecord, QueueError
        <4>2. Closed BY <1>0, <2>0, <3>2, <3>7 DEF TerminalInv, TerminalOut, Terminal
        <4>3. ackWait = << >> BY <3>2, <3>3, <4>2 DEF FrameLayer, AckInv, Closed, Drained
        <4>4. LastIs("end")' BY <3>2, <3>4, <3>7, WireEnds DEF LastIs
        <4>5. \A t \in Slots : Out(t)' => ring'[t].state = "IN_FLIGHT"
          <5> SUFFICES ASSUME NEW t \in Slots, Out(t)' PROVE ring'[t].state = "IN_FLIGHT" OBVIOUS
          <5>1. Out(t) BY <3>1, <3>2 DEF Accepts, Out
          <5>2. t = s BY <1>0, <3>2, <3>7, <5>1 DEF TerminalInv, Terminal
          <5> QED BY <3>5, <5>2
        <4>6. Closed' BY <3>2, <4>1, <4>2 DEF Closed, Drained
        <4>7. ackWait' = << 0 >> BY <4>1, <4>3
        <4> QED BY <3>2, <3>3, <3>6, <4>1, <4>4, <4>5, <4>6, <4>7 DEF EndInv
      <3>8. CASE ring[s].frame.kind = "stress"
        <4>1. UNCHANGED << counts, endWait, startSent >> BY <3>5, <3>8 DEF Noted, LastOfRecord, QueueError
        <4>2. wire' = wire BY <3>2, <3>4, <3>8, WireEnds
        <4> QED BY <1>0, <3>2, <3>3, <3>6, <4>1, <4>2 DEF EndInv, LastIs, Closed, Drained, counts
      <3>9. CASE ring[s].frame.kind \notin {"end", "stress"}
        <4>1. endWait' = endWait BY <3>5, <3>9 DEF Noted
        <4>2. ~LastIs("end")' BY <3>2, <3>4, <3>9, WireEnds DEF LastIs
        <4> QED BY <3>2, <3>3, <3>6, <4>1, <4>2 DEF EndInv
      <3> QED BY <3>7, <3>8, <3>9
    <2> QED BY <1>0, <1>5, <2>3, <2>4, <2>5, <2>6, <2>7, <2>8, <2>9, <2>10, <2>11, <2>12, <2>13, <2>14,
               <2>15, <2>16, <2>17, <2>18, <2>19, <2>20, StepKinds
  <1> QED BY <1>1, <1>4, <1>5

\* The ACKs that are awaited are those of the records in flight, or of END.
LEMMA AckStep ==
  ASSUME ControlLayer, SlotLayer, ControlLayer', SlotLayer', FrameLayer, [StreamNext]_vars
  PROVE  AckInv'
  <1>0. AckInv /\ RestInv /\ EndInv /\ FramesInv BY DEF FrameLayer
  <1>1. /\ ackWait \in Seq(0 .. Records) /\ inFlight \in Seq(1 .. Records)
        /\ Len(ackWait) \in Nat /\ Len(inFlight) \in Nat /\ Window \in Nat \ {0}
    BY StreamAssumption, LenProperties DEF ControlLayer, Shapes
  <1>2. ASSUME UNCHANGED << ackWait, inFlight >>, endWait' = endWait \/ ~Going', Going' => Going
        PROVE  AckInv'
    BY <1>0, <1>2 DEF AckInv
  <1>3. ASSUME ackWait' = << >>, inFlight' = << >> \/ (~Going' /\ inFlight' = inFlight) PROVE AckInv'
    <2>1. Len(ackWait') <= Window /\ Len(inFlight') <= Window
      BY <1>0, <1>1, <1>3, EmptySeq DEF AckInv
    <2> QED BY <1>3, <2>1 DEF AckInv
  <1>4. CASE Quiet \/ Moves \/ Completes \/ Withdraws
    BY <1>2, <1>4 DEF Quiet, Moves, Plain, Testing, Storing, Completes, Withdraws, phases, counts, Going
  <1>5. CASE GivesUp BY <1>2, <1>5 DEF GivesUp, phases, counts, Going
  <1>6. CASE FailsNow BY <1>3, <1>6 DEF FailsNow, Going
  <1>7. CASE Ends BY <1>3, <1>7 DEF Ends
  <1>8. CASE Stops BY <1>2, <1>8 DEF Stops, Storing, counts, Going
  <1>9. CASE Acks
    <2>1. /\ active /\ app.pc = "acking" /\ inFlight # << >> /\ inFlight' = Tail(inFlight)
          /\ ackWait' = IF ackWait = << >> THEN << >> ELSE Tail(ackWait)
          /\ UNCHANGED << active, abortReq >>
      BY <1>9 DEF Acks, phases
    <2>2. Len(inFlight') = Len(inFlight) - 1 BY <1>1, <2>1, HeadTailProperties
    <2>3. Len(inFlight') <= Window BY <1>0, <1>1, <2>2 DEF AckInv
    <2>4. CASE abortReq
      <3>1. ackWait' = << >> BY <1>0, <2>1, <2>4 DEF RestInv
      <3>2. Len(ackWait') <= Window BY <1>1, <3>1, EmptySeq
      <3> QED BY <2>1, <2>3, <2>4, <3>2 DEF AckInv, Going
    <2>5. CASE ~abortReq
      <3>1. ackWait = inFlight BY <1>0, <2>1, <2>5 DEF AckInv, Going
      <3> QED BY <2>1, <2>3, <3>1 DEF AckInv
    <2> QED BY <2>4, <2>5
  <1>10. CASE EndHeard
    <2>1. active /\ ~abortReq /\ LastIs("end") BY <1>0, <1>10 DEF EndHeard, RestInv, EndInv
    <2>2. inFlight = << >> BY <1>0, <2>1 DEF EndInv, Closed, Drained
    <2> QED BY <1>3, <1>10, <2>2 DEF EndHeard
  <1>11. CASE StageGate \/ StageTake \/ StagePublish \/ StageReadBusy
    BY <1>2, <1>11 DEF StageGate, StageTake, StagePublish, StageReadBusy, Going
  <1>12. CASE Commit \/ CaptureDone \/ CleanupReady
    BY <1>2, <1>12 DEF Commit, Log!CommitRecord, CaptureDone, CleanupReady, Going
  <1>13. CASE Begin BY <1>3, <1>13 DEF Begin, Log!DropAll
  <1>14. CASE FailFlags BY <1>3, <1>14 DEF FailFlags, AbortFlags, Going
  <1>15. CASE FailCancels
    <2>1. abortReq /\ UNCHANGED << abortReq, ackWait, inFlight >>
      BY <1>15 DEF FailCancels, ControlLayer, ControlInv
    <2> QED BY <1>2, <2>1 DEF Going
  <1>16. CASE SelectReady \/ DecideFrame
    BY <1>2, <1>16 DEF SelectReady, DecideFrame, MaySend, AppMayRun, Going
  <1>17. CASE ClaimFrame \/ PublishFrame \/ NotifyRefused
    BY <1>2, <1>17 DEF ClaimFrame, PublishFrame, NotifyRefused, Going
  <1>18. CASE NotifyAccepted
    <2>1. PICK s \in Slots : Accepts(s) BY <1>18, AcceptKinds
    <2>2. /\ active /\ app.pc = "selected" /\ UNCHANGED << active, abortReq >>
      BY <2>1 DEF Accepts, ControlLayer, ControlInv, AtRest
    <2>3. CASE abortReq
      <3>1. ring[s].state = "READY" => ring[s].frame.kind \in {"start", "abort", "stress"}
        BY <1>0, <2>1, <2>2, <2>3 DEF FramesInv
      <3>2. UNCHANGED << ackWait, inFlight >>
        BY <2>1, <3>1 DEF Accepts, Noted, StillValid, counts, LastOfRecord, QueueError
      <3> QED BY <1>2, <2>2, <2>3, <3>2 DEF Going
    <2>4. CASE ~abortReq
      <3>1. Going BY <2>2, <2>4 DEF Going
      <3>2. StillValid(ring[s]) /\ Noted(ring[s].frame)
        BY <2>1, <2>2, <3>1 DEF Accepts, SlotLayer, GensInv, StillValid
      <3>3. ~endWait
        BY <1>0, <2>1, <3>1 DEF EndInv, Accepts, Out
      <3>4. ackWait = inFlight BY <1>0, <3>1, <3>3 DEF AckInv
      <3>5. CASE ring[s].frame.kind = "end"
        <4>1. endWait' /\ ackWait' = Append(ackWait, 0) /\ inFlight' = inFlight
          BY <3>2, <3>5 DEF Noted, LastOfRecord, QueueError
        <4>2. inFlight = << >>
          BY <2>1, <2>4, <3>5
             DEF Accepts, Out, FrameLayer, TerminalInv, TerminalOut, Terminal, Closed, Drained
        <4>3. ackWait' = << 0 >> BY <3>4, <4>1, <4>2
        <4>4. Len(ackWait') = 1 BY <4>3
        <4> QED BY <1>0, <1>1, <4>1, <4>2, <4>4 DEF AckInv
      <3>6. CASE LastOfRecord(ring[s].frame) /\ ~QueueError(ring[s].frame)
        <4>1. /\ inFlight' = Append(inFlight, ring[s].frame.n) /\ ackWait' = Append(ackWait, ring[s].frame.n)
              /\ Len(inFlight) < Window
          BY <3>2, <3>6 DEF Noted, LastOfRecord, QueueError, BookedAsSent, Log!SendOldest
        <4>2. ring[s].frame.n \in 0 .. Records BY DEF ControlLayer, Shapes, SlotRecords, Frames
        <4>3. ackWait' = inFlight' BY <3>4, <4>1
        <4>4. Len(ackWait') = Len(ackWait) + 1 BY <1>1, <4>1, <4>2, AppendProperties
        <4> QED BY <1>1, <3>4, <4>1, <4>3, <4>4 DEF AckInv
      <3>7. CASE /\ ring[s].frame.kind # "end"
                 /\ ~(LastOfRecord(ring[s].frame) /\ ~QueueError(ring[s].frame))
        <4>1. UNCHANGED << ackWait, inFlight, endWait >>
          BY <3>2, <3>7 DEF Noted, counts
        <4> QED BY <1>2, <3>1, <4>1
      <3> QED BY <3>5, <3>6, <3>7
    <2> QED BY <2>3, <2>4
  <1> QED BY <1>0, <1>4, <1>5, <1>6, <1>7, <1>8, <1>9, <1>10, <1>11, <1>12, <1>13, <1>14, <1>15,
             <1>16, <1>17, <1>18, StepKinds

\* The record whose ACK was taken stays the oldest one until it is retired.
LEMMA AckingStep ==
  ASSUME ControlLayer, SlotLayer, ControlLayer', SlotLayer', FrameLayer, [StreamNext]_vars
  PROVE  AckingInv'
  <1>0. AckingInv /\ AckInv /\ EndInv /\ RestInv /\ FramesInv /\ RecordsInv BY DEF FrameLayer
  <1>1. ASSUME UNCHANGED inFlight, startSent => startSent', app'.pc = "acking" => app' = app
        PROVE  AckingInv'
    BY <1>0, <1>1 DEF AckingInv
  <1>2. ASSUME inFlight' = << >>, app'.pc = "idle" PROVE AckingInv' BY <1>2 DEF AckingInv
  <1>3. CASE Quiet \/ GivesUp \/ FailsNow \/ Completes \/ EndHeard \/ Withdraws
    BY <1>1, <1>3 DEF Quiet, GivesUp, FailsNow, Completes, EndHeard, Withdraws, phases, counts
  <1>4. CASE Ends \/ Begin BY <1>2, <1>4 DEF Ends, Begin, Log!DropAll, AppMayRun
  <1>5. CASE Stops BY <1>1, <1>5 DEF Stops, counts
  <1>6. CASE Moves
    <2>1. UNCHANGED << inFlight, startSent >> BY <1>6 DEF Moves, phases, counts
    <2>2. CASE app'.pc # "acking" BY <1>1, <2>1, <2>2
    <2>3. CASE app'.pc = "acking"
      <3>1. Going /\ ackWait # << >> /\ Head(ackWait) # 0 /\ Head(ackWait) = app'.n
        BY <1>6, <2>3 DEF Moves, Going
      <3>2. ~endWait
        <4> SUFFICES ASSUME endWait PROVE FALSE OBVIOUS
        <4>1. ackWait = << 0 >> BY <1>0 DEF EndInv
        <4> QED BY <3>1, <4>1
      <3>3. ackWait = inFlight BY <1>0, <3>1, <3>2 DEF AckInv
      <3> QED BY <1>0, <2>1, <3>1, <3>3 DEF AckingInv
    <2> QED BY <2>2, <2>3
  <1>7. CASE Acks
    <2>1. app'.pc = "idle" /\ inFlight # << >> /\ UNCHANGED startSent BY <1>7 DEF Acks, phases
    <2> QED BY <1>0, <2>1 DEF AckingInv
  <1>8. CASE StageGate \/ StageTake \/ StagePublish \/ StageReadBusy
    BY <1>1, <1>8 DEF StageGate, StageTake, StagePublish, StageReadBusy
  <1>9. CASE Commit \/ CaptureDone \/ CleanupReady
    BY <1>1, <1>9 DEF Commit, Log!CommitRecord, CaptureDone, CleanupReady
  <1>10. CASE FailFlags \/ FailCancels
    <2>1. app'.pc \in {"cancelling", "idle"}
      BY <1>10 DEF FailFlags, FailCancels, AppIdle, ControlLayer, Shapes, Apps
    <2> QED BY <1>1, <1>10, <2>1 DEF FailFlags, FailCancels
  <1>11. CASE SelectReady \/ DecideFrame
    <2>1. app'.pc \in {"selected", "claim"} BY <1>11 DEF SelectReady, DecideFrame, AppIdle
    <2> QED BY <1>1, <1>11, <2>1 DEF SelectReady, DecideFrame
  <1>12. CASE ClaimFrame \/ PublishFrame \/ NotifyRefused
    <2>1. app'.pc # "acking"
      <3>1. CASE ClaimFrame
        <4>1. CASE app' = AppIdle BY <4>1 DEF AppIdle
        <4>2. CASE app' = [app EXCEPT !.pc = "publish", !.slot = FirstFree]
          <5>1. app'.pc = "publish" BY <4>2 DEF ControlLayer, Shapes, Apps
          <5> QED BY <5>1
        <4> QED BY <3>1, <4>1, <4>2 DEF ClaimFrame
      <3>2. CASE PublishFrame \/ NotifyRefused BY <3>2 DEF PublishFrame, NotifyRefused, AppIdle
      <3> QED BY <1>12, <3>1, <3>2
    <2> QED BY <1>1, <1>12, <2>1 DEF ClaimFrame, PublishFrame, NotifyRefused
  <1>13. CASE NotifyAccepted
    <2>1. PICK s \in Slots : Accepts(s) BY <1>13, AcceptKinds
    <2>2. app'.pc \in {"idle", "failing"} /\ (startSent => startSent')
      <3>1. app'.pc \in {"idle", "failing"}
        <4>1. app' = AppIdle \/ app'.pc = "failing" BY <2>1 DEF Accepts, Noted
        <4> QED BY <4>1 DEF AppIdle
      <3>2. startSent => startSent' BY <2>1 DEF Accepts, Noted, counts
      <3> QED BY <3>1, <3>2
    <2>3. CASE inFlight' = inFlight BY <1>1, <2>2, <2>3
    <2>4. CASE inFlight' # inFlight
      <3>1. /\ StillValid(ring[s]) /\ LastOfRecord(ring[s].frame) /\ ~QueueError(ring[s].frame)
            /\ startSent' = startSent
        BY <2>1, <2>4 DEF Accepts, Noted, counts
      <3>2. ring[s].state = "READY" /\ ring[s].frame.kind = "record" /\ active
        BY <3>1 DEF StillValid, LastOfRecord
      <3>3. Going BY <1>0, <2>1, <3>2 DEF Accepts, Going, FramesInv
      <3>4. ring[s].frame.n # 0 BY <1>0, <3>2 DEF FramesInv, Out
      <3>5. tx.n # 0 BY <3>1, <3>2, <3>4 DEF QueueError, FitsTx
      <3>6. startSent BY <1>0, <3>3, <3>5 DEF RecordsInv
      <3> QED BY <2>2, <3>1, <3>6 DEF AckingInv
    <2> QED BY <2>3, <2>4
  <1> QED BY <1>0, <1>3, <1>4, <1>5, <1>6, <1>7, <1>8, <1>9, <1>10, <1>11, <1>12, <1>13, StepKinds

\* The fragments that are queued, as RecordsInv has them, with the record being sent.
InOrder ==
  /\ \A i \in DOMAIN ready : Staged(i) =>
       FrameAt(i).n = tx.n /\ FrameAt(i).f \in tx.sent + 1 .. tx.staged
  /\ \A i, j \in DOMAIN ready : Staged(i) /\ Staged(j) /\ i < j => FrameAt(i).f < FrameAt(j).f
  /\ \A f \in tx.sent + 1 .. tx.staged : \E i \in DOMAIN ready : Staged(i) /\ FrameAt(i).f = f

\* What the record being sent, and the stager, have to do with the log.
Underway ==
  /\ tx.n = 0 => tx = NoTx
  /\ tx.n # 0 => /\ backlog # << >> /\ Head(backlog) = tx.n
                 /\ Len(inFlight) < Window /\ startSent
                 /\ tx.sent < Fragments
  /\ stager.pc = "reading" => /\ stager.gen = generation
                              /\ ring[stager.slot].state = "BUILDING"
                              /\ tx.n = stager.n /\ tx.staged = stager.f - 1
  /\ stager.pc = "peeked" /\ stager.n # 0 =>
       /\ tx.n = 0 /\ backlog # << >> /\ Head(backlog) = stager.n
       /\ Len(inFlight) < Window /\ startSent

LEMMA RecordsParts ==
  RecordsInv <=> tx.sent <= tx.staged /\ (Going => InOrder /\ Underway)
  BY DEF RecordsInv, InOrder, Underway

\* The order is kept when slots leave the queue that have no fragment.
LEMMA OrderThinned ==
  ASSUME ControlLayer, ControlLayer', InOrder, tx' = tx, NEW S \in SUBSET Slots,
         \A s \in Slots \ S : ring[s].state = "READY" => ring'[s].frame = ring[s].frame,
         \A s \in S : ring[s].frame.kind # "record",
         \A i \in DOMAIN ready : ring[ready[i]].state = "READY",
         ready' = Less(ready, S)
  PROVE  InOrder'
  <1>1. ready \in Seq(Slots) BY DEF ControlLayer, Shapes
  <1>2. \A i \in DOMAIN ready : ready[i] \notin S => ring'[ready[i]].frame = ring[ready[i]].frame
    BY <1>1, MembersOf
  <1>3. Thinned(ready', ready, S) BY <1>1, LessKeeps
  <1>4. PICK at \in [DOMAIN ready' -> DOMAIN ready] :
          /\ \A k \in DOMAIN ready' : ready'[k] = ready[at[k]] /\ ready[at[k]] \notin S
          /\ \A k, l \in DOMAIN ready' : k < l => at[k] < at[l]
          /\ \A i \in DOMAIN ready : ready[i] \notin S => \E k \in DOMAIN ready' : at[k] = i
    BY <1>3 DEF Thinned
  <1>5. \A k \in DOMAIN ready' : (Staged(k)' <=> Staged(at[k])) /\ FrameAt(k)' = FrameAt(at[k])
    BY <1>2, <1>4 DEF Staged, FrameAt
  <1>6. \A k \in DOMAIN ready' : Staged(k)' =>
          FrameAt(k)'.n = tx'.n /\ FrameAt(k)'.f \in tx'.sent + 1 .. tx'.staged
    BY <1>4, <1>5 DEF InOrder
  <1>7. \A k, l \in DOMAIN ready' : Staged(k)' /\ Staged(l)' /\ k < l => FrameAt(k)'.f < FrameAt(l)'.f
    BY <1>4, <1>5 DEF InOrder
  <1>8. \A f \in tx'.sent + 1 .. tx'.staged : \E k \in DOMAIN ready' : Staged(k)' /\ FrameAt(k)'.f = f
    <2> SUFFICES ASSUME NEW f \in tx'.sent + 1 .. tx'.staged
                 PROVE  \E k \in DOMAIN ready' : Staged(k)' /\ FrameAt(k)'.f = f
      OBVIOUS
    <2>1. PICK i \in DOMAIN ready : Staged(i) /\ FrameAt(i).f = f BY DEF InOrder
    <2>2. ready[i] \notin S BY <2>1 DEF Staged
    <2>3. PICK k \in DOMAIN ready' : at[k] = i BY <1>4, <2>2
    <2> QED BY <1>5, <2>1, <2>3
  <1> QED BY <1>6, <1>7, <1>8 DEF InOrder, Staged, FrameAt

\* The order is kept when a slot is queued that has the next fragment, or none.
LEMMA OrderExtended ==
  ASSUME ControlLayer, ControlLayer', InOrder, NEW s \in Slots,
         ready' = Append(ready, s), \A t \in Slots : ring'[t].frame = ring[t].frame,
         \/ tx' = tx /\ ring[s].frame.kind # "record"
         \/ /\ tx' = StageAdvanced /\ tx.sent <= tx.staged
            /\ ring[s].frame = Frame("record", tx.n, tx.staged + 1)
  PROVE  InOrder'
  <1>1. ready \in Seq(Slots) BY DEF ControlLayer, Shapes
  <1>2. PICK a \in Nat : a = Len(ready) /\ DOMAIN ready = 1 .. a BY <1>1, LenProperties
  <1>3. /\ DOMAIN ready' = 1 .. a + 1 /\ ready'[a + 1] = s
        /\ \A i \in 1 .. a : ready'[i] = ready[i]
    BY <1>1, <1>2, AppendProperties
  <1>4. \A i \in 1 .. a : (Staged(i)' <=> Staged(i)) /\ FrameAt(i)' = FrameAt(i)
    BY <1>1, <1>2, <1>3, MembersOf DEF Staged, FrameAt
  <1>5. FrameAt(a + 1)' = ring[s].frame /\ (Staged(a + 1)' <=> ring[s].frame.kind = "record")
    BY <1>2, <1>3 DEF Staged, FrameAt
  <1>6. tx.sent \in Nat /\ tx.staged \in Nat BY StreamAssumption DEF ControlLayer, Shapes
  <1>7. PICK new \in Nat : /\ new = tx'.staged /\ tx'.n = tx.n /\ tx'.sent = tx.sent
                           /\ \/ new = tx.staged /\ ~Staged(a + 1)'
                              \/ /\ new = tx.staged + 1 /\ Staged(a + 1)'
                                 /\ tx.sent <= tx.staged
                                 /\ FrameAt(a + 1)'.n = tx.n /\ FrameAt(a + 1)'.f = new
    <2>1. CASE tx' = tx /\ ring[s].frame.kind # "record" BY <1>5, <1>6, <2>1
    <2>2. CASE /\ tx' = StageAdvanced /\ tx.sent <= tx.staged
               /\ ring[s].frame = Frame("record", tx.n, tx.staged + 1)
      <3>1. tx'.staged = tx.staged + 1 /\ tx'.n = tx.n /\ tx'.sent = tx.sent
        BY <2>2 DEF StageAdvanced, ControlLayer, Shapes
      <3>2. /\ ring[s].frame.kind = "record" /\ ring[s].frame.n = tx.n
            /\ ring[s].frame.f = tx.staged + 1
        BY <2>2 DEF Frame
      <3> QED BY <1>5, <1>6, <2>2, <3>1, <3>2
    <2> QED BY <2>1, <2>2
  <1>8. \A i \in 1 .. a : Staged(i) => FrameAt(i).n = tx.n /\ FrameAt(i).f \in tx.sent + 1 .. tx.staged
    BY <1>2 DEF InOrder
  <1>9. \A i \in 1 .. a + 1 : Staged(i)' =>
          FrameAt(i)'.n = tx'.n /\ FrameAt(i)'.f \in tx'.sent + 1 .. tx'.staged
    <2> SUFFICES ASSUME NEW i \in 1 .. a + 1, Staged(i)'
                 PROVE  FrameAt(i)'.n = tx'.n /\ FrameAt(i)'.f \in tx'.sent + 1 .. tx'.staged
      OBVIOUS
    <2>1. CASE i \in 1 .. a BY <1>4, <1>6, <1>7, <1>8, <2>1
    <2>2. CASE i = a + 1 BY <1>6, <1>7, <2>2
    <2> QED BY <1>2, <2>1, <2>2
  <1>10. \A i, j \in 1 .. a + 1 : Staged(i)' /\ Staged(j)' /\ i < j => FrameAt(i)'.f < FrameAt(j)'.f
    <2> SUFFICES ASSUME NEW i \in 1 .. a + 1, NEW j \in 1 .. a + 1, Staged(i)', Staged(j)', i < j
                 PROVE  FrameAt(i)'.f < FrameAt(j)'.f
      OBVIOUS
    <2>1. i \in 1 .. a BY <1>2
    <2>2. CASE j \in 1 .. a BY <1>2, <1>4, <2>1, <2>2 DEF InOrder
    <2>3. CASE j = a + 1
      <3>1. FrameAt(i)'.f \in tx.sent + 1 .. tx.staged BY <1>4, <1>8, <2>1
      <3>2. FrameAt(j)'.f = tx.staged + 1 BY <1>7, <2>3
      <3> QED BY <1>6, <3>1, <3>2
    <2> QED BY <1>2, <2>2, <2>3
  <1>11. \A f \in tx'.sent + 1 .. tx'.staged : \E i \in 1 .. a + 1 : Staged(i)' /\ FrameAt(i)'.f = f
    <2> SUFFICES ASSUME NEW f \in tx'.sent + 1 .. tx'.staged
                 PROVE  \E i \in 1 .. a + 1 : Staged(i)' /\ FrameAt(i)'.f = f
      OBVIOUS
    <2>1. CASE f \in tx.sent + 1 .. tx.staged
      <3>1. PICK i \in 1 .. a : Staged(i) /\ FrameAt(i).f = f BY <1>2, <2>1 DEF InOrder
      <3> QED BY <1>2, <1>4, <3>1
    <2>2. CASE f \notin tx.sent + 1 .. tx.staged
      <3>1. f = tx.staged + 1 /\ Staged(a + 1)' /\ FrameAt(a + 1)'.f = f BY <1>6, <1>7, <2>2
      <3> QED BY <1>2, <3>1
    <2> QED BY <2>1, <2>2
  <1> QED BY <1>3, <1>9, <1>10, <1>11 DEF InOrder, Staged, FrameAt

\* The first of the queue, if it is a fragment, is the next one.
LEMMA FirstFragment ==
  ASSUME ControlLayer, InOrder, ready # << >>, NEW s \in Slots, s = Head(ready),
         ring[s].frame.kind = "record"
  PROVE  /\ ring[s].frame.n = tx.n /\ ring[s].frame.f = tx.sent + 1
         /\ ring[s].frame.f \in Nat /\ ring[s].frame.f <= tx.staged
         /\ \A j \in DOMAIN ready : Staged(j) /\ j # 1 => FrameAt(j).f > ring[s].frame.f
  <1>1. ready \in Seq(Slots) BY DEF ControlLayer, Shapes
  <1>2. PICK a \in Nat : a = Len(ready) /\ DOMAIN ready = 1 .. a BY <1>1, LenProperties
  <1>3. 1 \in DOMAIN ready /\ ready[1] = s /\ Staged(1) /\ FrameAt(1) = ring[s].frame
    BY <1>1, HeadIsFirst DEF Staged, FrameAt
  <1>4. PICK sent \in 0 .. Fragments, staged \in 0 .. Fragments :
          sent = tx.sent /\ staged = tx.staged
    BY DEF ControlLayer, Shapes
  <1>5. Fragments \in Nat BY StreamAssumption
  <1>6. PICK first \in sent + 1 .. staged : first = ring[s].frame.f
    BY <1>3, <1>4 DEF InOrder
  <1>7. ring[s].frame.n = tx.n BY <1>3 DEF InOrder
  <1>8. \A j \in DOMAIN ready : Staged(j) /\ j # 1 => FrameAt(j).f > first
    BY <1>2, <1>3, <1>6 DEF InOrder
  <1>9. first = sent + 1
    <2>1. sent + 1 \in sent + 1 .. staged BY <1>4, <1>5, <1>6
    <2>2. PICK j \in DOMAIN ready : Staged(j) /\ FrameAt(j).f = sent + 1
      BY <1>4, <2>1 DEF InOrder
    <2>3. CASE j = 1 BY <1>3, <1>6, <2>2, <2>3
    <2>4. CASE j # 1 BY <1>4, <1>5, <1>6, <1>8, <2>2, <2>4
    <2> QED BY <2>3, <2>4
  <1> QED BY <1>4, <1>5, <1>6, <1>7, <1>8, <1>9

\* The order is kept when the first fragment goes out, and the last ends the record.
LEMMA OrderSent ==
  ASSUME ControlLayer, ControlLayer', InOrder, ready # << >>, NEW s \in Slots, s = Head(ready),
         ready' = Less(ready, {s}), \A t \in Slots : ring'[t].frame = ring[t].frame,
         ring[s].frame.kind = "record",
         \/ ring[s].frame.f # Fragments /\ tx' = [tx EXCEPT !.sent = @ + 1]
         \/ ring[s].frame.f = Fragments /\ tx' = NoTx
  PROVE  /\ InOrder' /\ tx'.sent <= tx'.staged
         /\ ring[s].frame.n = tx.n /\ ring[s].frame.f = tx.sent + 1
         /\ ring[s].frame.f # Fragments => tx'.sent < Fragments
         /\ ring[s].frame.f = Fragments => tx.staged = Fragments
  <1>1. ready \in Seq(Slots) BY DEF ControlLayer, Shapes
  <1>2. PICK a \in Nat : a = Len(ready) /\ DOMAIN ready = 1 .. a BY <1>1, LenProperties
  <1>3. 1 \in DOMAIN ready /\ ready[1] = s /\ Staged(1) /\ FrameAt(1) = ring[s].frame
    BY <1>1, HeadIsFirst DEF Staged, FrameAt
  <1>4. PICK sent \in 0 .. Fragments, staged \in 0 .. Fragments :
          sent = tx.sent /\ staged = tx.staged
    BY DEF ControlLayer, Shapes
  <1>5. Fragments \in Nat BY StreamAssumption
  <1>6. PICK first \in sent + 1 .. staged : first = ring[s].frame.f
    BY <1>4, <1>5, FirstFragment
  <1>7. ring[s].frame.n = tx.n BY FirstFragment
  <1>8. \A j \in DOMAIN ready : Staged(j) /\ j # 1 => FrameAt(j).f > first
    BY <1>6, FirstFragment
  <1>9. first = sent + 1 BY <1>4, <1>6, FirstFragment
  <1>10. Thinned(ready', ready, {s}) BY <1>1, LessKeeps
  <1>11. PICK at \in [DOMAIN ready' -> DOMAIN ready] :
           /\ \A k \in DOMAIN ready' : ready'[k] = ready[at[k]] /\ ready[at[k]] \notin {s}
           /\ \A k, l \in DOMAIN ready' : k < l => at[k] < at[l]
           /\ \A i \in DOMAIN ready : ready[i] \notin {s} => \E k \in DOMAIN ready' : at[k] = i
    BY <1>10 DEF Thinned
  <1>12. \A k \in DOMAIN ready' : /\ (Staged(k)' <=> Staged(at[k])) /\ FrameAt(k)' = FrameAt(at[k])
                                  /\ at[k] # 1 /\ at[k] \in DOMAIN ready
    <2> SUFFICES ASSUME NEW k \in DOMAIN ready'
                 PROVE  /\ (Staged(k)' <=> Staged(at[k])) /\ FrameAt(k)' = FrameAt(at[k])
                        /\ at[k] # 1 /\ at[k] \in DOMAIN ready
      OBVIOUS
    <2>1. at[k] \in DOMAIN ready /\ ready'[k] = ready[at[k]] /\ ready[at[k]] # s BY <1>11
    <2>2. ready[at[k]] \in Slots BY <1>1, <2>1, MembersOf
    <2> QED BY <1>3, <2>1, <2>2 DEF Staged, FrameAt
  <1>13. \A k \in DOMAIN ready' : Staged(k)' =>
           FrameAt(k)'.n = tx.n /\ FrameAt(k)'.f \in first + 1 .. staged
    <2> SUFFICES ASSUME NEW k \in DOMAIN ready', Staged(k)'
                 PROVE  FrameAt(k)'.n = tx.n /\ FrameAt(k)'.f \in first + 1 .. staged
      OBVIOUS
    <2>1. Staged(at[k]) /\ FrameAt(k)' = FrameAt(at[k]) /\ at[k] # 1 /\ at[k] \in DOMAIN ready
      BY <1>12
    <2>2. FrameAt(at[k]).n = tx.n /\ FrameAt(at[k]).f \in sent + 1 .. staged
      BY <1>4, <2>1 DEF InOrder
    <2>3. FrameAt(at[k]).f > first BY <1>8, <2>1
    <2> QED BY <1>4, <1>5, <1>6, <2>1, <2>2, <2>3
  <1>14. \A k, l \in DOMAIN ready' : Staged(k)' /\ Staged(l)' /\ k < l => FrameAt(k)'.f < FrameAt(l)'.f
    <2> SUFFICES ASSUME NEW k \in DOMAIN ready', NEW l \in DOMAIN ready', Staged(k)', Staged(l)', k < l
                 PROVE  FrameAt(k)'.f < FrameAt(l)'.f
      OBVIOUS
    <2>1. /\ Staged(at[k]) /\ FrameAt(k)' = FrameAt(at[k]) /\ at[k] \in DOMAIN ready
          /\ Staged(at[l]) /\ FrameAt(l)' = FrameAt(at[l]) /\ at[l] \in DOMAIN ready
      BY <1>12
    <2>2. at[k] < at[l] BY <1>11
    <2> QED BY <2>1, <2>2 DEF InOrder
  <1>15. \A f \in first + 1 .. staged : \E k \in DOMAIN ready' : Staged(k)' /\ FrameAt(k)'.f = f
    <2> SUFFICES ASSUME NEW f \in first + 1 .. staged
                 PROVE  \E k \in DOMAIN ready' : Staged(k)' /\ FrameAt(k)'.f = f
      OBVIOUS
    <2>1. f \in sent + 1 .. staged /\ f # first BY <1>4, <1>5, <1>6, <1>9
    <2>2. PICK i \in DOMAIN ready : Staged(i) /\ FrameAt(i).f = f BY <1>4, <2>1 DEF InOrder
    <2>3. ready[i] # s BY <1>6, <2>1, <2>2 DEF FrameAt
    <2>4. PICK k \in DOMAIN ready' : at[k] = i BY <1>11, <2>3
    <2> QED BY <1>12, <2>2, <2>4
  <1>16. CASE first # Fragments /\ tx' = [tx EXCEPT !.sent = @ + 1]
    <2>1. tx'.n = tx.n /\ tx'.sent = first /\ tx'.staged = staged
      BY <1>4, <1>9, <1>16 DEF ControlLayer, Shapes
    <2>2. first <= staged /\ first < Fragments BY <1>4, <1>5, <1>6, <1>16
    <2>3. InOrder' BY <1>13, <1>14, <1>15, <2>1 DEF InOrder, Staged, FrameAt
    <2> QED BY <1>4, <1>6, <1>7, <1>9, <1>16, <2>1, <2>2, <2>3
  <1>17. CASE first = Fragments /\ tx' = NoTx
    <2>1. staged = Fragments BY <1>4, <1>5, <1>6, <1>17
    <2>2. \A k \in DOMAIN ready' : ~Staged(k)'
      <3> SUFFICES ASSUME NEW k \in DOMAIN ready', Staged(k)' PROVE FALSE OBVIOUS
      <3>1. FrameAt(k)'.f \in first + 1 .. staged BY <1>13
      <3> QED BY <1>5, <1>17, <2>1, <3>1
    <2>3. tx'.sent = 0 /\ tx'.staged = 0 BY <1>17 DEF NoTx
    <2>4. tx'.sent + 1 .. tx'.staged = {} BY <2>3
    <2>5. InOrder' BY <2>2, <2>4 DEF InOrder, Staged, FrameAt
    <2> QED BY <1>4, <1>6, <1>7, <1>9, <1>17, <2>1, <2>3, <2>5
  <1> QED BY <1>6, <1>16, <1>17

\* Between failures the fragments are queued in order, of the oldest record unsent.
LEMMA RecordsStep ==
  ASSUME ControlLayer, SlotLayer, ControlLayer', SlotLayer', FrameLayer, [StreamNext]_vars
  PROVE  RecordsInv'
  <1>0. RecordsInv /\ RestInv /\ FramesInv /\ EndInv /\ TerminalInv BY DEF FrameLayer
  <1>1. /\ tx.sent \in Nat /\ tx.staged \in Nat /\ Fragments \in Nat \ {0} /\ Window \in Nat \ {0}
        /\ backlog \in Seq(1 .. Records) /\ inFlight \in Seq(1 .. Records)
        /\ ready \in Seq(Slots) /\ Len(inFlight) \in Nat
    BY StreamAssumption, LenProperties DEF ControlLayer, Shapes
  <1>2. tx.sent <= tx.staged /\ (Going => InOrder /\ Underway) BY <1>0, RecordsParts
  <1>3. ASSUME ~Going', tx'.sent <= tx'.staged PROVE RecordsInv'
    BY <1>3 DEF RecordsInv
  <1>4. ASSUME ~Going', tx' = tx \/ tx' = NoTx PROVE RecordsInv'
    BY <1>2, <1>3, <1>4 DEF NoTx
  <1>4a. ASSUME InOrder, UNCHANGED << tx, ready >>,
                \A s \in Slots : ring[s].state = "READY" => ring'[s].frame = ring[s].frame
         PROVE  InOrder'
    <2>1. \A i \in DOMAIN ready : ring'[ready[i]].frame = ring[ready[i]].frame
      BY <1>1, <1>4a, MembersOf DEF SlotLayer, QueuesInv
    <2> QED BY <1>4a, <2>1 DEF InOrder, Staged, FrameAt
  <1>5. ASSUME Going, UNCHANGED << tx, startSent, generation >>,
               stager' = stager \/ stager' = NoStage,
               stager'.pc = "reading" => ring'[stager.slot].state = ring[stager.slot].state,
               backlog # << >> => backlog' # << >> /\ Head(backlog') = Head(backlog),
               Len(inFlight') <= Len(inFlight), Len(inFlight') \in Nat
        PROVE  Underway'
    <2>1. CASE stager' = stager BY <1>1, <1>2, <1>5, <2>1 DEF Underway
    <2>2. CASE stager' = NoStage BY <1>1, <1>2, <1>5, <2>2 DEF Underway, NoStage
    <2> QED BY <1>5, <2>1, <2>2
  <1>6. ASSUME Going, UNCHANGED << tx, startSent, generation, ready >>,
               \A s \in Slots : ring[s].state = "READY" => ring'[s].frame = ring[s].frame,
               stager' = stager \/ stager' = NoStage,
               stager'.pc = "reading" => ring'[stager.slot].state = ring[stager.slot].state,
               backlog # << >> => backlog' # << >> /\ Head(backlog') = Head(backlog),
               Len(inFlight') <= Len(inFlight), Len(inFlight') \in Nat
        PROVE  RecordsInv'
    <2>1. InOrder' BY <1>2, <1>4a, <1>6
    <2>2. Underway' BY <1>5, <1>6
    <2> QED BY <1>2, <1>6, <2>1, <2>2 DEF RecordsInv, InOrder, Underway
  <1>7. ASSUME Going, UNCHANGED << tx, startSent, generation, ready, ring, backlog, inFlight >>,
               stager' = stager \/ stager' = NoStage
        PROVE  RecordsInv'
    BY <1>1, <1>6, <1>7
  <1>8. ASSUME ~Going, UNCHANGED << active, abortReq, app >> PROVE ~Going'
    BY <1>8 DEF Going
  <1>9. CASE GivesUp \/ FailsNow \/ Ends \/ Withdraws \/ FailFlags \/ FailCancels
    <2>1. CASE GivesUp BY <1>4, <2>1 DEF GivesUp, Going, counts
    <2>2. CASE FailsNow BY <1>4, <2>2 DEF FailsNow, Going
    <2>3. CASE Ends BY <1>4, <2>3 DEF Ends, Going
    <2>4. CASE Withdraws BY <1>4, <2>4 DEF Withdraws, Going, counts, phases
    <2>5. CASE FailFlags BY <1>4, <2>5 DEF FailFlags, AbortFlags, Going
    <2>6. CASE FailCancels
      <3>1. abortReq' /\ tx' = tx BY <2>6 DEF FailCancels, ControlLayer, ControlInv
      <3> QED BY <1>4, <3>1 DEF Going
    <2> QED BY <1>9, <2>1, <2>2, <2>3, <2>4, <2>5, <2>6
  <1>10. CASE Quiet
    <2>1. CASE Going BY <1>7, <1>10, <2>1 DEF Quiet, counts, phases
    <2>2. CASE ~Going BY <1>4, <1>8, <1>10, <2>2 DEF Quiet, counts, phases
    <2> QED BY <2>1, <2>2
  <1>8a. ASSUME ~Going, active, app.pc \in Plain, abortReq' = abortReq PROVE ~Going'
    BY <1>8a DEF Going, Plain, Testing, Storing
  <1>27. CASE Moves
    <2>1. CASE Going BY <1>7, <1>27, <2>1 DEF Moves, counts, phases
    <2>2. CASE ~Going BY <1>4, <1>8a, <1>27, <2>2 DEF Moves, counts, phases
    <2> QED BY <2>1, <2>2
  <1>11. CASE Stops
    <2>1. CASE Going BY <1>7, <1>11, <2>1 DEF Stops, counts
    <2>2. CASE ~Going BY <1>4, <1>8a, <1>11, <2>2 DEF Stops, counts, Plain
    <2> QED BY <2>1, <2>2
  <1>12. CASE Completes
    <2>1. CASE ~Going BY <1>4, <1>8, <1>12, <2>1 DEF Completes, counts, phases
    <2>2. CASE Going
      <3>1. completions \in Seq(Slots) /\ completions # << >>
        BY <1>12 DEF Completes, Retired, ControlLayer, Shapes
      <3>2. PICK h \in Slots : h = Head(completions) /\ ring[h].pending
        BY <3>1, HeadIsFirst DEF SlotLayer, QueuesInv
      <3>3. \A s \in Slots : s # h => ring'[s] = ring[s]
        BY <1>12, <3>2 DEF Completes, Retired, ControlLayer, Shapes
      <3>4. /\ \A s \in Slots : ring[s].state = "READY" => ring'[s].frame = ring[s].frame
            /\ stager.pc = "reading" => ring'[stager.slot].state = ring[stager.slot].state
        BY <3>2, <3>3 DEF SlotLayer, SlotShapes, HoldersInv, Holding, ControlLayer, ControlInv
      <3>5. UNCHANGED << tx, startSent, generation, ready, backlog, inFlight, stager >>
        BY <1>12 DEF Completes, counts, phases
      <3> QED BY <1>1, <1>6, <2>2, <3>4, <3>5
    <2> QED BY <2>1, <2>2
  <1>13. CASE Acks
    <2>1. CASE ~Going BY <1>4, <1>8a, <1>13, <2>1 DEF Acks, phases, Plain
    <2>2. /\ UNCHANGED << tx, startSent, generation, ready, backlog, ring, stager >>
          /\ inFlight # << >> /\ inFlight' = Tail(inFlight)
      BY <1>13 DEF Acks, phases
    <2>3. Len(inFlight') = Len(inFlight) - 1 /\ inFlight' \in Seq(1 .. Records)
      BY <1>1, <2>2, HeadTailProperties
    <2>4. Len(inFlight') <= Len(inFlight) /\ Len(inFlight') \in Nat
      BY <1>1, <2>3, LenProperties
    <2>5. CASE Going BY <1>6, <2>2, <2>4, <2>5
    <2> QED BY <2>1, <2>5
  <1>14. CASE EndHeard
    <2>1. active /\ ~abortReq /\ app.pc = "idle" BY <1>0, <1>14 DEF EndHeard, RestInv, AppMayRun
    <2> QED BY <1>7, <1>14, <2>1 DEF EndHeard, Going
  <1>15. CASE StageGate
    <2>0. UNCHANGED << active, abortReq, app, tx, startSent, generation, ready, ring, backlog, inFlight >>
      BY <1>15 DEF StageGate
    <2>1. CASE ~Going BY <1>4, <1>8, <2>0, <2>1
    <2>2. CASE Going
      <3>1. InOrder' BY <1>2, <2>0, <2>2 DEF InOrder, Staged, FrameAt
      <3>2. startSent BY <1>15 DEF StageGate, StagingAllowed
      <3>3. Underway'
        <4>1. CASE tx.n # 0
          <5>1. stager'.pc = "peeked" /\ stager'.n = 0 BY <1>15, <4>1 DEF StageGate, NoStage
          <5> QED BY <1>2, <2>0, <2>2, <5>1 DEF Underway
        <4>2. CASE tx.n = 0
          <5>1. /\ stager'.pc = "peeked" /\ stager'.n = Head(backlog) /\ backlog # << >> /\ Len(inFlight) < Window
            BY <1>15, <4>2 DEF StageGate, NoStage
          <5> QED BY <1>2, <2>0, <2>2, <3>2, <4>2, <5>1 DEF Underway
        <4> QED BY <4>1, <4>2
      <3> QED BY <1>2, <2>0, <3>1, <3>3 DEF RecordsInv, InOrder, Underway
    <2> QED BY <2>1, <2>2
  <1>16. CASE StageTake
    <2>0. UNCHANGED << active, abortReq, app, startSent, generation, ready, backlog, inFlight >> /\ stager.pc = "peeked"
      BY <1>16 DEF StageTake
    <2>1. CASE stager' = NoStage /\ tx' = tx /\ UNCHANGED ring
      <3>1. CASE ~Going BY <1>4, <1>8, <2>0, <2>1, <3>1
      <3>2. CASE Going BY <1>7, <2>0, <2>1, <3>2
      <3> QED BY <3>1, <3>2
    <2>2. CASE /\ StagingAllowed /\ tx'.n # 0
               /\ tx' = IF tx.n # 0 THEN tx ELSE [NoTx EXCEPT !.n = stager.n]
               /\ \/ stager' = NoStage /\ UNCHANGED ring
                  \/ \E s \in Slots : Fragment(tx', s)
      <3>0. PICK n \in Nat : /\ tx' = IF tx.n # 0 THEN tx ELSE [n |-> n, sent |-> 0, staged |-> 0]
                             /\ n = stager.n
        <4>1. stager.n \in Nat BY StreamAssumption DEF ControlLayer, Shapes, Stagers
        <4> QED BY <2>2, <4>1 DEF NoTx
      <3>1. tx'.sent <= tx'.staged BY <1>2, <3>0
      <3>2. CASE ~Going BY <1>3, <1>8, <2>0, <3>1, <3>2
      <3>3. CASE Going
        <4>1. /\ tx'.n # 0 /\ backlog # << >> /\ Head(backlog) = tx'.n /\ Len(inFlight) < Window
              /\ startSent /\ tx'.sent < Fragments
          <5>1. CASE tx.n # 0 BY <1>2, <2>2, <3>0, <3>3, <5>1 DEF Underway
          <5>2. CASE tx.n = 0
            <6>1. tx'.n = stager.n /\ tx'.sent = 0 BY <3>0, <5>2
            <6> QED BY <1>1, <1>2, <2>0, <2>2, <3>3, <5>2, <6>1 DEF Underway
          <5> QED BY <5>1, <5>2
        <4>2. \A t \in Slots : ring[t].state = "READY" => ring'[t] = ring[t]
          <5>1. ASSUME NEW s \in Slots, Fragment(tx', s), NEW t \in Slots, ring[t].state = "READY"
                PROVE  ring'[t] = ring[t]
            BY <5>1 DEF Fragment, Takes, Out, ControlLayer, Shapes
          <5> QED BY <2>2, <5>1
        <4>3. InOrder'
          <5>1. CASE tx.n # 0
            <6>1. tx' = tx BY <3>0, <5>1
            <6> QED BY <1>2, <1>4a, <2>0, <3>3, <4>2, <6>1
          <5>2. CASE tx.n = 0
            <6>1. tx = NoTx BY <1>2, <3>3, <5>2 DEF Underway
            <6>2. tx.sent + 1 .. tx.staged = {} /\ tx'.sent + 1 .. tx'.staged = {}
              BY <3>0, <5>2, <6>1 DEF NoTx
            <6>3. \A i \in DOMAIN ready : ~Staged(i) BY <1>2, <3>3, <6>2 DEF InOrder
            <6>4. \A i \in DOMAIN ready' : ~Staged(i)'
              <7>1. \A i \in DOMAIN ready : ready[i] \in Slots /\ ring[ready[i]].state = "READY"
                BY <1>1, MembersOf DEF SlotLayer, QueuesInv
              <7> QED BY <2>0, <4>2, <6>3, <7>1 DEF Staged
            <6> QED BY <6>2, <6>4 DEF InOrder, Staged
          <5> QED BY <5>1, <5>2
        <4>4. stager' = NoStage \/ (/\ stager'.pc = "reading" /\ stager'.gen = generation
                                    /\ stager'.n = tx'.n /\ stager'.f = tx'.staged + 1
                                    /\ ring'[stager'.slot].state = "BUILDING")
          <5>1. ASSUME NEW s \in Slots, Fragment(tx', s)
                PROVE  /\ stager'.pc = "reading" /\ stager'.gen = generation
                       /\ stager'.n = tx'.n /\ stager'.f = tx'.staged + 1
                       /\ ring'[stager'.slot].state = "BUILDING"
            BY <5>1 DEF Fragment, Takes, Building, ControlLayer, Shapes
          <5> QED BY <2>2, <5>1
        <4>5. tx'.staged \in Nat BY <1>1, <3>0
        <4>6. Underway' BY <2>0, <4>1, <4>4, <4>5 DEF Underway, NoStage
        <4> QED BY <3>1, <4>3, <4>6 DEF RecordsInv, InOrder, Underway
      <3> QED BY <3>2, <3>3
    <2> QED BY <1>16, <2>1, <2>2, TakeKinds
  <1>17. CASE StagePublish
    <2>0. /\ UNCHANGED << active, abortReq, app, startSent, generation, backlog, inFlight, selected >>
          /\ stager' = NoStage /\ stager.pc = "reading"
      BY <1>17 DEF StagePublish
    <2>1. PICK s \in Slots : s = stager.slot BY <2>0 DEF ControlLayer, ControlInv
    <2>2. CASE ~Going
      <3>1. tx' = tx \/ (tx'.sent = tx.sent /\ tx'.staged = tx.staged + 1)
        BY <1>17 DEF StagePublish, StageAdvanced, ControlLayer, Shapes
      <3> QED BY <1>1, <1>2, <1>3, <1>8, <2>0, <2>2, <3>1
    <2>3. CASE Going
      <3>1. /\ stager.gen = generation /\ ring[s].state = "BUILDING"
            /\ tx.n = stager.n /\ tx.staged = stager.f - 1
        BY <1>2, <2>0, <2>1, <2>3 DEF Underway
      <3>2. StillStaging /\ Publishes(s)
        BY <2>3, <3>1 DEF StillStaging, Publishes, Going, SlotLayer, GensInv
      <3>3. ring' = [ring EXCEPT ![s].state = "READY"] /\ ready' = Append(ready, s) /\ tx' = StageAdvanced
        BY <1>17, <2>1, <3>2 DEF StagePublish, Publish
      <3>4. \A t \in Slots : ring'[t].frame = ring[t].frame
        BY <3>3 DEF ControlLayer, Shapes, SlotRecords
      <3>5. tx'.n = tx.n /\ tx'.sent = tx.sent /\ tx'.staged = tx.staged + 1
        BY <3>3 DEF StageAdvanced, ControlLayer, Shapes
      <3>6. ring[s].frame = Frame("record", tx.n, tx.staged + 1)
        <4>1. stager.f \in 0 .. Fragments BY DEF ControlLayer, Shapes, Stagers
        <4>2. stager.f = tx.staged + 1 BY <1>1, <3>1, <4>1
        <4> QED BY <1>0, <2>0, <2>1, <3>1, <4>2 DEF FramesInv
      <3>7. InOrder' BY <1>2, <2>3, <3>3, <3>4, <3>6, OrderExtended
      <3>8. tx.n # 0 BY <2>0, <3>1 DEF ControlLayer, ControlInv
      <3>9. Underway' BY <1>2, <2>0, <2>3, <3>5, <3>8 DEF Underway, NoStage
      <3> QED BY <1>1, <1>2, <3>5, <3>7, <3>9 DEF RecordsInv, InOrder, Underway
    <2> QED BY <2>2, <2>3
  <1>18. CASE StageReadBusy
    <2>0. /\ UNCHANGED << active, abortReq, app, tx, startSent, generation, ready, backlog, inFlight >>
          /\ stager' = NoStage /\ stager.pc = "reading" /\ ring' = [ring EXCEPT ![stager.slot] = FreeSlot]
      BY <1>18 DEF StageReadBusy, ReleaseBuilder
    <2>1. CASE ~Going BY <1>4, <1>8, <2>0, <2>1
    <2>2. CASE Going
      <3>1. ring[stager.slot].state # "READY" BY <2>0 DEF SlotLayer, HoldersInv, Holding
      <3>2. \A t \in Slots : ring[t].state = "READY" => ring'[t].frame = ring[t].frame
        BY <2>0, <3>1 DEF ControlLayer, Shapes
      <3>3. stager'.pc # "reading" BY <2>0 DEF NoStage
      <3> QED BY <1>1, <1>6, <2>0, <2>2, <3>2, <3>3
    <2> QED BY <2>1, <2>2
  <1>19. CASE Commit
    <2>0. /\ UNCHANGED << active, abortReq, app, tx, startSent, generation, ready, ring, inFlight, stager >>
          /\ backlog' = Append(backlog, committed + 1)
      BY <1>19 DEF Commit, Log!CommitRecord
    <2>1. CASE ~Going BY <1>4, <1>8, <2>0, <2>1
    <2>2. CASE Going
      <3>1. committed + 1 \in 1 .. Records
        BY <1>19, StreamAssumption DEF Commit, ControlLayer, Shapes
      <3>2. backlog # << >> => backlog' # << >> /\ Head(backlog') = Head(backlog)
        <4>1. /\ Append(backlog, committed + 1) \in Seq(1 .. Records)
              /\ Append(backlog, committed + 1) # << >>
              /\ backlog # << >> => Append(backlog, committed + 1)[1] = backlog[1]
          <5>1. backlog \in Seq(1 .. Records) BY <1>1
          <5>2. backlog # << >> => 1 \in 1 .. Len(backlog)
            BY ONLY <5>1, LenProperties, EmptySeq
          <5>3. PICK k \in 1 .. Records : k = committed + 1 BY ONLY <3>1
          <5>4. Append(backlog, k) \in Seq(1 .. Records) /\ Append(backlog, k) # << >>
                /\ (backlog # << >> => Append(backlog, k)[1] = backlog[1])
            BY ONLY <5>1, <5>2, AppendProperties
          <5> QED BY ONLY <5>3, <5>4
        <4> QED BY <1>1, <2>0, <4>1, HeadIsFirst
      <3> QED BY <1>1, <1>6, <2>0, <2>2, <3>2
    <2> QED BY <2>1, <2>2
  <1>20. CASE CaptureDone \/ CleanupReady
    <2>0. UNCHANGED << active, abortReq, app, tx, startSent, generation, ready, ring, backlog, inFlight, stager >>
      BY <1>20 DEF CaptureDone, CleanupReady
    <2>1. CASE ~Going BY <1>4, <1>8, <2>0, <2>1
    <2>2. CASE Going BY <1>7, <2>0, <2>2
    <2> QED BY <2>1, <2>2
  <1>21. CASE Begin
    <2>1. /\ tx' = NoTx /\ ready' = << >> /\ stager.pc # "reading" /\ stager.pc # "peeked" /\ stager' = stager
      BY <1>0, <1>21 DEF Begin, RestInv
    <2>2. tx'.sent + 1 .. tx'.staged = {} /\ tx'.sent <= tx'.staged /\ tx'.n = 0 BY <2>1 DEF NoTx
    <2>3. InOrder' BY <2>1, <2>2, EmptySeq DEF InOrder
    <2>4. Underway' BY <2>1, <2>2 DEF Underway
    <2> QED BY <2>2, <2>3, <2>4 DEF RecordsInv, InOrder, Underway
  <1>22. CASE SelectReady \/ DecideFrame
    <2>0. /\ UNCHANGED << tx, startSent, generation, ready, ring, backlog, inFlight, stager, active, abortReq >>
          /\ app.pc = "idle"
      BY <1>22 DEF SelectReady, DecideFrame, MaySend, AppMayRun
    <2>1. CASE Going BY <1>7, <2>0, <2>1
    <2>2. CASE ~Going BY <1>4, <2>0, <2>2 DEF Going
    <2> QED BY <2>1, <2>2
  <1>23. CASE ClaimFrame
    <2>0. /\ UNCHANGED << tx, startSent, generation, ready, backlog, inFlight, stager, active, abortReq >>
          /\ app.pc = "claim"
      BY <1>23 DEF ClaimFrame
    <2>1. \A s \in Slots : Out(s) => ring'[s] = ring[s]
      <3>1. ASSUME NEW s \in Slots, Takes(s, Frame(app.what, 0, 0))
            PROVE  \A t \in Slots : Out(t) => ring'[t] = ring[t]
        BY <3>1 DEF Takes, Out, ControlLayer, Shapes
      <3> QED BY <1>23, <3>1, ClaimKinds
    <2>2. CASE Going
      <3>1. /\ \A s \in Slots : ring[s].state = "READY" => ring'[s].frame = ring[s].frame
            /\ stager.pc = "reading" => ring'[stager.slot].state = ring[stager.slot].state
        BY <2>1 DEF Out, SlotLayer, HoldersInv, Holding, ControlLayer, ControlInv
      <3> QED BY <1>1, <1>6, <2>0, <2>2, <3>1
    <2>3. CASE ~Going BY <1>4, <2>0, <2>3 DEF Going
    <2> QED BY <2>2, <2>3
  <1>24. CASE PublishFrame
    <2>0. /\ UNCHANGED << tx, startSent, generation, backlog, inFlight, stager, active, abortReq >>
          /\ app.pc = "publish" /\ Publish(app.slot)
      BY <1>24 DEF PublishFrame
    <2>1. CASE ~Going BY <1>4, <2>0, <2>1 DEF Going
    <2>2. CASE Going
      <3>1. PICK s \in Slots : s = app.slot BY <2>0 DEF ControlLayer, ControlInv
      <3>2. ring[s].frame.kind # "record" /\ ring[s].state # "READY"
        BY <1>0, <2>0, <3>1 DEF FramesInv, ControlLayer, ControlInv, SlotLayer, HoldersInv, Holding
      <3>3. stager.pc = "reading" => stager.slot # s /\ stager.slot \in Slots
        BY <2>0, <3>1 DEF SlotLayer, HoldersInv, ControlLayer, ControlInv
      <3>4. CASE Publishes(s)
        <4>1. ring' = [ring EXCEPT ![s].state = "READY"] /\ ready' = Append(ready, s)
          BY <2>0, <3>1, <3>4 DEF Publish
        <4>2. \A t \in Slots : ring'[t].frame = ring[t].frame
          BY <4>1 DEF ControlLayer, Shapes, SlotRecords
        <4>3. InOrder' BY <1>2, <2>0, <2>2, <3>2, <4>1, <4>2, OrderExtended
        <4>4. stager.pc = "reading" => ring'[stager.slot].state = ring[stager.slot].state
          BY <3>3, <4>1 DEF ControlLayer, Shapes
        <4>5. Underway' BY <1>1, <1>5, <2>0, <2>2, <4>4
        <4> QED BY <1>2, <2>0, <4>3, <4>5 DEF RecordsInv, InOrder, Underway
      <3>5. CASE ~Publishes(s)
        <4>1. ring' = [ring EXCEPT ![s] = FreeSlot] /\ ready' = ready
          BY <2>0, <3>1, <3>5 DEF Publish
        <4>2. /\ \A t \in Slots : ring[t].state = "READY" => ring'[t].frame = ring[t].frame
              /\ stager.pc = "reading" => ring'[stager.slot].state = ring[stager.slot].state
          BY <3>2, <3>3, <4>1 DEF ControlLayer, Shapes
        <4> QED BY <1>1, <1>6, <2>0, <2>2, <4>1, <4>2
      <3> QED BY <3>4, <3>5
    <2> QED BY <2>1, <2>2
  <1>25. CASE NotifyRefused
    <2>0. /\ UNCHANGED << tx, startSent, generation, backlog, inFlight, stager, active, abortReq >>
          /\ app.pc = "selected"
      BY <1>25 DEF NotifyRefused
    <2>1. CASE ~Going BY <1>4, <2>0, <2>1 DEF Going
    <2>2. CASE Going
      <3>1. PICK s \in Slots : s = selected /\ ring[s].state # "QUARANTINED" /\ Out(s)
        BY <2>0, <2>2 DEF ControlLayer, ControlInv, Shapes, NoSlot, SlotLayer, HoldersInv, GensInv, Out
      <3>2. CASE UNCHANGED << ring, ready >> BY <1>7, <2>0, <2>2, <3>2
      <3>3. CASE ~UNCHANGED << ring, ready >>
        <4>1. /\ ring' = [ring EXCEPT ![s] = FreeSlot] /\ ready' = Less(ready, {s})
              /\ ring[s].frame.kind = "stress"
          BY <1>25, <3>1, <3>3 DEF NotifyRefused
        <4>2. \A t \in Slots : t # s => ring'[t] = ring[t] BY <4>1 DEF ControlLayer, Shapes
        <4>5. InOrder' BY <1>2, <2>0, <2>2, <4>1, <4>2, OrderThinned DEF SlotLayer, QueuesInv
        <4>6. stager.pc = "reading" => ring'[stager.slot].state = ring[stager.slot].state
          BY <3>1, <4>2 DEF SlotLayer, HoldersInv, Holding, ControlLayer, ControlInv
        <4>7. Underway' BY <1>1, <1>5, <2>0, <2>2, <4>6
        <4> QED BY <1>2, <2>0, <4>5, <4>7 DEF RecordsInv, InOrder, Underway
      <3> QED BY <3>2, <3>3
    <2> QED BY <2>1, <2>2
  <1>26. CASE NotifyAccepted
    <2>1. PICK s \in Slots : Accepts(s) BY <1>26, AcceptKinds
    <2>2. /\ active /\ app.pc = "selected" /\ UNCHANGED << active, abortReq, stager >> /\ s = selected
          /\ ring[s].state \in {"READY", "QUARANTINED"} /\ ready' = Less(ready, {s})
          /\ \A t \in Slots : t # s => ring'[t] = ring[t]
          /\ \A t \in Slots : ring'[t].frame = ring[t].frame
      BY <2>1 DEF Accepts, ControlLayer, ControlInv, AtRest
    <2>3. CASE abortReq
      <3>1. ring[s].state = "READY" => ring[s].frame.kind \in {"start", "abort", "stress"}
        BY <1>0, <2>2, <2>3 DEF FramesInv
      <3>2. tx' = tx
        BY <2>1, <3>1 DEF Accepts, Noted, StillValid, counts, LastOfRecord, QueueError
      <3> QED BY <1>4, <2>2, <2>3, <3>2 DEF Going
    <2>4. CASE ~abortReq
      <3>1. Going BY <2>2, <2>4 DEF Going
      <3>2. StillValid(ring[s]) /\ Noted(ring[s].frame) /\ ring[s].state = "READY"
        BY <2>1, <2>2, <3>1 DEF Accepts, SlotLayer, GensInv, StillValid
      <3>3. ready # << >> /\ Head(ready) = s BY <2>2, <3>2 DEF SlotLayer, HoldersInv
      <3>4. stager.pc = "reading" => ring'[stager.slot].state = ring[stager.slot].state
        BY <2>2 DEF SlotLayer, HoldersInv, Holding, ControlLayer, ControlInv
      <3>5. CASE QueueError(ring[s].frame)
        BY <1>4, <3>2, <3>5 DEF Noted, QueueError, counts, LastOfRecord, Going
      <3>6. CASE ~QueueError(ring[s].frame) /\ ring[s].frame.kind # "record"
        <4>1. UNCHANGED << tx, backlog, inFlight, generation >> /\ (startSent => startSent')
          BY <3>2, <3>6 DEF Noted, counts, LastOfRecord
        <4>2. InOrder' BY <1>2, <2>2, <3>1, <3>6, <4>1, OrderThinned DEF SlotLayer, QueuesInv
        <4>3. Underway' BY <1>2, <2>2, <3>1, <3>4, <4>1 DEF Underway
        <4> QED BY <1>2, <4>1, <4>2, <4>3 DEF RecordsInv, InOrder, Underway
      <3>7. CASE ~QueueError(ring[s].frame) /\ ring[s].frame.kind = "record"
        <4>1. /\ ring[s].frame.f # Fragments => /\ tx' = [tx EXCEPT !.sent = @ + 1]
                                                /\ UNCHANGED << backlog, inFlight >>
              /\ ring[s].frame.f = Fragments => tx' = NoTx
              /\ UNCHANGED << startSent, generation >>
          BY <3>2, <3>7 DEF Noted, LastOfRecord
        <4>2. /\ InOrder' /\ tx'.sent <= tx'.staged
              /\ ring[s].frame.n = tx.n /\ ring[s].frame.f = tx.sent + 1
              /\ ring[s].frame.f # Fragments => tx'.sent < Fragments
              /\ ring[s].frame.f = Fragments => tx.staged = Fragments
          BY <1>2, <2>2, <3>1, <3>3, <3>7, <4>1, OrderSent
        <4>3. tx.n # 0 BY <1>0, <2>2, <3>2, <3>7, <4>2 DEF FramesInv, Out
        <4>4. CASE ring[s].frame.f # Fragments
          <5>1. tx'.n = tx.n /\ tx'.staged = tx.staged
            BY <4>1, <4>4 DEF ControlLayer, Shapes
          <5>2. Underway' BY <1>2, <2>2, <3>1, <3>4, <4>1, <4>2, <4>3, <4>4, <5>1 DEF Underway
          <5> QED BY <4>2, <5>2 DEF RecordsInv, InOrder, Underway
        <4>5. CASE ring[s].frame.f = Fragments
          <5>1. tx' = NoTx /\ tx'.n = 0 BY <4>1, <4>5 DEF NoTx
          <5>2. stager.pc # "reading"
            <6> SUFFICES ASSUME stager.pc = "reading" PROVE FALSE OBVIOUS
            <6>1. tx.staged = stager.f - 1 /\ stager.f \in 0 .. Fragments
              BY <1>2, <3>1 DEF Underway, ControlLayer, Shapes, Stagers
            <6> QED BY <1>1, <4>2, <4>5, <6>1
          <5>3. ~(stager.pc = "peeked" /\ stager.n # 0) BY <1>2, <3>1, <4>3 DEF Underway
          <5>4. Underway' BY <2>2, <5>1, <5>2, <5>3 DEF Underway
          <5> QED BY <4>2, <5>4 DEF RecordsInv, InOrder, Underway
        <4> QED BY <4>4, <4>5
      <3> QED BY <3>5, <3>6, <3>7
    <2> QED BY <2>3, <2>4
  <1> QED BY <1>0, <1>9, <1>10, <1>11, <1>12, <1>13, <1>14, <1>15, <1>16, <1>17, <1>18, <1>19, <1>20,
             <1>21, <1>22, <1>23, <1>24, <1>25, <1>26, <1>27, StepKinds

LEMMA FrameInit == StreamInit => FrameLayer
  <1> SUFFICES ASSUME StreamInit PROVE FrameLayer OBVIOUS
  <1>1. /\ ~active /\ ~endReq /\ ~endWait /\ ~endAcked /\ ~abortReq /\ ~cleanupReady
        /\ tx = NoTx /\ ackWait = << >> /\ ready = << >> /\ wire = << >> /\ committed = 0
        /\ app = AppIdle /\ stager = NoStage /\ ~capturing
        /\ backlog = << >> /\ inFlight = << >>
        /\ \A s \in Slots : ~Out(s) /\ ring[s].state = "FREE"
    BY DEF StreamInit, Log!LogInit, Out, FreeSlot
  <1>2. app.pc = "idle" /\ stager.pc = "idle" BY <1>1 DEF AppIdle, NoStage
  <1>3. RestInv BY <1>1, <1>2 DEF RestInv
  <1>4. FramesInv BY <1>1, <1>2 DEF FramesInv
  <1>5. TerminalInv BY <1>1, <1>2 DEF TerminalInv, TerminalOut, Making
  <1>6. EndInv BY <1>1, <1>2 DEF EndInv, LastIs
  <1>7. AckInv BY <1>1, StreamAssumption, EmptySeq DEF AckInv
  <1>8. RecordsInv BY <1>1 DEF RecordsInv, Going, NoTx
  <1>9. LogInv BY <1>1, EmptySeq DEF LogInv
  <1>10. AckingInv BY <1>1, <1>2 DEF AckingInv
  <1> QED BY <1>3, <1>4, <1>5, <1>6, <1>7, <1>8, <1>9, <1>10 DEF FrameLayer

LEMMA FrameStep ==
  ASSUME ControlLayer, SlotLayer, ControlLayer', SlotLayer', FrameLayer, [StreamNext]_vars
  PROVE  FrameLayer'
  <1>1. RestInv' BY RestStep
  <1>2. FramesInv' BY FramesStep
  <1>3. TerminalInv' BY <1>2, TerminalStep
  <1>4. EndInv' BY <1>1, <1>3, EndStep
  <1>5. AckInv' BY AckStep
  <1>6. RecordsInv' BY RecordsStep
  <1>7. LogInv' BY LogStep
  <1>8. AckingInv' BY AckingStep
  <1> QED BY <1>1, <1>2, <1>3, <1>4, <1>5, <1>6, <1>7, <1>8 DEF FrameLayer

LEMMA FramesHold == StreamSpec => [](ControlLayer /\ SlotLayer /\ FrameLayer)
  <1>1. StreamInit => FrameLayer BY FrameInit
  <1>2. ControlLayer /\ SlotLayer /\ ControlLayer' /\ SlotLayer' /\ FrameLayer /\ [StreamNext]_vars
          => FrameLayer'
    BY FrameStep
  <1> QED BY <1>1, <1>2, SlotsHold, PTL DEF StreamSpec

\* The cursors, the slots and the two queues stay in their ranges: a session
\* takes three generations at most, and no more ACKs are awaited than the
\* window has room for.
THEOREM StreamTypes == StreamSpec => []StreamTypeOK
  <1>1. ControlLayer /\ FrameLayer => StreamTypeOK
    BY DEF ControlLayer, Shapes, ControlInv, GenerationInv, FrameLayer, AckInv, RecordsInv,
           StreamTypeOK, SlotRecords, States
  <1> QED BY <1>1, FramesHold, PTL

\* Every completion that comes retires the slot it is about; and an END whose
\* ACK came first still has a completion to come, which ends the session.
THEOREM StreamCompletesInOrder == StreamSpec => []CompletionsMatchStack
  <1>1. ASSUME ControlLayer, SlotLayer PROVE IF link = "up" THEN completions = sentBack \o stack
                                                            ELSE IsPrefix(sentBack, completions)
    <2>1. completions \in Seq(Slots) /\ sentBack \in Seq(Slots) /\ stack \in Seq(Slots)
      BY <1>1 DEF ControlLayer, Shapes
    <2>2. PICK a \in Nat, b \in Nat, c \in Nat :
            /\ a = Len(sentBack) /\ b = Len(stack) /\ c = Len(completions)
            /\ DOMAIN sentBack = 1 .. a /\ DOMAIN stack = 1 .. b /\ DOMAIN completions = 1 .. c
      BY <2>1, LenProperties
    <2>3. /\ a + b <= c /\ (link = "up" => c = a + b)
          /\ \A i \in 1 .. a : completions[i] = sentBack[i]
          /\ \A i \in 1 .. b : completions[a + i] = stack[i]
      BY <1>1, <2>2 DEF SlotLayer, LinkInv
    <2>4. CASE link = "up"
      <3>1. /\ sentBack \o stack \in Seq(Slots) /\ Len(sentBack \o stack) = a + b
            /\ \A i \in 1 .. a + b : (sentBack \o stack)[i] = IF i <= a THEN sentBack[i] ELSE stack[i - a]
        BY <2>1, <2>2, ConcatProperties
      <3>2. \A i \in 1 .. a + b : completions[i] = (sentBack \o stack)[i]
        <4> SUFFICES ASSUME NEW i \in 1 .. a + b PROVE completions[i] = (sentBack \o stack)[i] OBVIOUS
        <4>1. CASE i \in 1 .. a BY <2>2, <2>3, <3>1, <4>1
        <4>2. CASE i \notin 1 .. a
          <5>0. i - a \in 1 .. b /\ i = a + (i - a) BY <2>2, <4>2
          <5>1. PICK j \in 1 .. b : i = a + j /\ j = i - a BY <5>0
          <5>2. completions[i] = stack[j] BY <2>3, <5>1
          <5>3. (sentBack \o stack)[i] = stack[j] BY <2>2, <3>1, <4>2, <5>1
          <5> QED BY <5>2, <5>3
        <4> QED BY <4>1, <4>2
      <3> QED BY <2>1, <2>2, <2>3, <2>4, <3>1, <3>2, SeqEqual
    <2>5. CASE link # "up"
      <3>1. \A i \in 1 .. a : sentBack[i] \in Slots /\ completions[i] \in Slots
        BY <2>1, <2>2, <2>3, MembersOf
      <3>2. /\ SubSeq(sentBack, 1, a) \in Seq(Slots) /\ SubSeq(completions, 1, a) \in Seq(Slots)
            /\ Len(SubSeq(sentBack, 1, a)) = IF 1 <= a THEN a - 1 + 1 ELSE 0
            /\ Len(SubSeq(completions, 1, a)) = IF 1 <= a THEN a - 1 + 1 ELSE 0
            /\ \A i \in 1 .. a - 1 + 1 : SubSeq(sentBack, 1, a)[i] = sentBack[1 + i - 1]
            /\ \A i \in 1 .. a - 1 + 1 : SubSeq(completions, 1, a)[i] = completions[1 + i - 1]
        BY <2>2, <3>1, SubSeqProperties
      <3>3. Len(SubSeq(sentBack, 1, a)) = a /\ Len(SubSeq(completions, 1, a)) = a BY <2>2, <3>2
      <3>4. \A i \in 1 .. a : SubSeq(sentBack, 1, a)[i] = SubSeq(completions, 1, a)[i]
        <4> SUFFICES ASSUME NEW i \in 1 .. a
                     PROVE  SubSeq(sentBack, 1, a)[i] = SubSeq(completions, 1, a)[i]
          OBVIOUS
        <4>1. i \in 1 .. a - 1 + 1 /\ 1 + i - 1 = i BY <2>2
        <4> QED BY <2>3, <3>2, <4>1
      <3>5. SubSeq(sentBack, 1, a) = SubSeq(completions, 1, a) BY <3>2, <3>3, <3>4, SeqEqual
      <3>6. a <= c BY <2>2, <2>3
      <3> QED BY <2>2, <2>5, <3>5, <3>6 DEF IsPrefix
    <2> QED BY <2>4, <2>5
  <1>2. ASSUME ControlLayer, SlotLayer, FrameLayer, endAcked, app.pc = "idle" PROVE ~ReuseSafe
    <2>1. active BY <1>2 DEF ControlLayer, ControlInv, AtRest
    <2>2. ~abortReq BY <1>2 DEF FrameLayer, RestInv
    <2>3. \E s \in Slots : ring[s].state = "IN_FLIGHT"
      BY <1>2, <2>1, <2>2 DEF FrameLayer, EndInv, Going
    <2> QED BY <2>3 DEF ReuseSafe
  <1>3. ControlLayer /\ SlotLayer /\ FrameLayer => CompletionsMatchStack
    BY <1>1, <1>2 DEF CompletionsMatchStack
  <1> QED BY <1>3, FramesHold, PTL

\* Between failures the READY fragments are exactly the staged ones that were
\* not handed over yet, in their order, whatever the capture task stages while
\* the App task sends; and the ACKs that are awaited are the log's.
THEOREM StreamStagesInOrder == StreamSpec => []StagedInOrder
  <1>1. ControlLayer /\ SlotLayer /\ FrameLayer => StagedInOrder
    <2> SUFFICES ASSUME ControlLayer, FrameLayer, Going PROVE StagedInOrder
      BY DEF StagedInOrder, Going
    <2>1. InOrder /\ Underway BY RecordsParts DEF FrameLayer
    <2> DEFINE staged == { i \in DOMAIN ready : ring[ready[i]].frame.kind = "record" }
    <2>2. \A i : i \in staged <=> i \in DOMAIN ready /\ Staged(i) BY DEF Staged
    <2>3. \A i \in staged : /\ ring[ready[i]].frame.n = tx.n
                            /\ ring[ready[i]].frame.f \in tx.sent + 1 .. tx.staged
      BY <2>1, <2>2 DEF InOrder, FrameAt
    <2>4. \A i, j \in staged : i < j => ring[ready[i]].frame.f < ring[ready[j]].frame.f
      BY <2>1, <2>2 DEF InOrder, FrameAt
    <2>5. \A f \in tx.sent + 1 .. tx.staged : \E i \in staged : ring[ready[i]].frame.f = f
      BY <2>1, <2>2 DEF InOrder, FrameAt
    <2>6. ackWait = inFlight \/ (ackWait = << 0 >> /\ inFlight = << >>)
      BY DEF FrameLayer, AckInv, EndInv
    <2>7. tx.n # 0 => backlog # << >> /\ tx.n = Head(backlog) BY <2>1 DEF Underway
    <2> QED BY <2>3, <2>4, <2>5, <2>6, <2>7 DEF StagedInOrder
  <1> QED BY <1>1, FramesHold, PTL

-----------------------------------------------------------------------------
(* The fourth layer: the wire.                                               *)

\* The fragment that the App task hands over while the session goes on is the
\* one that the other end of the link expects next, and the log has room for it.
LEMMA SelectedFragment ==
  ASSUME ControlLayer, SlotLayer, FrameLayer, WireLayer, Going, app.pc = "selected",
         NEW s \in Slots, s = selected, ring[s].frame.kind = "record"
  PROVE  /\ StillValid(ring[s]) /\ ready # << >> /\ Head(ready) = s
         /\ tx.n # 0 /\ ring[s].frame.n = tx.n /\ ring[s].frame.f = tx.sent + 1
         /\ ~LastIs("end") /\ startSent /\ wire # << >> /\ Last(wire).kind \in {"start", "record"}
         /\ backlog # << >> /\ Head(backlog) = tx.n
         /\ Len(inFlight) < Window /\ Len(ackWait) < Window
         /\ ring[s].frame = Device!NextFragment
  <1>1. ring[s].state = "READY" /\ ring[s].gen = generation /\ ready # << >> /\ Head(ready) = s
    BY DEF SlotLayer, HoldersInv, GensInv
  <1>2. InOrder /\ Underway BY RecordsParts DEF FrameLayer
  <1>3. ring[s].frame.n = tx.n /\ ring[s].frame.f = tx.sent + 1 BY <1>1, <1>2, FirstFragment
  <1>4. tx.n # 0 BY <1>1, <1>3 DEF FrameLayer, FramesInv, Out
  <1>5. backlog # << >> /\ Head(backlog) = tx.n /\ Len(inFlight) < Window /\ startSent
    BY <1>2, <1>4 DEF Underway
  <1>6. ~LastIs("end") BY <1>4 DEF FrameLayer, EndInv, Closed, Drained, NoTx, Going
  <1>7. wire # << >> BY <1>5 DEF WireLayer, StartInv, Going
  <1>8. /\ Last(wire).kind \in {"start", "record"}
        /\ tx.sent # 0 => Last(wire).n = tx.n /\ Last(wire).f = tx.sent
        /\ tx.sent = 0 => Last(wire).n <= committed - Len(backlog)
    BY <1>5, <1>6 DEF WireLayer, WireInv
  <1>9. Len(ackWait) < Window BY <1>5, <1>6 DEF FrameLayer, AckInv, EndInv
  <1>10. ring[s].frame = Frame("record", tx.n, tx.sent + 1)
    BY <1>3 DEF ControlLayer, Shapes, SlotRecords, Frames, Frame
  <1>11. ring[s].frame = Device!NextFragment
    <2>1. CASE tx.sent # 0
      BY <1>5, <1>8, <1>10, <2>1 DEF Device!NextFragment, Device!Frame, Device!Last, Last, Frame
    <2>2. CASE tx.sent = 0
      <3>1. backlog \in Seq(1 .. Records) /\ committed \in Nat /\ wire \in Seq(Frames)
        BY StreamAssumption DEF ControlLayer, Shapes
      <3>2. PICK a \in Nat : a = Len(backlog) /\ DOMAIN backlog = 1 .. a /\ 1 \in 1 .. a
        BY <1>5, <3>1, HeadIsFirst
      <3>3. Head(backlog) = committed - a + 1
        BY <1>5, <3>1, <3>2, HeadIsFirst DEF FrameLayer, LogInv
      <3>4. Last(wire).n \in Nat
        <4>1. Len(wire) \in DOMAIN wire BY <1>7, <3>1, HeadIsFirst
        <4>2. Last(wire) \in Frames BY <3>1, <4>1, MembersOf DEF Last
        <4> QED BY <4>2, StreamAssumption DEF Frames
      <3>5. Last(wire).n # Head(backlog) BY <1>8, <2>2, <3>1, <3>2, <3>3, <3>4
      <3> QED BY <1>5, <1>10, <2>2, <3>5 DEF Device!NextFragment, Device!Frame, Device!Last, Last, Frame
    <2> QED BY <2>1, <2>2
  <1> QED BY <1>1, <1>3, <1>4, <1>5, <1>6, <1>7, <1>8, <1>9, <1>11 DEF StillValid, Going

\* The next fragment is not the last one on the wire: it goes out as a frame of its own.
LEMMA FragmentGoesOut ==
  ASSUME ControlLayer, backlog # << >>, wire # << >>, NEW frame \in Frames,
         frame = Device!NextFragment
  PROVE  WireWith(frame) = Append(wire, frame) /\ frame.kind = "record"
  <1>1. wire \in Seq(Frames) BY DEF ControlLayer, Shapes
  <1>2. Len(wire) \in DOMAIN wire BY <1>1, HeadIsFirst
  <1>3. Last(wire) \in Frames BY <1>1, <1>2, MembersOf DEF Last
  <1>4. Last(wire).f \in Nat BY <1>3, StreamAssumption DEF Frames
  <1>5. Last(wire) # frame
    <2>1. Last(wire).f # Last(wire).f + 1 BY <1>4
    <2> QED BY <2>1 DEF Device!NextFragment, Device!Frame, Device!Last, Last
  <1>6. frame.kind = "record" BY DEF Device!NextFragment, Device!Frame
  <1> QED BY <1>5, <1>6 DEF WireWith

\* START goes out once, before everything else.
LEMMA StartStep ==
  ASSUME ControlLayer, SlotLayer, ControlLayer', SlotLayer', FrameLayer, FrameLayer', WireLayer,
         [StreamNext]_vars
  PROVE  StartInv'
  <1>0. StartInv /\ RestInv /\ FramesInv BY DEF WireLayer, FrameLayer
  <1>1. ASSUME \A s \in Slots : StartOut(s)' => StartOut(s), wire' = wire,
               app' = app \/ app'.pc \notin {"claim", "publish"},
               active' /\ ~abortReq' => active /\ ~abortReq /\ startSent' = startSent
        PROVE  StartInv'
    <2>1. active' /\ ~abortReq' => (startSent' <=> wire' # << >>) BY <1>0, <1>1 DEF StartInv
    <2>2. Making({"start"})' => Making({"start"}) BY <1>1 DEF Making
    <2>3. Making({"start"})' \/ (\E s \in Slots : StartOut(s)') => wire' = << >>
      BY <1>0, <1>1, <2>2 DEF StartInv
    <2>4. \A s, t \in Slots : StartOut(s)' /\ StartOut(t)' => s = t BY <1>0, <1>1 DEF StartInv
    <2>5. app'.pc = "claim" /\ app'.what = "start" => \A s \in Slots : ~StartOut(s)'
      BY <1>0, <1>1 DEF StartInv
    <2>6. app'.pc = "publish" /\ app'.what = "start" => \A s \in Slots : StartOut(s)' => s = app'.slot
      BY <1>0, <1>1 DEF StartInv
    <2> QED BY <2>1, <2>3, <2>4, <2>5, <2>6 DEF StartInv, StartOut, Making, Out
  <1>2. ASSUME \A s \in Slots : Aged(s) PROVE \A s \in Slots : StartOut(s)' => StartOut(s)
    BY <1>2 DEF Aged, StartOut, Out
  <1>3. CASE \/ Quiet \/ Moves \/ GivesUp \/ FailsNow \/ Ends \/ Stops
             \/ Completes \/ Acks \/ EndHeard \/ Withdraws
    <2>1. \A s \in Slots : Aged(s) BY <1>3, SlotsAge
    <2>2. wire' = wire
      BY <1>3 DEF Quiet, Moves, GivesUp, FailsNow, Ends, Stops, Completes, Acks, EndHeard, Withdraws
    <2>3. app' = app \/ app'.pc \notin {"claim", "publish"}
      BY <1>3 DEF Quiet, Moves, GivesUp, FailsNow, Ends, Stops, Completes, Acks, EndHeard, Withdraws,
                  Plain, Testing, Storing
    <2>4. active' /\ ~abortReq' => active /\ ~abortReq /\ startSent' = startSent
      BY <1>3 DEF Quiet, Moves, GivesUp, FailsNow, Ends, Stops, Completes, Acks, EndHeard, Withdraws,
                  phases
    <2> QED BY <1>1, <1>2, <2>1, <2>2, <2>3, <2>4
  <1>4. CASE StageGate \/ StagePublish \/ StageReadBusy \/ Commit \/ CaptureDone \/ CleanupReady
    <2>1. \A s \in Slots : Aged(s) BY <1>4, SlotsAge
    <2>2. UNCHANGED << wire, app, active, abortReq, startSent >>
      BY <1>4 DEF StageGate, StagePublish, StageReadBusy, Commit, CaptureDone, CleanupReady
    <2> QED BY <1>1, <1>2, <2>1, <2>2
  <1>5. CASE FailFlags \/ FailCancels \/ SelectReady \/ PublishFrame \/ NotifyRefused
    <2>1. \A s \in Slots : Aged(s) BY <1>5, SlotsAge
    <2>2. wire' = wire BY <1>5 DEF FailFlags, FailCancels, SelectReady, PublishFrame, NotifyRefused
    <2>3. app'.pc \notin {"claim", "publish"}
      <3>1. CASE FailFlags BY <3>1 DEF FailFlags, ControlLayer, Shapes, Apps
      <3>2. CASE FailCancels \/ SelectReady \/ PublishFrame \/ NotifyRefused
        BY <3>2 DEF FailCancels, SelectReady, PublishFrame, NotifyRefused, AppIdle
      <3> QED BY <1>5, <3>1, <3>2
    <2>4. active' /\ ~abortReq' => active /\ ~abortReq /\ startSent' = startSent
      BY <1>5 DEF FailFlags, AbortFlags, FailCancels, SelectReady, PublishFrame, NotifyRefused
    <2> QED BY <1>1, <1>2, <2>1, <2>2, <2>3, <2>4
  <1>6. CASE StageTake
    <2>1. UNCHANGED << wire, app, active, abortReq, startSent >> BY <1>6 DEF StageTake
    <2>2. ASSUME NEW s \in Slots, Fragment(tx', s), NEW t \in Slots, StartOut(t)' PROVE StartOut(t)
      BY <2>2 DEF Fragment, Takes, Building, Frame, StartOut, Out, ControlLayer, Shapes
    <2>3. UNCHANGED ring => \A t \in Slots : StartOut(t)' => StartOut(t) BY DEF StartOut, Out
    <2> QED BY <1>1, <1>6, <2>1, <2>2, <2>3, TakeKinds
  <1>7. CASE Begin
    <2>1. wire' = << >> /\ ~startSent' /\ \A s \in Slots : ring'[s] = FreeSlot BY <1>7 DEF Begin
    <2>2. app' = app /\ app.pc = "idle" BY <1>7 DEF Begin, AppMayRun
    <2>3. \A s \in Slots : ~StartOut(s)' BY <2>1 DEF StartOut, Out, FreeSlot
    <2> QED BY <2>1, <2>2, <2>3 DEF StartInv, Making
  <1>8. CASE DecideFrame
    <2>0. PICK kind \in FrameDue : app' = [AppIdle EXCEPT !.pc = "claim", !.what = kind]
      BY <1>8 DEF DecideFrame
    <2>1. /\ UNCHANGED << wire, active, abortReq, startSent, ring >> /\ active /\ app.pc = "idle"
          /\ ready = << >>
      BY <1>8 DEF DecideFrame, MaySend, AppMayRun
    <2>2. app'.pc = "claim" /\ app'.what = kind BY <2>0 DEF AppIdle
    <2>3. CASE kind # "start"
      <3>1. ~Making({"start"})' BY <2>2, <2>3 DEF Making
      <3> QED BY <1>0, <2>1, <2>2, <2>3, <3>1 DEF StartInv, StartOut, Out
    <2>4. CASE kind = "start"
      <3>1. ~abortReq /\ ~startSent BY <2>0, <2>4 DEF FrameDue
      <3>2. wire = << >> /\ Going BY <1>0, <2>1, <3>1 DEF StartInv, Going
      <3>3. ASSUME NEW s \in Slots, StartOut(s) PROVE FALSE
        <4>1. ring[s].state \in {"BUILDING", "READY", "IN_FLIGHT"} /\ ~ring[s].pending
          BY <3>2, <3>3 DEF StartOut, Out, SlotLayer, GensInv, ControlLayer, Shapes, SlotRecords, States
        <4>2. ring[s].state # "READY"
          BY <2>1, EmptySeq DEF SlotLayer, QueuesInv
        <4>3. ring[s].state = "BUILDING" BY <4>1, <4>2 DEF SlotLayer, SlotShapes
        <4>4. Stages(s) BY <2>1, <4>3 DEF SlotLayer, SlotShapes, Publishing
        <4>5. ring[s].frame.kind = "record" BY <1>0, <4>4 DEF FramesInv, Stages, Frame
        <4> QED BY <3>3, <4>5 DEF StartOut
      <3> QED BY <2>1, <2>2, <3>1, <3>2, <3>3 DEF StartInv, StartOut, Out
    <2> QED BY <2>3, <2>4
  <1>9. CASE ClaimFrame
    <2>0. UNCHANGED << wire, active, abortReq, startSent >> /\ app.pc = "claim"
      BY <1>9 DEF ClaimFrame
    <2>1. CASE app' = AppIdle /\ UNCHANGED ring
      BY <1>1, <2>0, <2>1 DEF AppIdle, StartOut, Out
    <2>2. ASSUME NEW s \in Slots, Takes(s, Frame(app.what, 0, 0)),
                 app' = [app EXCEPT !.pc = "publish", !.slot = s]
          PROVE  StartInv'
      <3>1. app'.pc = "publish" /\ app'.what = app.what /\ app'.slot = s
        BY <2>2 DEF ControlLayer, Shapes, Apps
      <3>2. /\ \A t \in Slots : t # s => ring'[t] = ring[t]
            /\ ring'[s].frame.kind = app.what
        BY <2>2 DEF Takes, Building, Frame, ControlLayer, Shapes
      <3>3. \A t \in Slots : StartOut(t)' => StartOut(t) \/ (t = s /\ app.what = "start")
        BY <3>2 DEF StartOut, Out
      <3>4. CASE app.what = "start"
        <4>1. wire = << >> /\ \A t \in Slots : ~StartOut(t)
          BY <1>0, <2>0, <3>4 DEF StartInv, Making
        <4>2. \A t \in Slots : StartOut(t)' => t = s BY <3>3, <4>1
        <4> QED BY <1>0, <2>0, <3>1, <4>1, <4>2 DEF StartInv, StartOut, Out
      <3>5. CASE app.what # "start"
        <4>1. \A t \in Slots : StartOut(t)' => StartOut(t) BY <3>3, <3>5
        <4>2. ~Making({"start"})' BY <3>1, <3>5 DEF Making
        <4>3. \A t, u \in Slots : StartOut(t)' /\ StartOut(u)' => t = u BY <1>0, <4>1 DEF StartInv
        <4>4. (\E t \in Slots : StartOut(t)') => wire' = << >> BY <1>0, <2>0, <4>1 DEF StartInv
        <4> QED BY <1>0, <2>0, <3>1, <3>5, <4>2, <4>3, <4>4 DEF StartInv, StartOut, Out
      <3> QED BY <3>4, <3>5
    <2> QED BY <1>9, <2>1, <2>2, ClaimKinds
  <1>10. CASE NotifyAccepted
    <2>1. PICK s \in Slots : Accepts(s) BY <1>10, AcceptKinds
    <2>2. /\ active /\ app.pc = "selected" /\ UNCHANGED << active, abortReq >> /\ s = selected
          /\ Out(s) /\ ~ring[s].pending /\ wire' = WireWith(ring[s].frame)
          /\ app'.pc \in {"idle", "failing"}
          /\ \A t \in Slots : t # s => ring'[t] = ring[t]
          /\ ring'[s].pending
      BY <2>1 DEF Accepts, Noted, AppIdle, ControlLayer, ControlInv, AtRest, Out
    <2>3. \A t \in Slots : StartOut(t)' => StartOut(t) /\ t # s BY <2>2 DEF StartOut, Out
    <2>4. ~Making({"start"})' /\ app'.pc \notin {"claim", "publish"} BY <2>2 DEF Making
    <2>5. ASSUME \A t \in Slots : ~StartOut(t)', ~abortReq' => (startSent' <=> wire' # << >>)
          PROVE  StartInv'
      BY <2>4, <2>5 DEF StartInv
    <2>6. ring[s].frame \in Frames /\ Shapes BY DEF ControlLayer, Shapes, SlotRecords
    <2>7. ring[s].frame.kind # "stress" => wire' # << >> BY <2>2, <2>6, WireEnds
    <2>8. ~abortReq => Going BY <2>2 DEF Going
    <2>9. ASSUME ring[s].frame.kind # "start" PROVE startSent' = startSent
      BY <2>1, <2>9 DEF Accepts, Noted, LastOfRecord, QueueError
    <2>10. CASE ring[s].frame.kind = "stress"
      <3>1. wire' = wire /\ startSent' = startSent BY <2>2, <2>6, <2>9, <2>10, WireEnds
      <3> QED BY <1>1, <2>2, <2>3, <2>4, <3>1
    <2>11. CASE ring[s].frame.kind = "start"
      <3>1. StartOut(s) BY <2>2, <2>11 DEF StartOut
      <3>2. \A t \in Slots : ~StartOut(t)' BY <1>0, <2>3, <3>1 DEF StartInv
      <3>3. ASSUME ~abortReq PROVE startSent'
        <4>1. StillValid(ring[s])
          BY <2>1, <2>2, <2>8, <3>3 DEF Accepts, SlotLayer, GensInv, StillValid
        <4> QED BY <2>1, <2>11, <4>1 DEF Accepts, Noted, LastOfRecord, QueueError
      <3> QED BY <2>2, <2>5, <2>7, <2>11, <3>2, <3>3
    <2>12. CASE ring[s].frame.kind = "record"
      <3>1. wire # << >>
        <4>1. CASE abortReq BY <2>2, <2>12, <4>1 DEF WireLayer, StragglerInv
        <4>2. CASE ~abortReq BY <2>2, <2>8, <2>12, <4>2, SelectedFragment
        <4> QED BY <4>1, <4>2
      <3>2. \A t \in Slots : ~StartOut(t)' BY <1>0, <2>3, <3>1 DEF StartInv
      <3>3. ~abortReq => startSent BY <1>0, <2>2, <3>1 DEF StartInv
      <3> QED BY <2>2, <2>5, <2>7, <2>9, <2>12, <3>2, <3>3
    <2>13. CASE ring[s].frame.kind \in Terminal
      <3>1. \A t \in Slots : ~StartOut(t)'
        BY <2>2, <2>3, <2>13 DEF FrameLayer, TerminalInv, StartOut
      <3>2. abortReq \/ startSent
        <4>1. TerminalOut BY <2>2, <2>13 DEF TerminalOut
        <4> QED BY <4>1 DEF FrameLayer, TerminalInv, Closed
      <3>3. ring[s].frame.kind # "stress" /\ ring[s].frame.kind # "start" BY <2>13 DEF Terminal
      <3> QED BY <2>2, <2>5, <2>7, <2>9, <3>1, <3>2, <3>3
    <2>14. ring[s].frame.kind \in {"start", "record", "stress"} \cup Terminal
      BY <1>0, <2>2, <2>6 DEF FramesInv, Frames, Kinds, Terminal
    <2> QED BY <2>10, <2>11, <2>12, <2>13, <2>14
  <1> QED BY <1>0, <1>3, <1>4, <1>5, <1>6, <1>7, <1>8, <1>9, <1>10, StepKinds

\* The wire ends where the record being sent stands.
LEMMA WireStep ==
  ASSUME ControlLayer, SlotLayer, ControlLayer', SlotLayer', FrameLayer, WireLayer, [StreamNext]_vars
  PROVE  WireInv'
  <1>0. WireInv /\ StartInv /\ RestInv BY DEF WireLayer, FrameLayer
  <1>1. ASSUME ~Going' \/ ~startSent' PROVE WireInv' BY <1>1 DEF WireInv
  <1>2. ASSUME Going' => Going, startSent' => startSent, UNCHANGED wire,
               committed' - Len(backlog') = committed - Len(backlog),
               tx'.sent = tx.sent, tx'.sent # 0 => tx'.n = tx.n
        PROVE  WireInv'
    BY <1>0, <1>2 DEF WireInv, LastIs
  <1>3. CASE GivesUp \/ FailsNow \/ Ends \/ FailFlags \/ FailCancels \/ Withdraws
    <2>1. ~Going'
      <3>1. CASE GivesUp BY <3>1 DEF GivesUp, Going
      <3>2. CASE FailsNow BY <3>2 DEF FailsNow, Going
      <3>3. CASE Ends BY <3>3 DEF Ends, Going
      <3>4. CASE FailFlags BY <3>4 DEF FailFlags, AbortFlags, Going
      <3>5. CASE FailCancels BY <3>5 DEF FailCancels, ControlLayer, ControlInv, Going
      <3>6. CASE Withdraws BY <3>6 DEF Withdraws, phases, Going
      <3> QED BY <1>3, <3>1, <3>2, <3>3, <3>4, <3>5, <3>6
    <2> QED BY <1>1, <2>1
  <1>4. CASE Quiet \/ Moves \/ Stops \/ Completes \/ Acks \/ EndHeard
    <2>1. /\ UNCHANGED << active, abortReq, startSent, wire, tx, committed, backlog >>
          /\ app.pc = "failing" => app' = app
      BY <1>4 DEF Quiet, Moves, Stops, Completes, Acks, EndHeard, phases, counts,
                  Plain, Testing, Storing
    <2> QED BY <1>2, <2>1 DEF Going
  <1>5. CASE StageGate \/ StageReadBusy \/ CaptureDone \/ CleanupReady
    <2>1. UNCHANGED << active, abortReq, app, startSent, wire, tx, committed, backlog >>
      BY <1>5 DEF StageGate, StageReadBusy, CaptureDone, CleanupReady
    <2> QED BY <1>2, <2>1 DEF Going
  <1>6. CASE SelectReady \/ DecideFrame \/ ClaimFrame \/ PublishFrame \/ NotifyRefused
    <2>1. /\ UNCHANGED << active, abortReq, startSent, wire, tx, committed, backlog >>
          /\ app.pc # "failing"
      BY <1>6 DEF SelectReady, DecideFrame, ClaimFrame, PublishFrame, NotifyRefused, MaySend, AppMayRun
    <2>2. Going' => Going BY <2>1 DEF Going
    <2> QED BY <1>2, <2>1, <2>2
  <1>7. CASE StageTake
    <2>1. UNCHANGED << active, abortReq, app, startSent, wire, committed, backlog >>
      BY <1>7 DEF StageTake
    <2>2. tx' = tx \/ (tx.n = 0 /\ tx' = [NoTx EXCEPT !.n = stager.n])
      BY <1>7, TakeKinds
    <2>3. ASSUME Going, tx.n = 0, tx' = [NoTx EXCEPT !.n = stager.n]
          PROVE  tx'.sent = tx.sent /\ tx'.sent = 0
      <3>1. tx = NoTx BY <2>3 DEF FrameLayer, RecordsInv
      <3> QED BY <2>3, <3>1 DEF NoTx
    <2>4. Going' => Going BY <2>1 DEF Going
    <2>5. CASE ~Going BY <1>1, <2>4, <2>5
    <2>6. CASE Going
      <3>1. tx'.sent = tx.sent /\ (tx'.sent # 0 => tx'.n = tx.n) BY <2>2, <2>3, <2>6
      <3> QED BY <1>2, <2>1, <2>4, <3>1
    <2> QED BY <2>5, <2>6
  <1>8. CASE StagePublish
    <2>1. UNCHANGED << active, abortReq, app, startSent, wire, committed, backlog >>
      BY <1>8 DEF StagePublish
    <2>2. tx'.sent = tx.sent /\ tx'.n = tx.n
      BY <1>8 DEF StagePublish, StageAdvanced, ControlLayer, Shapes
    <2> QED BY <1>2, <2>1, <2>2 DEF Going
  <1>9. CASE Commit
    <2>1. /\ UNCHANGED << active, abortReq, app, startSent, wire, tx >>
          /\ committed' = committed + 1 /\ backlog' = Append(backlog, committed + 1)
      BY <1>9 DEF Commit, Log!CommitRecord
    <2>2. backlog \in Seq(1 .. Records) /\ committed \in Nat /\ committed + 1 \in 1 .. Records
      BY <1>9, StreamAssumption DEF Commit, ControlLayer, Shapes
    <2>3. PICK a \in Nat : a = Len(backlog) /\ Len(backlog') = a + 1
      BY <2>1, <2>2, AppendProperties, LenProperties
    <2>4. committed' - Len(backlog') = committed - Len(backlog) BY <2>1, <2>2, <2>3
    <2> QED BY <1>2, <2>1, <2>4 DEF Going
  <1>10. CASE Begin BY <1>1, <1>10 DEF Begin
  <1>11. CASE NotifyAccepted
    <2>1. PICK s \in Slots : Accepts(s) BY <1>11, AcceptKinds
    <2>2. /\ active /\ app.pc = "selected" /\ UNCHANGED << active, abortReq >> /\ s = selected
          /\ Out(s) /\ ~ring[s].pending /\ wire' = WireWith(ring[s].frame)
      BY <2>1 DEF Accepts, ControlLayer, ControlInv, AtRest, Out
    <2>3. CASE abortReq BY <1>1, <2>2, <2>3 DEF Going
    <2>4. CASE ~abortReq
      <3>1. Going BY <2>2, <2>4 DEF Going
      <3>2. StillValid(ring[s]) /\ Noted(ring[s].frame)
        BY <2>1, <2>2, <3>1 DEF Accepts, SlotLayer, GensInv, StillValid
      <3>3. ring[s].frame \in Frames /\ Shapes BY DEF ControlLayer, Shapes, SlotRecords
      <3>4. /\ ring[s].frame.kind # "stress" => wire' # << >> /\ Last(wire') = ring[s].frame
            /\ ring[s].frame.kind = "stress" => wire' = wire
        BY <2>2, <3>3, WireEnds
      <3>5. ring[s].frame.kind \in {"start", "record", "stress", "end", "abort"}
        BY <2>2, <3>3 DEF FrameLayer, FramesInv, Frames, Kinds
      <3>6. /\ backlog \in Seq(1 .. Records) /\ committed \in Nat /\ tx.sent \in Nat
            /\ Fragments \in Nat \ {0}
        BY StreamAssumption DEF ControlLayer, Shapes
      <3>7. PICK a \in Nat : a = Len(backlog) /\ a <= committed
        BY <3>6, LenProperties DEF FrameLayer, LogInv, ControlLayer, Shapes
      <3>8. CASE ring[s].frame.kind = "stress"
        <4>1. UNCHANGED << tx, committed, backlog, startSent, wire >>
          BY <3>2, <3>4, <3>8 DEF Noted, counts, LastOfRecord, QueueError
        <4> QED BY <1>2, <3>1, <4>1
      <3>9. CASE ring[s].frame.kind = "abort"
        <4>1. abortReq BY <2>2, <3>9 DEF FrameLayer, TerminalInv
        <4> QED BY <2>4, <4>1
      <3>10. CASE ring[s].frame.kind = "end" BY <3>4, <3>10 DEF WireInv, LastIs
      <3>11. CASE ring[s].frame.kind = "start"
        <4>1. UNCHANGED << tx, committed, backlog >>
          BY <3>2, <3>11 DEF Noted, counts, LastOfRecord, QueueError
        <4>2. ~startSent BY <1>0, <2>2, <2>4, <3>11 DEF StartInv, StartOut
        <4>3. tx.sent = 0 BY <3>1, <4>2 DEF FrameLayer, RecordsInv, NoTx
        <4>4. Last(wire').kind = "start" /\ Last(wire').n = 0
          <5>1. ring[s].frame = Frame("start", 0, 0) BY <2>2, <3>11 DEF FrameLayer, FramesInv
          <5>2. Last(wire') = Frame("start", 0, 0) BY <3>4, <3>11, <5>1
          <5> QED BY <5>2 DEF Frame
        <4>5. 0 <= committed - a BY <3>6, <3>7
        <4> QED BY <3>7, <4>1, <4>3, <4>4, <4>5 DEF WireInv
      <3>12. CASE ring[s].frame.kind = "record"
        <4>1. /\ ring[s].frame.n = tx.n /\ ring[s].frame.f = tx.sent + 1 /\ tx.n # 0
              /\ backlog # << >> /\ Head(backlog) = tx.n
          BY <2>2, <3>1, <3>12, SelectedFragment
        <4>2. CASE QueueError(ring[s].frame)
          <5>1. ~Going' BY <3>2, <3>12, <4>2 DEF Noted, LastOfRecord, Going
          <5> QED BY <1>1, <5>1
        <4>3. CASE ~QueueError(ring[s].frame) /\ ring[s].frame.f # Fragments
          <5>1. tx' = [tx EXCEPT !.sent = @ + 1]
            BY <3>2, <3>12, <4>3 DEF Noted, LastOfRecord
          <5>2. tx'.sent = tx.sent + 1 /\ tx'.n = tx.n BY <5>1 DEF ControlLayer, Shapes
          <5>3. tx'.sent # 0 BY <3>6, <5>2
          <5> QED BY <3>4, <3>12, <4>1, <5>2, <5>3 DEF WireInv
        <4>4. CASE ~QueueError(ring[s].frame) /\ ring[s].frame.f = Fragments
          <5>1. tx' = NoTx /\ backlog' = Tail(backlog) /\ committed' = committed
            BY <3>2, <3>12, <4>4 DEF Noted, LastOfRecord, Log!SendOldest
          <5>2. Len(backlog') = a - 1 BY <3>6, <3>7, <4>1, <5>1, HeadTailProperties
          <5>3. Head(backlog) = committed - a + 1
            BY <3>6, <3>7, <4>1, HeadIsFirst DEF FrameLayer, LogInv
          <5>4. Last(wire').n = committed' - Len(backlog')
            BY <3>4, <3>6, <3>7, <3>12, <4>1, <5>1, <5>2, <5>3
          <5>5. committed' - Len(backlog') \in Int BY <3>6, <3>7, <5>1, <5>2
          <5>6. Last(wire').n <= committed' - Len(backlog') BY <5>4, <5>5
          <5>7. tx'.sent = 0 /\ Last(wire').kind = "record" BY <3>4, <3>12, <5>1 DEF NoTx
          <5> QED BY <5>6, <5>7 DEF WireInv
        <4> QED BY <4>2, <4>3, <4>4
      <3> QED BY <3>5, <3>8, <3>9, <3>10, <3>11, <3>12
    <2> QED BY <2>3, <2>4
  <1> QED BY <1>0, <1>3, <1>4, <1>5, <1>6, <1>7, <1>8, <1>9, <1>10, <1>11, StepKinds

\* A fragment that is still handed over when the session fails is the next one.
LEMMA StragglerStep ==
  ASSUME ControlLayer, SlotLayer, ControlLayer', SlotLayer', FrameLayer, FrameLayer', WireLayer,
         [StreamNext]_vars
  PROVE  StragglerInv'
  <1>0. StragglerInv /\ RestInv BY DEF WireLayer, FrameLayer
  <1>1. ASSUME app'.pc # "selected" PROVE StragglerInv' BY <1>1 DEF StragglerInv
  <1>2. ASSUME app' = app, selected' = selected, wire' = wire, \A s \in Slots : Aged(s),
               backlog # << >> => backlog' # << >> /\ Head(backlog') = Head(backlog),
               abortReq' => abortReq \/ Going
        PROVE  StragglerInv'
    <2> SUFFICES ASSUME abortReq', app.pc = "selected", ring'[selected].frame.kind = "record"
                 PROVE  /\ backlog' # << >> /\ Last(wire).kind \in {"start", "record"} /\ wire # << >>
                        /\ ring'[selected].frame = Device!NextFragment'
      BY <1>2 DEF StragglerInv
    <2>1. PICK s \in Slots : s = selected
      BY <1>2 DEF ControlLayer, ControlInv, Shapes, NoSlot
    <2>2. ring'[s].state # "FREE" BY <1>2, <2>1 DEF SlotLayer, HoldersInv
    <2>3. ring'[s].frame = ring[s].frame BY <1>2, <2>2 DEF Aged, Out
    <2>4. /\ backlog # << >> /\ Last(wire).kind \in {"start", "record"} /\ wire # << >>
          /\ ring[s].frame = Device!NextFragment
      <3>1. CASE abortReq BY <1>0, <2>1, <2>3, <3>1 DEF StragglerInv
      <3>2. CASE Going BY <2>1, <2>3, <3>2, SelectedFragment
      <3> QED BY <1>2, <3>1, <3>2
    <2>5. Device!NextFragment' = Device!NextFragment
      BY <1>2, <2>4 DEF Device!NextFragment, Device!Frame, Device!Last
    <2> QED BY <1>2, <2>1, <2>3, <2>4, <2>5
  <1>3. CASE app.pc # "selected" /\ app' = app BY <1>1, <1>3
  <1>4. CASE \/ Moves \/ GivesUp \/ Ends \/ Stops \/ Completes \/ Acks \/ EndHeard
             \/ Withdraws \/ Begin \/ CleanupReady
    <2>1. app'.pc # "selected"
      BY <1>4 DEF Moves, GivesUp, Ends, Stops, Completes, Acks, EndHeard, Withdraws, Begin,
                  CleanupReady, AppMayRun, Plain, Testing, Storing
    <2> QED BY <1>1, <2>1
  <1>5. CASE FailFlags \/ FailCancels \/ DecideFrame \/ ClaimFrame \/ NotifyRefused \/ NotifyAccepted
    <2>1. FailFlags => app'.pc # "selected" BY DEF FailFlags, ControlLayer, Shapes, Apps
    <2>2. FailCancels \/ NotifyRefused => app'.pc # "selected"
      BY DEF FailCancels, NotifyRefused, AppIdle
    <2>3. DecideFrame => app'.pc # "selected" BY DEF DecideFrame, AppIdle
    <2>4. ClaimFrame => app'.pc # "selected"
      <3> SUFFICES ASSUME ClaimFrame PROVE app'.pc # "selected" OBVIOUS
      <3>1. CASE app' = AppIdle BY <3>1 DEF AppIdle
      <3>2. ASSUME NEW s \in Slots, app' = [app EXCEPT !.pc = "publish", !.slot = s]
            PROVE  app'.pc # "selected"
        BY <3>2 DEF ControlLayer, Shapes, Apps
      <3> QED BY <3>1, <3>2, ClaimKinds
    <2>5. NotifyAccepted => app'.pc # "selected"
      <3>1. \A s \in Slots : Accepts(s) => app'.pc # "selected" BY DEF Accepts, Noted, AppIdle
      <3> QED BY <3>1, AcceptKinds
    <2> QED BY <1>1, <1>5, <2>1, <2>2, <2>3, <2>4, <2>5
  <1>6. CASE SelectReady \/ PublishFrame
    <2>1. CASE app'.pc # "selected" BY <1>1, <2>1
    <2>2. CASE app'.pc = "selected"
      <3>1. selected' = Head(ready') /\ ready' # << >>
        <4>1. CASE SelectReady BY <4>1 DEF SelectReady
        <4>2. CASE PublishFrame
          <5>1. Publishes(app.slot) /\ selected' = Head(ready')
            BY <2>2, <4>2 DEF PublishFrame, AppIdle
          <5>2. ready' = Append(ready, app.slot) /\ app.slot \in Slots /\ ready \in Seq(Slots)
            BY <4>2, <5>1 DEF PublishFrame, Publish, ControlLayer, ControlInv, Shapes
          <5>3. ready' # << >> BY <5>2, AppendProperties, LenProperties, EmptySeq
          <5> QED BY <5>1, <5>3
        <4> QED BY <1>6, <4>1, <4>2
      <3>2. ready' \in Seq(Slots) BY DEF ControlLayer, Shapes
      <3>3. 1 \in DOMAIN ready' /\ selected' = ready'[1] /\ selected' \in Slots
        BY <3>1, <3>2, HeadIsFirst
      <3>4. ring'[selected'].state = "READY" BY <3>3 DEF SlotLayer, QueuesInv
      <3>5. abortReq' => ring'[selected'].frame.kind # "record"
        BY <2>2, <3>3, <3>4 DEF FrameLayer, FramesInv
      <3> QED BY <3>5 DEF StragglerInv
    <2> QED BY <2>1, <2>2
  <1>7. CASE Quiet \/ FailsNow \/ StageGate \/ StagePublish \/ StageReadBusy \/ CaptureDone
    <2>1. \A s \in Slots : Aged(s) BY <1>7, SlotsAge
    <2>2. UNCHANGED << app, selected, wire, backlog >>
      BY <1>7 DEF Quiet, FailsNow, StageGate, StagePublish, StageReadBusy, CaptureDone, counts
    <2>3. abortReq' => abortReq \/ active
      BY <1>7 DEF Quiet, FailsNow, StageGate, StagePublish, StageReadBusy, CaptureDone, phases
    <2>4. CASE app.pc # "selected" BY <1>1, <2>2, <2>4
    <2>5. CASE app.pc = "selected"
      <3>1. abortReq' => abortReq \/ Going BY <2>3, <2>5 DEF Going
      <3> QED BY <1>2, <2>1, <2>2, <3>1
    <2> QED BY <2>4, <2>5
  <1>8. CASE Commit
    <2>1. \A s \in Slots : Aged(s) BY <1>8, SlotsAge
    <2>2. UNCHANGED << app, selected, wire, abortReq >> /\ backlog' = Append(backlog, committed + 1)
      BY <1>8 DEF Commit, Log!CommitRecord
    <2>3. backlog \in Seq(1 .. Records) /\ committed + 1 \in 1 .. Records
      BY <1>8, StreamAssumption DEF Commit, ControlLayer, Shapes
    <2>4. backlog # << >> => backlog' # << >> /\ Head(backlog') = Head(backlog)
      <3>1. /\ Append(backlog, committed + 1) \in Seq(1 .. Records)
            /\ Append(backlog, committed + 1) # << >>
            /\ backlog # << >> => Append(backlog, committed + 1)[1] = backlog[1]
        BY <2>3, AppendProperties, LenProperties, HeadIsFirst
      <3> QED BY <2>2, <2>3, <3>1, HeadIsFirst
    <2> QED BY <1>2, <2>1, <2>2, <2>4
  <1>9. CASE StageTake
    <2>1. UNCHANGED << app, selected, wire, abortReq, backlog >> BY <1>9 DEF StageTake
    <2>2. ASSUME app.pc = "selected" PROVE ring'[selected].frame = ring[selected].frame
      <3>1. PICK s \in Slots : s = selected /\ Out(s)
        BY <2>2 DEF ControlLayer, ControlInv, Shapes, NoSlot, SlotLayer, HoldersInv, Out
      <3>2. ASSUME NEW t \in Slots, Fragment(tx', t) PROVE ring'[s] = ring[s]
        BY <3>1, <3>2 DEF Fragment, Takes, ControlLayer, Shapes
      <3> QED BY <1>9, <3>1, <3>2, TakeKinds
    <2>3. Device!NextFragment' = Device!NextFragment
      BY <2>1 DEF Device!NextFragment, Device!Frame, Device!Last
    <2> QED BY <1>0, <2>1, <2>2, <2>3 DEF StragglerInv
  <1> QED BY <1>0, <1>4, <1>5, <1>6, <1>7, <1>8, <1>9, StepKinds

\* While an ACK is handled nothing goes out; when it was taken, END had not.
LEMMA AckedStep ==
  ASSUME ControlLayer, SlotLayer, ControlLayer', SlotLayer', FrameLayer, FrameLayer', WireLayer,
         [StreamNext]_vars
  PROVE  AckedInv'
  <1>0. AckedInv /\ AckingInv' /\ RestInv BY DEF WireLayer, FrameLayer
  <1>1. ASSUME app'.pc # "acking" PROVE AckedInv' BY <1>1 DEF AckedInv
  <1>2. ASSUME app' = app, wire' = wire PROVE AckedInv' BY <1>0, <1>2 DEF AckedInv, LastIs
  <1>3. CASE Quiet \/ FailsNow \/ Completes \/ EndHeard \/ Withdraws \/ Ends
    BY <1>2, <1>3 DEF Quiet, FailsNow, Completes, EndHeard, Withdraws, Ends
  <1>4. CASE StageGate \/ StageTake \/ StagePublish \/ StageReadBusy \/ Commit \/ CaptureDone
             \/ CleanupReady
    BY <1>2, <1>4 DEF StageGate, StageTake, StagePublish, StageReadBusy, Commit, CaptureDone,
                      CleanupReady
  <1>5. CASE GivesUp \/ Stops \/ Acks \/ Begin
    <2>1. app'.pc # "acking" BY <1>5 DEF GivesUp, Stops, Acks, Begin, AppMayRun
    <2> QED BY <1>1, <2>1
  <1>6. CASE FailFlags \/ FailCancels \/ SelectReady \/ DecideFrame
    <2>1. FailFlags => app'.pc # "acking" BY DEF FailFlags, ControlLayer, Shapes, Apps
    <2>2. FailCancels => app'.pc # "acking" BY DEF FailCancels, AppIdle
    <2>3. SelectReady => app'.pc # "acking" BY DEF SelectReady, AppIdle
    <2>4. DecideFrame => app'.pc # "acking" BY DEF DecideFrame, AppIdle
    <2> QED BY <1>1, <1>6, <2>1, <2>2, <2>3, <2>4
  <1>7. CASE ClaimFrame \/ PublishFrame \/ NotifyRefused \/ NotifyAccepted
    <2>1. PublishFrame \/ NotifyRefused => app'.pc # "acking" BY DEF PublishFrame, NotifyRefused, AppIdle
    <2>2. ClaimFrame => app'.pc # "acking"
      <3> SUFFICES ASSUME ClaimFrame PROVE app'.pc # "acking" OBVIOUS
      <3>1. CASE app' = AppIdle BY <3>1 DEF AppIdle
      <3>2. ASSUME NEW s \in Slots, app' = [app EXCEPT !.pc = "publish", !.slot = s]
            PROVE  app'.pc # "acking"
        BY <3>2 DEF ControlLayer, Shapes, Apps
      <3> QED BY <3>1, <3>2, ClaimKinds
    <2>3. NotifyAccepted => app'.pc # "acking"
      <3>1. \A s \in Slots : Accepts(s) => app'.pc # "acking" BY DEF Accepts, Noted, AppIdle
      <3> QED BY <3>1, AcceptKinds
    <2> QED BY <1>1, <1>7, <2>1, <2>2, <2>3
  <1>8. CASE Moves
    <2>1. CASE app'.pc # "acking" BY <1>1, <2>1
    <2>2. CASE app'.pc = "acking"
      <3>1. /\ active /\ ~abortReq /\ app.pc = "idle"
            /\ UNCHANGED << wire, active, abortReq, startSent, inFlight >>
        BY <1>8, <2>2 DEF Moves, phases, counts
      <3>2. inFlight # << >> /\ startSent BY <1>0, <2>2, <3>1 DEF AckingInv
      <3>3. ~LastIs("end") BY <3>1, <3>2 DEF FrameLayer, EndInv, Closed, Drained
      <3>4. wire # << >> BY <3>1, <3>2 DEF WireLayer, StartInv
      <3>5. Last(wire).kind \in {"start", "record"}
        BY <3>1, <3>2, <3>3 DEF WireLayer, WireInv, Going
      <3> QED BY <3>1, <3>4, <3>5 DEF AckedInv, LastIs
    <2> QED BY <2>1, <2>2
  <1> QED BY <1>0, <1>3, <1>4, <1>5, <1>6, <1>7, <1>8, StepKinds

LEMMA WireInit == StreamInit => WireLayer
  <1> SUFFICES ASSUME StreamInit PROVE WireLayer OBVIOUS
  <1>1. ~active /\ ~abortReq /\ app = AppIdle /\ \A s \in Slots : ring[s].state = "FREE"
    BY DEF StreamInit, FreeSlot
  <1>2. app.pc = "idle" /\ \A s \in Slots : ~StartOut(s) BY <1>1 DEF AppIdle, StartOut, Out
  <1> QED BY <1>1, <1>2 DEF WireLayer, StartInv, WireInv, StragglerInv, AckedInv, Making, Going

StreamInv == ControlLayer /\ SlotLayer /\ FrameLayer /\ WireLayer

\* The invariant of the stream: its four layers together.
THEOREM StreamInvariant == StreamSpec => []StreamInv
  <1>1. StreamInit => WireLayer BY WireInit
  <1>2. ASSUME ControlLayer, SlotLayer, FrameLayer, ControlLayer', SlotLayer', FrameLayer', WireLayer,
               [StreamNext]_vars
        PROVE  WireLayer'
    <2>1. StartInv' BY <1>2, StartStep
    <2>2. WireInv' BY <1>2, WireStep
    <2>3. StragglerInv' BY <1>2, StragglerStep
    <2>4. AckedInv' BY <1>2, AckedStep
    <2> QED BY <2>1, <2>2, <2>3, <2>4 DEF WireLayer
  <1>3. StreamInv <=> (ControlLayer /\ SlotLayer /\ FrameLayer) /\ WireLayer BY DEF StreamInv
  <1> QED BY <1>1, <1>2, <1>3, FramesHold, PTL DEF StreamSpec

\* A stop that is reported as the host's, and in time, was ended by the ACK of
\* an END that went out after every record it produced was committed and acked:
\* no order of the ACK, the completion and a failure makes it say so wrongly,
\* but one, a failure of the capture task while the stop is being named.
THEOREM StreamReportsStopsTruly == StreamSpec => StopReportIsTrue
  <1>1. ASSUME StreamInv, StreamInv', [StreamNext]_vars, active, ~active',
               stopReport'.reason = "host_stop", ~overtaken
        PROVE  /\ ~stopReport'.timeout /\ ~abortReq /\ ~dropped
               /\ backlog = << >> /\ inFlight = << >>
               /\ wire # << >> /\ Last(wire).kind = "end"
    <2>1. RestInv BY <1>1 DEF StreamInv, FrameLayer
    <2>2. Ends
      <3>1. ~Quiet /\ ~Moves /\ ~GivesUp /\ ~FailsNow /\ ~Stops /\ ~Completes /\ ~Acks /\ ~EndHeard /\ ~Withdraws
        BY <1>1 DEF Quiet, Moves, GivesUp, FailsNow, Stops, Completes, Acks, EndHeard, Withdraws, phases
      <3>2. ~StageGate /\ ~StageTake /\ ~StagePublish /\ ~StageReadBusy /\ ~Commit /\ ~CaptureDone
        BY <1>1 DEF StageGate, StageTake, StagePublish, StageReadBusy, Commit, CaptureDone
      <3>3. ~Begin /\ ~FailFlags /\ ~FailCancels /\ ~CleanupReady /\ ~SelectReady /\ ~DecideFrame
        BY <1>1 DEF Begin, FailFlags, FailCancels, CleanupReady, SelectReady, DecideFrame
      <3>4. ~ClaimFrame /\ ~PublishFrame /\ ~NotifyAccepted /\ ~NotifyRefused
        BY <1>1 DEF ClaimFrame, PublishFrame, NotifyAccepted, NotifyRefused
      <3> QED BY <1>1, <2>1, <3>1, <3>2, <3>3, <3>4, StepKinds DEF StreamInv
    <2>3. stopReason = "host_stop" /\ (stopReport'.timeout => abortReq) BY <1>1, <2>2 DEF Ends
    <2>4. ~abortReq BY <1>1, <2>3 DEF StreamInv, ControlLayer, ControlInv
    <2>5. LastIs("end") BY <1>1, <2>2, <2>4 DEF Ends, StreamInv, FrameLayer, EndInv
    <2>6. Closed BY <1>1, <2>4, <2>5 DEF StreamInv, FrameLayer, EndInv
    <2> QED BY <2>3, <2>4, <2>5, <2>6 DEF Closed, Drained, LastIs
  <1>2. StreamInv /\ StreamInv' /\ [StreamNext]_vars =>
          [active /\ ~active' /\ stopReport'.reason = "host_stop" /\ ~overtaken =>
             /\ ~stopReport'.timeout /\ ~abortReq /\ ~dropped
             /\ backlog = << >> /\ inFlight = << >>
             /\ wire # << >> /\ Last(wire).kind = "end"]_vars
    BY <1>1
  <1> QED BY <1>2, StreamInvariant, PTL DEF StreamSpec, StopReportIsTrue

-----------------------------------------------------------------------------
(* The stream implements OnlineDevice.                                       *)

Aborts == active /\ abortReq
Closes == active /\ ~abortReq /\ LastIs("end")
Opens  == active /\ ~abortReq /\ ~LastIs("end")

LEMMA PhaseIs ==
  ASSUME ControlLayer, ControlLayer'
  PROVE  /\ ~active => Phase = "idle"
         /\ Aborts => Phase = "aborting"
         /\ Closes => Phase = "ended"
         /\ Opens => Phase = "open"
         /\ ~active' => Phase' = "idle"
         /\ Aborts' => Phase' = "aborting"
         /\ Closes' => Phase' = "ended"
         /\ Opens' => Phase' = "open"
  BY DEF Phase, Aborts, Closes, Opens, LastIs, ControlLayer, Shapes

\* What the acceptance of a frame is to the other end of the link.
LEMMA DeviceHears ==
  ASSUME StreamInv, StreamInv', NotifyAccepted
  PROVE  [Device!DeviceNext]_(Device!device)
  <1>1. PICK s \in Slots : Accepts(s) BY AcceptKinds DEF StreamInv
  <1>2. /\ active /\ active' /\ UNCHANGED << session, active, abortReq >> /\ s = selected
        /\ app.pc = "selected" /\ Out(s) /\ ~ring[s].pending
        /\ ring[s].state \in {"READY", "QUARANTINED"}
        /\ wire' = WireWith(ring[s].frame)
    BY <1>1 DEF NotifyAccepted, Accepts, StreamInv, ControlLayer, ControlInv, AtRest, Out
  <1>3. ring[s].frame \in Frames /\ Shapes /\ wire \in Seq(Frames) /\ ControlLayer /\ ControlLayer'
    BY DEF StreamInv, ControlLayer, Shapes, SlotRecords
  <1>4. /\ ring[s].frame.kind # "stress" => wire' # << >> /\ Last(wire') = ring[s].frame
        /\ ring[s].frame.kind = "stress" => wire' = wire
    BY <1>2, <1>3, WireEnds
  <1>5. ring[s].frame.kind # "record" => ring[s].frame = Frame(ring[s].frame.kind, 0, 0)
    BY <1>2 DEF StreamInv, FrameLayer, FramesInv
  <1>6. ring[s].frame.kind \in {"start", "record", "stress", "end", "abort"}
    BY <1>2, <1>3 DEF StreamInv, FrameLayer, FramesInv, Frames, Kinds
  <1>7. ~abortReq => Going BY <1>2 DEF Going
  <1>8. Going => StillValid(ring[s]) /\ Noted(ring[s].frame)
    BY <1>1, <1>2 DEF Accepts, StreamInv, SlotLayer, GensInv, StillValid
  <1>9. ASSUME ring[s].frame.kind \notin {"record", "end"} PROVE UNCHANGED << committed, backlog, inFlight >>
    BY <1>1, <1>9 DEF Accepts, Noted, LastOfRecord, QueueError, counts
  <1>10. /\ Aborts => Aborts'
         /\ (Opens \/ Closes) /\ ring[s].frame.kind \notin {"end", "stress"} => Opens'
         /\ (Opens \/ Closes) /\ ring[s].frame.kind = "end" => Closes'
    BY <1>2, <1>4 DEF Aborts, Opens, Closes, LastIs
  <1>11. CASE ring[s].frame.kind = "stress"
    <2>1. UNCHANGED << session, active, abortReq, wire, committed, backlog, inFlight >>
      BY <1>2, <1>4, <1>9, <1>11
    <2> QED BY <2>1 DEF Device!device, Phase
  <1>12. CASE ring[s].frame.kind = "start"
    <2>1. wire = << >> BY <1>2, <1>12 DEF StreamInv, WireLayer, StartInv, StartOut
    <2>2. wire' = << Frame("start", 0, 0) >>
      <3>1. wire' = Append(wire, Frame("start", 0, 0)) BY <1>2, <1>5, <1>12, <2>1 DEF WireWith
      <3> QED BY <2>1, <3>1
    <2>3. Aborts \/ Opens BY <1>2, <2>1 DEF Aborts, Opens, LastIs
    <2>4. Phase \in {"open", "aborting"} /\ Phase' = Phase BY <1>3, <1>10, <1>12, <2>3, PhaseIs
    <2>5. Device!SendStart
      BY <1>2, <1>9, <1>12, <2>1, <2>2, <2>4 DEF Device!SendStart, Device!StartFrame, Device!Frame, Frame
    <2> QED BY <2>5 DEF Device!DeviceNext
  <1>13. CASE ring[s].frame.kind = "record" /\ Going
    <2>1. /\ ~LastIs("end") /\ wire # << >> /\ backlog # << >> /\ Head(backlog) = ring[s].frame.n
          /\ Len(inFlight) < Window /\ Len(ackWait) < Window
          /\ ring[s].frame = Device!NextFragment
          /\ FitsTx(ring[s].frame)
      <3>1. /\ ~LastIs("end") /\ wire # << >> /\ backlog # << >> /\ Head(backlog) = tx.n
            /\ Len(inFlight) < Window /\ Len(ackWait) < Window
            /\ ring[s].frame = Device!NextFragment
            /\ ring[s].frame.n = tx.n /\ ring[s].frame.f = tx.sent + 1
        BY <1>2, <1>13, SelectedFragment DEF StreamInv
      <3>2. tx.sent \in Nat BY <1>3, StreamAssumption DEF Shapes
      <3> QED BY <3>1, <3>2 DEF FitsTx
    <2>2. ~QueueError(ring[s].frame) BY <2>1 DEF QueueError, BookedAsSent
    <2>3. wire' = Append(wire, Device!NextFragment) BY <1>2, <1>3, <2>1, FragmentGoesOut
    <2>4. Device!NextFragment.f <= Fragments BY <1>3, <2>1, StreamAssumption DEF Frames
    <2>5. /\ ring[s].frame.f = Fragments => Log!SendOldest
          /\ ring[s].frame.f # Fragments => UNCHANGED << backlog, inFlight >>
          /\ committed' = committed
      BY <1>8, <1>13, <2>2 DEF Noted, LastOfRecord
    <2>6. Opens BY <1>13, <2>1 DEF Opens, Going
    <2>7. Phase = "open" /\ Phase' = Phase BY <1>3, <1>10, <1>13, <2>6, PhaseIs
    <2>8. IF Device!NextFragment.f = Fragments THEN Device!Log!SendOldest
                                              ELSE UNCHANGED << backlog, inFlight >>
      BY <2>1, <2>5 DEF Log!SendOldest, Device!Log!SendOldest
    <2>9. Device!SendFragment BY <1>2, <2>1, <2>3, <2>4, <2>5, <2>7, <2>8 DEF Device!SendFragment
    <2> QED BY <2>9 DEF Device!DeviceNext
  <1>14. CASE ring[s].frame.kind = "record" /\ ~Going
    <2>1. abortReq BY <1>7, <1>14
    <2>2. /\ backlog # << >> /\ Last(wire).kind \in {"start", "record"} /\ wire # << >>
          /\ ring[s].frame = Device!NextFragment
      BY <1>2, <1>14, <2>1 DEF StreamInv, WireLayer, StragglerInv
    <2>3. ~StillValid(ring[s])
      BY <1>2, <1>14, <2>1 DEF StreamInv, FrameLayer, FramesInv, StillValid
    <2>4. UNCHANGED << committed, backlog, inFlight >> BY <1>1, <2>3 DEF Accepts, counts
    <2>5. wire' = Append(wire, Device!NextFragment) BY <1>2, <1>3, <2>2, FragmentGoesOut
    <2>6. Device!NextFragment.f <= Fragments BY <1>3, <2>2, StreamAssumption DEF Frames
    <2>7. Phase = "aborting" /\ Phase' = Phase BY <1>2, <1>3, <1>10, <2>1, PhaseIs DEF Aborts
    <2>8. Device!Straggler
      BY <1>2, <2>2, <2>4, <2>5, <2>6, <2>7 DEF Device!Straggler, Device!Last, Last
    <2> QED BY <2>8 DEF Device!DeviceNext
  <1>15. CASE ring[s].frame.kind = "end"
    <2>1. ~abortReq /\ Closed
      <3>1. TerminalOut BY <1>2, <1>15 DEF TerminalOut, Terminal
      <3> QED BY <1>2, <1>15, <3>1 DEF StreamInv, FrameLayer, TerminalInv
    <2>2. wire # << >> BY <1>2, <2>1 DEF StreamInv, WireLayer, StartInv, Closed
    <2>3. UNCHANGED << committed, backlog, inFlight >>
      BY <1>7, <1>8, <1>15, <2>1 DEF Noted, LastOfRecord, QueueError, counts
    <2>4. Opens \/ Closes BY <1>2, <2>1 DEF Opens, Closes
    <2>5. Phase \in {"open", "ended"} /\ Phase' = "ended" BY <1>3, <1>10, <1>15, <2>4, PhaseIs
    <2>6. wire' = Device!Put(wire, Device!EndFrame)
      BY <1>2, <1>5, <1>15
         DEF WireWith, Device!Put, Device!EndFrame, Device!Frame, Device!Last, Last, Frame
    <2>7. Device!SendEnd BY <1>2, <2>1, <2>2, <2>3, <2>5, <2>6 DEF Device!SendEnd, Closed, Drained
    <2> QED BY <2>7 DEF Device!DeviceNext
  <1>16. CASE ring[s].frame.kind = "abort"
    <2>1. abortReq BY <1>2, <1>16 DEF StreamInv, FrameLayer, TerminalInv
    <2>2. Phase = "aborting" /\ Phase' = Phase BY <1>2, <1>3, <1>10, <2>1, PhaseIs DEF Aborts
    <2>3. wire' = Device!Put(wire, Device!AbortFrame)
      BY <1>2, <1>5, <1>16
         DEF WireWith, Device!Put, Device!AbortFrame, Device!Frame, Device!Last, Last, Frame
    <2>4. Device!SendAbort BY <1>2, <1>9, <1>16, <2>2, <2>3 DEF Device!SendAbort
    <2> QED BY <2>4 DEF Device!DeviceNext
  <1> QED BY <1>6, <1>11, <1>12, <1>13, <1>14, <1>15, <1>16

\* Every step of the stream is one of the device's, or none of its business.
LEMMA DeviceStep ==
  ASSUME StreamInv, StreamInv', [StreamNext]_vars
  PROVE  [Device!DeviceNext]_(Device!device)
  <1>0. /\ ControlLayer /\ SlotLayer /\ FrameLayer /\ ControlLayer' /\ SlotLayer' /\ RestInv /\ Shapes
        /\ active \in BOOLEAN /\ abortReq \in BOOLEAN
    BY DEF StreamInv, FrameLayer, ControlLayer, Shapes
  <1>1. ASSUME UNCHANGED << session, active, abortReq, wire, committed, backlog, inFlight >>
        PROVE  [Device!DeviceNext]_(Device!device)
    BY <1>1 DEF Device!device, Phase
  <1>2. CASE Quiet \/ Moves \/ GivesUp \/ Stops \/ Completes \/ EndHeard \/ Withdraws
    <2>1. UNCHANGED << session, active, abortReq, wire, committed, backlog, inFlight >>
      BY <1>2 DEF Quiet, Moves, GivesUp, Stops, Completes, EndHeard, Withdraws, phases, counts
    <2> QED BY <1>1, <2>1
  <1>3. CASE StageGate \/ StageTake \/ StagePublish \/ StageReadBusy \/ CaptureDone
    <2>1. UNCHANGED << session, active, abortReq, wire, committed, backlog, inFlight >>
      BY <1>3 DEF StageGate, StageTake, StagePublish, StageReadBusy, CaptureDone
    <2> QED BY <1>1, <2>1
  <1>4. CASE FailCancels \/ CleanupReady \/ SelectReady \/ DecideFrame
             \/ ClaimFrame \/ PublishFrame \/ NotifyRefused
    <2>1. UNCHANGED << session, active, abortReq, wire, committed, backlog, inFlight >>
      BY <1>4 DEF FailCancels, CleanupReady, SelectReady, DecideFrame, ClaimFrame, PublishFrame,
                  NotifyRefused
    <2> QED BY <1>1, <2>1
  <1>5. CASE FailsNow \/ FailFlags
    <2>1. /\ UNCHANGED << session, active, wire, committed, backlog, inFlight >>
          /\ active /\ abortReq'
      <3>1. FailsNow => UNCHANGED << session, active, wire, committed, backlog, inFlight >> /\ active /\ abortReq'
        BY DEF FailsNow
      <3>2. FailFlags => UNCHANGED << session, active, wire, committed, backlog, inFlight >> /\ active /\ abortReq'
        BY <1>0 DEF FailFlags, AbortFlags, ControlLayer, ControlInv, AtRest
      <3> QED BY <1>5, <3>1, <3>2
    <2>2. CASE abortReq
      <3>1. abortReq' = abortReq BY <1>0, <2>1, <2>2 DEF ControlLayer, Shapes
      <3> QED BY <1>1, <2>1, <3>1
    <2>3. CASE ~abortReq
      <3>1. (Opens \/ Closes) /\ Aborts' BY <2>1, <2>3 DEF Opens, Closes, Aborts
      <3>2. Phase \in {"open", "ended"} /\ Phase' = "aborting" BY <1>0, <3>1, PhaseIs
      <3>3. Device!Fail BY <2>1, <3>2 DEF Device!Fail
      <3> QED BY <3>3 DEF Device!DeviceNext
    <2> QED BY <2>2, <2>3
  <1>6. CASE Ends
    <2>1. /\ active /\ ~active' /\ backlog' = << >> /\ inFlight' = << >>
          /\ UNCHANGED << session, committed, wire >>
          /\ abortReq \/ endWait \/ endAcked
      BY <1>6 DEF Ends
    <2>2. Aborts \/ Closes BY <1>0, <2>1 DEF Aborts, Closes, FrameLayer, EndInv
    <2>3. Phase \in {"ended", "aborting"} /\ Phase' = "idle" BY <1>0, <2>1, <2>2, PhaseIs
    <2>4. Device!Close BY <2>1, <2>3 DEF Device!Close, Device!Log!DropAll
    <2> QED BY <2>4 DEF Device!DeviceNext
  <1>7. CASE Acks
    <2>1. /\ active /\ inFlight # << >> /\ inFlight' = Tail(inFlight)
          /\ UNCHANGED << session, active, abortReq, committed, backlog, wire >>
      BY <1>7 DEF Acks, phases
    <2>2. wire # << >> /\ Last(wire).kind \in {"start", "record"}
      BY <1>7 DEF Acks, StreamInv, WireLayer, AckedInv, LastIs
    <2>3. (Opens /\ Opens') \/ (Aborts /\ Aborts') BY <2>1, <2>2 DEF Opens, Aborts, LastIs
    <2>4. Phase \in {"open", "aborting"} /\ Phase' = Phase BY <1>0, <2>3, PhaseIs
    <2>5. Device!AckRecord
      BY <2>1, <2>2, <2>4 DEF Device!AckRecord, Device!Log!AckOldest, Device!Last, Last
    <2> QED BY <2>5 DEF Device!DeviceNext
  <1>8. CASE Commit
    <2>1. /\ capturing /\ committed < Records /\ committed' = committed + 1
          /\ Log!CommitRecord(committed + 1)
          /\ UNCHANGED << session, active, abortReq, wire >>
      BY <1>8 DEF Commit
    <2>2. active BY <1>0, <2>1 DEF RestInv
    <2>3. Aborts \/ Opens BY <1>0, <2>1, <2>2, NothingAfterEnd DEF Aborts, Opens
    <2>4. (Aborts => Aborts') /\ (Opens => Opens') BY <2>1 DEF Aborts, Opens, LastIs
    <2>5. Phase \in {"open", "aborting"} /\ Phase' = Phase BY <1>0, <2>3, <2>4, PhaseIs
    <2>6. Device!Log!CommitRecord(committed + 1)
      BY <2>1 DEF Log!CommitRecord, Device!Log!CommitRecord
    <2>7. Device!Commit BY <2>1, <2>5, <2>6 DEF Device!Commit
    <2> QED BY <2>7 DEF Device!DeviceNext
  <1>9. CASE Begin
    <2>1. /\ ~active /\ active' /\ ~abortReq' /\ session < SessionLimit /\ session' = session + 1
          /\ committed' = 0 /\ wire' = << >> /\ backlog' = << >> /\ inFlight' = << >>
      BY <1>9 DEF Begin, Log!DropAll
    <2>2. backlog = << >> /\ inFlight = << >> BY <1>0, <2>1 DEF RestInv
    <2>3. Opens' BY <2>1 DEF Opens, LastIs
    <2>4. Phase = "idle" /\ Phase' = "open" BY <1>0, <2>1, <2>3, PhaseIs
    <2>5. Device!Open BY <2>1, <2>2, <2>4 DEF Device!Open
    <2> QED BY <2>5 DEF Device!DeviceNext
  <1>10. CASE NotifyAccepted BY <1>10, DeviceHears
  <1> QED BY <1>0, <1>2, <1>3, <1>4, <1>5, <1>6, <1>7, <1>8, <1>9, <1>10, StepKinds

\* The stream keeps the promise of OnlineDevice: whatever the interleaving of the
\* capture task, the App task and the BLE stack, the other end of the link sees
\* START once, every fragment once and in its order, END only after every record
\* was acked, and after a failure at most one fragment, and ABORT.
THEOREM StreamImplementsDevice == StreamSpec => ImplementsDevice
  <1>1. StreamInit => Device!DeviceInit
    <2> SUFFICES ASSUME StreamInit PROVE Device!DeviceInit OBVIOUS
    <2>1. /\ session = 0 /\ ~active /\ committed = 0 /\ wire = << >> /\ backlog = << >> /\ inFlight = << >>
      BY DEF StreamInit, Log!LogInit
    <2>2. Phase = "idle" BY <2>1 DEF Phase
    <2> QED BY <2>1, <2>2 DEF Device!DeviceInit, Device!Log!LogInit
  <1>2. StreamInv /\ StreamInv' /\ [StreamNext]_vars => [Device!DeviceNext]_(Device!device)
    BY DeviceStep
  <1> QED BY <1>1, <1>2, StreamInvariant, PTL DEF StreamSpec, ImplementsDevice, Device!DeviceSpec
=============================================================================
