------------------------- MODULE OnlineHost_proofs -------------------------
(***************************************************************************)
(* Proofs about OnlineHost: that whatever the link, the device, the storage *)
(* and the program itself do, a record that the device may erase is saved,  *)
(* an END that is committed is complete and is not taken back by a          *)
(* disconnect, and the WAIT_START that follows the ACK of END is not held   *)
(* for a loss.                                                              *)
(*                                                                         *)
(* HostInv is the inductive invariant.  Its parts say where everything that *)
(* is under way comes from: the frames on the air, the frame the parse      *)
(* worker holds, the operations in the queue of the storage, the ACKs.      *)
(***************************************************************************)
EXTENDS OnlineHost, SequenceTheorems, FiniteSetTheorems, TLAPS

Statuses == {"none", "active", "ending", "ended", "aborted"}
Aborts   == {"host_online_fault", "wait_start", "device_state", "host_disconnect",
             "online_abort"}
Sources  == {"none", "online_end", "online_end_ack", "host_restart"} \cup Aborts
Kinds    == {"start", "record", "end", "abort"}
Verbs    == {"start", "save", "stage", "note", "commit", "abort", "flush"}

Metas == [status: Statuses, count: Nat, end: 0 .. Records, source: Sources, dirty: BOOLEAN]
WireFrames == [kind: Kinds, n: 0 .. Records, f: Nat]
AirFrames  == [kind: Kinds, n: 0 .. Records, session: Stores]
AckFrames  == [session: Stores, n: 0 .. Records]
Operations == [op: Verbs, st: Stores, arg: (0 .. Records) \cup Aborts,
               waiter: {"parse", "retry", "nobody"}]
Waiting == {"starting", "saving", "staging", "noting", "committing"}
Parses == [pc: {"idle", "dead", "acking", "acked", "draining"} \cup Waiting,
           frame: AirFrames \cup {NoAir}, current: BOOLEAN, result: {"none", "ok", "error"}]

DeviceShapes ==
  /\ session \in 0 .. SessionLimit /\ committed \in 0 .. Records
  /\ phase \in {"idle", "open", "ended", "aborting"}
  /\ phase = "idle" \/ session \in Stores
  /\ backlog \in Seq(1 .. Records) /\ inFlight \in Seq(1 .. Records)
  /\ wire \in Seq(WireFrames)

LoopShapes ==
  /\ air \in Seq(AirFrames) /\ acks \in Seq(AckFrames)
  /\ hostSession \in 0 .. session /\ store = hostSession
  /\ fault \in {"none", "drain", "stop"} /\ aborting \subseteq Stores
  /\ parse \in Parses
  /\ queue \in Seq(Operations)

StorageShapes ==
  /\ replaced \in BOOLEAN /\ mem \in [Stores -> Metas]
  /\ disk \in [Stores -> [meta: Metas, files: SUBSET (1 .. Records)]]
  /\ \A st \in Stores : ~disk[st].meta.dirty
  /\ history \in [closed: SUBSET (1 .. session), broken: SUBSET (0 .. SessionLimit),
                  failed: SUBSET Stores]

\* An operation has the argument of its kind, of a session that was opened.
ArgumentsInv ==
  \A i \in DOMAIN queue :
    /\ queue[i].st <= session
    /\ queue[i].op = "abort" => queue[i].arg \in Aborts
    /\ queue[i].op # "abort" => queue[i].arg \in 0 .. Records
    /\ queue[i].op = "save" => queue[i].arg >= 1

\* One abort of a store at a time.
AbortInv ==
  /\ \A i \in DOMAIN queue : queue[i].op = "abort" => queue[i].st \in aborting
  /\ \A i, j \in DOMAIN queue :
       queue[i].op = "abort" /\ queue[j].op = "abort" /\ queue[i].st = queue[j].st => i = j

\* No record of the session is known that the device did not commit.
NumbersInv ==
  /\ \A i \in DOMAIN air : air[i].session <= session
  /\ \A i \in DOMAIN air : air[i].kind = "record" =>
       air[i].n >= 1 /\ (air[i].session = session => air[i].n <= committed)
  /\ parse.frame.session <= session
  /\ parse.frame.kind = "record" =>
       parse.frame.n >= 1 /\ (parse.frame.session = session => parse.frame.n <= committed)
  /\ \A i \in DOMAIN queue :
       queue[i].op = "save" /\ queue[i].st = session => queue[i].arg <= committed
  /\ \A i \in DOMAIN backlog : backlog[i] <= committed
  /\ phase = "idle" => backlog = << >> /\ inFlight = << >>
  /\ session \in Stores => mem[session].count <= committed /\ disk[session].meta.count <= committed
  /\ session \in Stores => disk[session].files \subseteq 1 .. committed

\* Before the START of a session is taken nothing is known of the session.
Unopened(st) == disk[st] = NoDir /\ mem[st] = NoMeta

NoStart(st) == \A i \in DOMAIN air : ~(air[i].kind = "start" /\ air[i].session = st)
NoOp(st) == \A i \in DOMAIN queue : queue[i].st # st
Silent(st) == store # st /\ NoOp(st) /\ NoStart(st) /\ Unopened(st)

StartInv ==
  /\ \A st \in Stores : st > session \/ (st = session /\ wire = << >>) => Silent(st)
  /\ \A st \in Stores : ~NoStart(st) => Unopened(st) /\ store # st /\ NoOp(st)
  /\ \A i, j \in DOMAIN air :
       air[i].kind = "start" /\ air[j].kind = "start" /\ air[i].session = air[j].session => i = j
  /\ \A i \in DOMAIN queue : queue[i].op = "start" =>
       /\ disk[queue[i].st] = NoDir /\ mem[queue[i].st] = NoMeta
       /\ \A j \in DOMAIN queue : queue[j].st = queue[i].st => i <= j

\* The START of the session is behind the parse worker, or lost.
Over(st) == st <= session /\ (st = session => wire # << >>) /\ NoStart(st)

\* No operation comes any more for a session the program no longer knows.
Gone(st) ==
  /\ store # st /\ NoOp(st) /\ Over(st)
  /\ st = session => phase = "idle" \/ lost

\* A file may have no metadata: that of the record being saved, or of one
\* whose header could not be written.
Files(st) == {1 .. mem[st].count, 1 .. mem[st].count + 1}

StorageInv ==
  /\ replaced => /\ queue # << >> /\ First.op = "save" /\ First.arg = mem[First.st].count + 1
                 /\ First.arg \in disk[First.st].files
  /\ \A st \in Stores : Gone(st) \/
       /\ disk[st].meta.count <= mem[st].count
       /\ st \notin history.failed => mem[st] = disk[st].meta
       /\ disk[st].files \in Files(st)

SavedRecord(st, n) == n \in disk[st].files /\ n <= disk[st].meta.count

\* What the parse worker waits for is in the queue once, or has its result.
WaiterInv ==
  \A i \in DOMAIN queue : queue[i].waiter = "parse" =>
    /\ parse.result = "none" /\ parse.pc \in Waiting /\ queue[i].st = parse.frame.session
    /\ parse.pc = "saving" => queue[i].op = "save" /\ queue[i].arg = parse.frame.n
    /\ \A j \in DOMAIN queue : queue[j].waiter = "parse" => i = j

\* A record is acked when it is on disk.
ParseInv ==
  /\ parse.pc \in {"idle", "dead"} => parse.frame = NoAir
  /\ parse.pc \in Waiting \cup {"acking", "acked"} =>
       parse.frame # NoAir /\ parse.frame.session = store
  /\ parse.pc = "saving" => parse.frame.kind = "record"
  /\ parse.pc \in {"staging", "committing"} => parse.frame.kind = "end"
  /\ parse.pc = "saving" /\ parse.result = "ok" => SavedRecord(parse.frame.session, parse.frame.n)
  /\ parse.pc = "acking" => parse.frame.kind \in {"record", "end"}
  /\ parse.pc = "acking" /\ parse.frame.kind = "record" =>
       SavedRecord(parse.frame.session, parse.frame.n)
  /\ parse.result = "error" => parse.frame.session \in history.failed

AcksInv == \A i \in DOMAIN acks : acks[i].n # 0 => SavedRecord(acks[i].session, acks[i].n)

\* The session has e records, and nothing under way can add one.
Complete(st, e) ==
  /\ disk[st].meta.count = e /\ disk[st].files = 1 .. e
  /\ mem[st].count = e \/ Gone(st)
  /\ \A i \in DOMAIN air : air[i].kind = "record" /\ air[i].session = st => air[i].n <= e
  /\ parse.frame.kind = "record" /\ parse.frame.session = st => parse.frame.n <= e
  /\ \A i \in DOMAIN queue : queue[i].op = "save" /\ queue[i].st = st => queue[i].arg <= e
  /\ st <= session
  /\ st = session =>
       /\ phase # "open" /\ wire # << >> /\ Last(wire).kind \in {"end", "abort"}
       /\ phase = "ended" \/ st \in history.closed => committed = e

Finishing == {"ending", "ended"}

\* An END of the session with e records is on its way, handled, or stored.
EndKnown(st, e) ==
  \/ \E i \in DOMAIN air : air[i].kind = "end" /\ air[i].session = st /\ air[i].n = e
  \/ parse.frame.kind = "end" /\ parse.frame.session = st /\ parse.frame.n = e
  \/ \E i \in DOMAIN queue : queue[i].op = "stage" /\ queue[i].st = st /\ queue[i].arg = e
  \/ mem[st].status \in Finishing /\ mem[st].end = e
  \/ disk[st].meta.status \in Finishing /\ disk[st].meta.end = e

EndInv == \A st \in Stores, e \in 0 .. Records : EndKnown(st, e) => Complete(st, e)

Excused(st) == st \in history.broken \cup history.failed

FinalEnd(p) ==
  p.pc \in {"acked", "noting", "committing"} /\ p.frame.kind = "end" /\ p.current

\* The host does not wait for anything of the session, or finalises its END.
EndHandled(st) == Over(st) /\ (store = st /\ hostActive => FinalEnd(parse))

\* The ACK of END is on its way, or has arrived.
EndAcked(st) ==
  (\E i \in DOMAIN acks : acks[i].n = 0 /\ acks[i].session = st) \/ st \in history.closed

\* WAIT_START has been taken for the loss of the session, or will be.
TakenForLost(st) ==
  \/ \E i \in DOMAIN queue :
       queue[i].op = "abort" /\ queue[i].arg = "wait_start" /\ queue[i].st = st
  \/ mem[st].source = "wait_start" \/ disk[st].meta.source = "wait_start"

NotClosed(st) == (st \notin history.closed \/ Excused(st)) /\ (st = session => phase = "idle")

WaitStartInv ==
  /\ notice => phase = "idle"
  /\ session \in history.closed => phase = "idle"
  /\ \A st \in Stores : EndAcked(st) => Excused(st) \/ EndHandled(st)
  /\ \A st \in Stores : TakenForLost(st) => NotClosed(st)

HostInv ==
  /\ DeviceShapes /\ LoopShapes /\ StorageShapes
  /\ ArgumentsInv /\ AbortInv /\ NumbersInv /\ StartInv /\ StorageInv
  /\ WaiterInv /\ ParseInv /\ AcksInv /\ EndInv /\ WaitStartInv /\ RetiredIsSaved

-----------------------------------------------------------------------------
(* The queue of the storage thread.                                          *)

SameOp(a, b) == a.op = b.op /\ a.st = b.st /\ a.arg = b.arg /\ a.waiter \in {b.waiter, "nobody"}

\* An operation that the event loop may submit: its session is that of the
\* store, its numbers are those of a frame that came over the air.
NewOp(e) ==
  /\ e \in Operations /\ e.st <= session
  /\ e.op = "start" => /\ \E j \in DOMAIN air : air[j].kind = "start" /\ air[j].session = e.st
                       /\ e.arg = 0
  /\ e.op # "start" => e.st = store
  /\ e.op = "save" => /\ e.arg \in 1 .. Records
                      /\ \E j \in DOMAIN air : /\ air[j].kind = "record" /\ air[j].session = e.st
                                               /\ air[j].n = e.arg
  /\ e.op = "stage" => \E j \in DOMAIN air : /\ air[j].kind = "end" /\ air[j].session = e.st
                                             /\ air[j].n = e.arg
  /\ e.op = "abort" => /\ e.st \notin aborting /\ e.arg \in Aborts
                       /\ e.arg = "wait_start" => NotClosed(e.st)
  /\ e.op # "abort" => e.arg \in 0 .. Records

\* What a step of the event loop does with the queue.
QueueGrows ==
  /\ queue' \in Seq(Operations)
  /\ \A i \in DOMAIN queue : i \in DOMAIN queue' /\ SameOp(queue'[i], queue[i])
  /\ \A i \in DOMAIN queue' : i \notin DOMAIN queue => NewOp(queue'[i])
  /\ \A i, j \in DOMAIN queue' :
       i \notin DOMAIN queue /\ j \notin DOMAIN queue /\ queue'[i].op = "abort" /\ queue'[j].op = "abort"
         => i = j

\* The parse worker gets no new wait that it does not have a place for.
NewWait(e) ==
  e.waiter = "parse" =>
    /\ \A i \in DOMAIN queue : queue[i].waiter # "parse"
    /\ parse'.result = "none" /\ parse'.pc \in Waiting /\ e.st = parse'.frame.session
    /\ parse'.pc = "saving" => e.op = "save" /\ e.arg = parse'.frame.n

LEMMA WithoutKeeps ==
  ASSUME queue \in Seq(Operations), NEW W
  PROVE  /\ Without(W, queue) \in Seq(Operations)
         /\ Len(Without(W, queue)) = Len(queue)
         /\ \A i \in DOMAIN queue : SameOp(Without(W, queue)[i], queue[i])
         /\ \A i \in DOMAIN queue :
              Without(W, queue)[i].waiter = "parse" => queue[i].waiter = "parse" /\ "parse" \notin W
  <1> DEFINE q == Without(W, queue)
  <1>1. q = [i \in 1 .. Len(queue) |-> IF queue[i].waiter \in W
                                       THEN [queue[i] EXCEPT !.waiter = "nobody"] ELSE queue[i]]
    BY DEF Without
  <1>2. \A i \in 1 .. Len(queue) : queue[i] \in Operations
    OBVIOUS
  <1>3. \A i \in 1 .. Len(queue) :
          q[i] = (IF queue[i].waiter \in W THEN [queue[i] EXCEPT !.waiter = "nobody"] ELSE queue[i])
    BY <1>1
  <1>4. \A i \in 1 .. Len(queue) : q[i] \in Operations /\ SameOp(q[i], queue[i])
    BY <1>2, <1>3 DEF Operations, SameOp
  <1>5. \A i \in 1 .. Len(queue) : q[i].waiter = "parse" => queue[i].waiter = "parse" /\ "parse" \notin W
    BY <1>2, <1>3 DEF Operations
  <1>6. Len(queue) \in Nat OBVIOUS
  <1>7. q \in Seq(Operations) /\ Len(q) = Len(queue)
    <2> HIDE DEF q
    <2>1. q \in [1 .. Len(queue) -> Operations] BY <1>1, <1>4 DEF q
    <2> QED BY <1>6, <2>1, SMT
  <1> QED BY <1>4, <1>5, <1>7

LEMMA QueueStays ==
  ASSUME queue \in Seq(Operations), NEW W, queue' = queue \/ queue' = Without(W, queue)
  PROVE  /\ QueueGrows
         /\ \A i \in DOMAIN queue' : i \in DOMAIN queue
         /\ queue' = Without(W, queue) /\ "parse" \in W =>
              \A i \in DOMAIN queue' : queue'[i].waiter # "parse"
  <1>1. CASE queue' = queue
    <2>1. \A i \in DOMAIN queue : SameOp(queue'[i], queue[i]) BY <1>1 DEF SameOp
    <2> QED BY <1>1, <2>1, WithoutKeeps DEF QueueGrows
  <1>2. CASE queue' = Without(W, queue)
    <2>1. DOMAIN queue' = DOMAIN queue BY <1>2, WithoutKeeps
    <2> QED BY <1>2, <2>1, WithoutKeeps DEF QueueGrows
  <1> QED BY <1>1, <1>2

LEMMA QueueTakes ==
  ASSUME queue \in Seq(Operations), NEW W, NEW e, NewOp(e),
         queue' = Append(queue, e) \/ queue' = Append(Without(W, queue), e)
  PROVE  /\ QueueGrows
         /\ Len(queue') = Len(queue) + 1 /\ queue'[Len(queue) + 1] = e
         /\ \A i \in DOMAIN queue' : i \in DOMAIN queue \/ i = Len(queue) + 1
  <1>1. PICK q : q \in {queue, Without(W, queue)} /\ queue' = Append(q, e) OBVIOUS
  <1>2. /\ q \in Seq(Operations) /\ Len(q) = Len(queue)
        /\ \A i \in DOMAIN queue : SameOp(q[i], queue[i])
    <2>1. \A i \in DOMAIN queue : SameOp(queue[i], queue[i]) BY DEF SameOp
    <2> QED BY <1>1, <2>1, WithoutKeeps
  <1>3. e \in Operations BY DEF NewOp
  <1>4. /\ queue' \in Seq(Operations) /\ Len(queue') = Len(queue) + 1
        /\ queue'[Len(queue) + 1] = e /\ \A i \in 1 .. Len(queue) : queue'[i] = q[i]
    BY <1>1, <1>2, <1>3, AppendProperties
  <1>5. DOMAIN queue = 1 .. Len(queue) /\ DOMAIN queue' = 1 .. Len(queue) + 1 /\ Len(queue) \in Nat
    BY <1>4
  <1>6. \A i \in DOMAIN queue' : i \in DOMAIN queue \/ i = Len(queue) + 1 BY <1>5
  <1>7. \A i \in DOMAIN queue : i \in DOMAIN queue' /\ SameOp(queue'[i], queue[i])
    BY <1>2, <1>4, <1>5
  <1> QED BY <1>4, <1>6, <1>7 DEF QueueGrows

-----------------------------------------------------------------------------
(* What every step of the event loop keeps: the frames on the air, the       *)
(* frame of the parse worker and the operations come from those before.      *)

AirShrinks ==
  /\ air' \in Seq(AirFrames)
  /\ \E d \in Nat : \A i \in DOMAIN air' : i + d \in DOMAIN air /\ air'[i] = air[i + d]

LoopStep ==
  /\ UNCHANGED << device, replaced, mem, disk >>
  /\ lost => lost'
  /\ AirShrinks /\ QueueGrows
  /\ history'.closed = history.closed /\ history'.failed = history.failed
  /\ history.broken \subseteq history'.broken
  /\ history' \in [closed: SUBSET (1 .. session), broken: SUBSET (0 .. SessionLimit),
                   failed: SUBSET Stores]
  /\ \A i \in DOMAIN queue' : queue'[i].op = "abort" => queue'[i].st \in aborting'
  /\ parse'.frame \in {NoAir, parse.frame} \/ \E j \in DOMAIN air : parse'.frame = air[j]
  /\ \A st \in Stores : Over(st) /\ store # st => store' # st

LEMMA AirTypes ==
  ASSUME LoopShapes, NEW i \in DOMAIN air
  PROVE  air[i] \in AirFrames
  BY DEF LoopShapes

LEMMA QueueTypes ==
  ASSUME LoopShapes, NEW i \in DOMAIN queue
  PROVE  queue[i] \in Operations
  BY DEF LoopShapes

LEMMA AirShrinkings ==
  ASSUME LoopShapes, air' = air \/ (air # << >> /\ air' = Tail(air))
                     \/ (air # << >> /\ air' = Front(air)) \/ air' = << >>
  PROVE  AirShrinks
  <1>1. air \in Seq(AirFrames) BY DEF LoopShapes
  <1>2. CASE air' = air
    <2>1. \A i \in DOMAIN air' : i + 0 \in DOMAIN air /\ air'[i] = air[i + 0] BY <1>1, <1>2
    <2> QED BY <1>1, <1>2, <2>1 DEF AirShrinks
  <1>3. CASE air # << >> /\ air' = Tail(air)
    <2>1. air' \in Seq(AirFrames) /\ Len(air') = Len(air) - 1
          /\ \A i \in 1 .. Len(air) - 1 : air'[i] = air[i + 1]
      BY <1>1, <1>3
    <2>2. \A i \in DOMAIN air' : i + 1 \in DOMAIN air /\ air'[i] = air[i + 1] BY <1>1, <2>1
    <2> QED BY <2>1, <2>2 DEF AirShrinks
  <1>4. CASE air # << >> /\ air' = Front(air)
    <2>1. air' = SubSeq(air, 1, Len(air) - 1) BY <1>4 DEF Front
    <2>2. air' \in Seq(AirFrames) /\ Len(air') = Len(air) - 1
          /\ \A i \in 1 .. Len(air) - 1 : air'[i] = air[i]
      <3>1. Len(air) \in Nat /\ Len(air) > 0 /\ \A i \in 1 .. Len(air) : air[i] \in AirFrames
        BY <1>1, <1>4
      <3>2. air' = [i \in 1 .. Len(air) - 1 |-> air[i]]
        BY <2>1, <3>1
      <3>3. Len(air) - 1 \in Nat /\ air' \in [1 .. Len(air) - 1 -> AirFrames]
        BY <3>1, <3>2
      <3> QED BY <3>2, <3>3
    <2>3. \A i \in DOMAIN air' : i + 0 \in DOMAIN air /\ air'[i] = air[i + 0] BY <1>1, <2>2
    <2> QED BY <2>2, <2>3 DEF AirShrinks
  <1>5. CASE air' = << >>
    <2>1. air' \in Seq(AirFrames) /\ DOMAIN air' = {} BY <1>5
    <2>2. \A i \in DOMAIN air' : i + 0 \in DOMAIN air /\ air'[i] = air[i + 0] BY <2>1
    <2> QED BY <2>1, <2>2 DEF AirShrinks
  <1> QED BY <1>2, <1>3, <1>4, <1>5

LEMMA GoneStays ==
  ASSUME HostInv, LoopStep, NEW st \in Stores
  PROVE  /\ Over(st) => Over(st)'
         /\ Gone(st) => Gone(st)'
  <1>1. Over(st) => Over(st)'
    <2>1. NoStart(st) => NoStart(st)' BY DEF LoopStep, AirShrinks, NoStart
    <2> QED BY <2>1 DEF LoopStep, Over, device
  <1>2. ASSUME Gone(st) PROVE NoOp(st)'
    <2> SUFFICES ASSUME NEW i \in DOMAIN queue' PROVE queue'[i].st # st
      BY DEF NoOp
    <2>1. CASE i \in DOMAIN queue
      BY <1>2, <2>1 DEF Gone, NoOp, LoopStep, QueueGrows, SameOp
    <2>2. CASE i \notin DOMAIN queue
      <3>1. NewOp(queue'[i]) BY <2>2 DEF LoopStep, QueueGrows
      <3> QED BY <1>2, <3>1 DEF NewOp, Gone, Over, NoStart
    <2> QED BY <2>1, <2>2
  <1>3. Gone(st) => store' # st BY DEF Gone, LoopStep
  <1>4. session' = session /\ phase' = phase /\ (lost => lost') BY DEF LoopStep, device
  <1> QED BY <1>1, <1>2, <1>3, <1>4 DEF Gone

LEMMA LoopCompletes ==
  ASSUME HostInv, LoopStep, NEW st \in Stores, NEW e \in 0 .. Records, Complete(st, e)
  PROVE  Complete(st, e)'
  <1>1. /\ mem' = mem /\ disk' = disk /\ session' = session /\ phase' = phase /\ wire' = wire
        /\ committed' = committed /\ history'.closed = history.closed
    BY DEF LoopStep, device
  <1>2. mem'[st].count = e \/ Gone(st)' BY <1>1, GoneStays DEF Complete
  <1>3. \A i \in DOMAIN air' : air'[i].kind = "record" /\ air'[i].session = st => air'[i].n <= e
    BY DEF LoopStep, AirShrinks, Complete
  <1>4. parse'.frame.kind = "record" /\ parse'.frame.session = st => parse'.frame.n <= e
    <2>1. CASE parse'.frame = NoAir BY <2>1 DEF NoAir
    <2>2. CASE parse'.frame = parse.frame BY <2>2 DEF Complete
    <2>3. CASE \E j \in DOMAIN air : parse'.frame = air[j] BY <2>3 DEF Complete
    <2> QED BY <2>1, <2>2, <2>3 DEF LoopStep
  <1>5. \A i \in DOMAIN queue' : queue'[i].op = "save" /\ queue'[i].st = st => queue'[i].arg <= e
    <2> SUFFICES ASSUME NEW i \in DOMAIN queue', queue'[i].op = "save" /\ queue'[i].st = st
                 PROVE  queue'[i].arg <= e
      OBVIOUS
    <2>1. CASE i \in DOMAIN queue BY <2>1 DEF LoopStep, QueueGrows, SameOp, Complete
    <2>2. CASE i \notin DOMAIN queue
      <3>1. NewOp(queue'[i]) BY <2>2 DEF LoopStep, QueueGrows
      <3> QED BY <3>1 DEF NewOp, Complete
    <2> QED BY <2>1, <2>2
  <1> QED BY <1>1, <1>2, <1>3, <1>4, <1>5 DEF Complete

LEMMA LoopData ==
  ASSUME HostInv, LoopStep
  PROVE  /\ DeviceShapes' /\ StorageShapes' /\ ArgumentsInv' /\ AbortInv' /\ NumbersInv'
         /\ RetiredIsSaved'
  <1>1. UNCHANGED << device, replaced, mem, disk >> BY DEF LoopStep
  <1>2. DeviceShapes' BY <1>1 DEF HostInv, DeviceShapes, device
  <1>3. StorageShapes' BY <1>1 DEF HostInv, StorageShapes, LoopStep, device
  <1>4. \A i \in DOMAIN queue' : i \notin DOMAIN queue => NewOp(queue'[i])
    BY DEF LoopStep, QueueGrows
  <1>5. \A i \in DOMAIN queue' : i \in DOMAIN queue => SameOp(queue'[i], queue[i])
    BY DEF LoopStep, QueueGrows
  <1>6. ArgumentsInv'
    <2> SUFFICES ASSUME NEW i \in DOMAIN queue'
                 PROVE  /\ queue'[i].st <= session'
                        /\ queue'[i].op = "abort" => queue'[i].arg \in Aborts
                        /\ queue'[i].op # "abort" => queue'[i].arg \in 0 .. Records
                        /\ queue'[i].op = "save" => queue'[i].arg >= 1
      BY DEF ArgumentsInv
    <2>1. CASE i \in DOMAIN queue
      BY <1>1, <1>5, <2>1 DEF SameOp, HostInv, ArgumentsInv, device
    <2>2. CASE i \notin DOMAIN queue
      BY <1>1, <1>4, <2>2 DEF NewOp, device
    <2> QED BY <2>1, <2>2
  <1>7. AbortInv'
    <2>1. \A i \in DOMAIN queue' : queue'[i].op = "abort" => queue'[i].st \in aborting'
      BY DEF LoopStep
    <2>2. ASSUME NEW i \in DOMAIN queue', NEW j \in DOMAIN queue',
                 queue'[i].op = "abort", queue'[j].op = "abort", queue'[i].st = queue'[j].st
          PROVE  i = j
      <3>1. CASE i \in DOMAIN queue /\ j \in DOMAIN queue
        BY <1>5, <2>2, <3>1 DEF SameOp, HostInv, AbortInv
      <3>2. CASE i \notin DOMAIN queue /\ j \notin DOMAIN queue
        BY <2>2, <3>2 DEF LoopStep, QueueGrows
      <3>3. CASE i \in DOMAIN queue /\ j \notin DOMAIN queue
        <4>1. queue[i].op = "abort" /\ queue[i].st = queue'[j].st BY <1>5, <2>2, <3>3 DEF SameOp
        <4>2. queue'[j].st \notin aborting BY <1>4, <2>2, <3>3 DEF NewOp
        <4> QED BY <3>3, <4>1, <4>2 DEF HostInv, AbortInv
      <3>4. CASE i \notin DOMAIN queue /\ j \in DOMAIN queue
        <4>1. queue[j].op = "abort" /\ queue[j].st = queue'[i].st BY <1>5, <2>2, <3>4 DEF SameOp
        <4>2. queue'[i].st \notin aborting BY <1>4, <2>2, <3>4 DEF NewOp
        <4> QED BY <3>4, <4>1, <4>2 DEF HostInv, AbortInv
      <3> QED BY <3>1, <3>2, <3>3, <3>4
    <2> QED BY <2>1, <2>2 DEF AbortInv
  <1>8. NumbersInv'
    <2>1. /\ \A i \in DOMAIN air' : air'[i].session <= session
          /\ \A i \in DOMAIN air' : air'[i].kind = "record" =>
               air'[i].n >= 1 /\ (air'[i].session = session => air'[i].n <= committed)
      BY DEF LoopStep, AirShrinks, HostInv, NumbersInv
    <2>2. parse'.frame.session <= session /\ (parse'.frame.kind = "record" =>
            parse'.frame.n >= 1 /\ (parse'.frame.session = session => parse'.frame.n <= committed))
      <3>1. CASE parse'.frame = NoAir BY <3>1, HostAssumption DEF NoAir, HostInv, DeviceShapes
      <3>2. CASE parse'.frame = parse.frame BY <3>2 DEF HostInv, NumbersInv
      <3>3. CASE \E j \in DOMAIN air : parse'.frame = air[j] BY <3>3 DEF HostInv, NumbersInv
      <3> QED BY <3>1, <3>2, <3>3 DEF LoopStep
    <2>3. ASSUME NEW i \in DOMAIN queue', queue'[i].op = "save", queue'[i].st = session
          PROVE  queue'[i].arg <= committed
      <3>1. CASE i \in DOMAIN queue
        BY <1>5, <2>3, <3>1 DEF SameOp, HostInv, NumbersInv
      <3>2. CASE i \notin DOMAIN queue
        BY <1>4, <2>3, <3>2 DEF NewOp, HostInv, NumbersInv
      <3> QED BY <3>1, <3>2
    <2> QED BY <1>1, <2>1, <2>2, <2>3 DEF HostInv, NumbersInv, device
  <1>9. RetiredIsSaved' BY <1>1 DEF HostInv, RetiredIsSaved, Retired, device
  <1> QED BY <1>2, <1>3, <1>6, <1>7, <1>8, <1>9

LEMMA LoopStorage ==
  ASSUME HostInv, LoopStep
  PROVE  StorageInv'
  <1>1. UNCHANGED << device, replaced, mem, disk >> BY DEF LoopStep
  <1>2. replaced => queue' # << >> /\ SameOp(First', First)
    <2> SUFFICES ASSUME replaced PROVE queue' # << >> /\ SameOp(First', First)
      OBVIOUS
    <2>1. queue # << >> BY DEF HostInv, StorageInv
    <2>2. queue \in Seq(Operations) /\ queue' \in Seq(Operations)
      BY DEF HostInv, LoopShapes, LoopStep, QueueGrows
    <2>3. 1 \in DOMAIN queue /\ First = queue[1] BY <2>1, <2>2 DEF First
    <2>4. 1 \in DOMAIN queue' /\ SameOp(queue'[1], queue[1]) BY <2>3 DEF LoopStep, QueueGrows
    <2>5. queue' # << >> /\ First' = queue'[1] BY <2>2, <2>4 DEF First
    <2> QED BY <2>3, <2>4, <2>5
  <1>3. replaced' => /\ queue' # << >> /\ First'.op = "save"
                     /\ First'.arg = mem'[First'.st].count + 1
                     /\ First'.arg \in disk'[First'.st].files
    BY <1>1, <1>2 DEF SameOp, HostInv, StorageInv
  <1>4. ASSUME NEW st \in Stores, ~Gone(st)'
        PROVE  /\ disk'[st].meta.count <= mem'[st].count
               /\ st \notin history'.failed => mem'[st] = disk'[st].meta
               /\ disk'[st].files \in Files(st)'
    <2>1. ~Gone(st) BY <1>4, GoneStays
    <2>2. /\ disk[st].meta.count <= mem[st].count
          /\ st \notin history.failed => mem[st] = disk[st].meta
          /\ disk[st].files \in Files(st)
      BY <2>1 DEF HostInv, StorageInv
    <2>3. history'.failed = history.failed BY DEF LoopStep
    <2> QED BY <1>1, <2>2, <2>3 DEF Files
  <1> QED BY <1>3, <1>4 DEF StorageInv

LEMMA LoopEnd ==
  ASSUME HostInv, LoopStep
  PROVE  EndInv'
  <1> SUFFICES ASSUME NEW st \in Stores, NEW e \in 0 .. Records, EndKnown(st, e)'
               PROVE  EndKnown(st, e)
    BY LoopCompletes DEF HostInv, EndInv
  <1>1. mem' = mem /\ disk' = disk BY DEF LoopStep
  <1>2. (\E i \in DOMAIN air' : air'[i].kind = "end" /\ air'[i].session = st /\ air'[i].n = e)
          => EndKnown(st, e)
    BY DEF LoopStep, AirShrinks, EndKnown
  <1>3. parse'.frame.kind = "end" /\ parse'.frame.session = st /\ parse'.frame.n = e
          => EndKnown(st, e)
    BY DEF LoopStep, EndKnown, NoAir
  <1>4. ASSUME NEW i \in DOMAIN queue',
               queue'[i].op = "stage" /\ queue'[i].st = st /\ queue'[i].arg = e
        PROVE  EndKnown(st, e)
    <2>1. CASE i \in DOMAIN queue
      BY <1>4, <2>1 DEF LoopStep, QueueGrows, SameOp, EndKnown
    <2>2. CASE i \notin DOMAIN queue
      <3>1. NewOp(queue'[i]) BY <2>2 DEF LoopStep, QueueGrows
      <3> QED BY <1>4, <3>1 DEF NewOp, EndKnown
    <2> QED BY <2>1, <2>2
  <1> QED BY <1>1, <1>2, <1>3, <1>4 DEF EndKnown

LEMMA LoopStart ==
  ASSUME HostInv, LoopStep, store' \in {store, NoStore},
         \A i \in DOMAIN queue' : i \notin DOMAIN queue => queue'[i].op # "start"
  PROVE  StartInv'
  <1>1. UNCHANGED << session, wire, mem, disk >> BY DEF LoopStep, device
  <1>2. \A st \in Stores : NoStart(st) => NoStart(st)' BY DEF LoopStep, AirShrinks, NoStart
  <1>3. \A st \in Stores : NoOp(st) /\ store # st => NoOp(st)'
    <2> SUFFICES ASSUME NEW st \in Stores, NoOp(st), store # st, NEW i \in DOMAIN queue'
                 PROVE  queue'[i].st # st
      BY DEF NoOp
    <2>1. CASE i \in DOMAIN queue BY <2>1 DEF LoopStep, QueueGrows, SameOp, NoOp
    <2>2. CASE i \notin DOMAIN queue
      <3>1. NewOp(queue'[i]) BY <2>2 DEF LoopStep, QueueGrows
      <3> QED BY <2>2, <3>1 DEF NewOp
    <2> QED BY <2>1, <2>2
  <1>4. \A st \in Stores : store # st => store' # st BY DEF Stores, NoStore
  <1>5. \A st \in Stores : Unopened(st)' = Unopened(st) BY <1>1 DEF Unopened
  <1>6. \A st \in Stores : st > session' \/ (st = session' /\ wire' = << >>) => Silent(st)'
    BY <1>1, <1>2, <1>3, <1>4, <1>5 DEF HostInv, StartInv, Silent
  <1>7. \A st \in Stores : ~NoStart(st)' => Unopened(st)' /\ store' # st /\ NoOp(st)'
    BY <1>2, <1>3, <1>4, <1>5 DEF HostInv, StartInv
  <1>8. ASSUME NEW i \in DOMAIN air', NEW j \in DOMAIN air',
               air'[i].kind = "start", air'[j].kind = "start", air'[i].session = air'[j].session
        PROVE  i = j
    <2>1. PICK d \in Nat : \A k \in DOMAIN air' : k + d \in DOMAIN air /\ air'[k] = air[k + d]
      BY DEF LoopStep, AirShrinks
    <2>2. i + d = j + d BY <1>8, <2>1 DEF HostInv, StartInv
    <2>3. i \in Nat /\ j \in Nat BY DEF LoopStep, AirShrinks
    <2> QED BY <2>2, <2>3
  <1>9. ASSUME NEW i \in DOMAIN queue', queue'[i].op = "start"
        PROVE  /\ disk'[queue'[i].st] = NoDir /\ mem'[queue'[i].st] = NoMeta
               /\ \A j \in DOMAIN queue' : queue'[j].st = queue'[i].st => i <= j
    <2>1. i \in DOMAIN queue BY <1>9
    <2>2. queue[i].op = "start" /\ queue'[i].st = queue[i].st
      BY <1>9, <2>1 DEF LoopStep, QueueGrows, SameOp
    <2>3. ASSUME NEW j \in DOMAIN queue', queue'[j].st = queue'[i].st
          PROVE  i <= j
      <3>1. CASE j \in DOMAIN queue
        BY <2>1, <2>2, <2>3, <3>1 DEF LoopStep, QueueGrows, SameOp, HostInv, StartInv
      <3>2. CASE j \notin DOMAIN queue
        <4>1. DOMAIN queue = 1 .. Len(queue) /\ DOMAIN queue' = 1 .. Len(queue') /\ Len(queue) \in Nat
              /\ Len(queue') \in Nat
          BY DEF HostInv, LoopShapes, LoopStep, QueueGrows
        <4> QED BY <2>1, <3>2, <4>1
      <3> QED BY <3>1, <3>2
    <2>4. disk[queue[i].st] = NoDir /\ mem[queue[i].st] = NoMeta
      BY <2>1, <2>2 DEF HostInv, StartInv
    <2> QED BY <1>1, <2>2, <2>3, <2>4
  <1> QED BY <1>6, <1>7, <1>8, <1>9 DEF StartInv

\* The parse worker still waits, or nobody waits for it in the queue.
ParseMoves ==
  \/ parse'.pc = parse.pc /\ parse'.frame = parse.frame /\ parse'.result = parse.result
  \/ \A i \in DOMAIN queue : queue'[i].waiter # "parse"

LEMMA LoopWaiters ==
  ASSUME HostInv, LoopStep, ParseMoves,
         \A i \in DOMAIN queue' : i \notin DOMAIN queue => NewWait(queue'[i]),
         \A i, j \in DOMAIN queue' :
           i \notin DOMAIN queue /\ j \notin DOMAIN queue
             /\ queue'[i].waiter = "parse" /\ queue'[j].waiter = "parse" => i = j
  PROVE  WaiterInv'
  <1> SUFFICES ASSUME NEW i \in DOMAIN queue', queue'[i].waiter = "parse"
               PROVE  /\ parse'.result = "none" /\ parse'.pc \in Waiting
                      /\ queue'[i].st = parse'.frame.session
                      /\ parse'.pc = "saving" => queue'[i].op = "save" /\ queue'[i].arg = parse'.frame.n
                      /\ \A j \in DOMAIN queue' : queue'[j].waiter = "parse" => i = j
    BY DEF WaiterInv
  <1>1. \A j \in DOMAIN queue' : j \in DOMAIN queue =>
          SameOp(queue'[j], queue[j]) /\ (queue'[j].waiter = "parse" => queue[j].waiter = "parse")
    BY DEF LoopStep, QueueGrows, SameOp
  <1>2. CASE i \in DOMAIN queue
    <2>1. queue[i].waiter = "parse" BY <1>1, <1>2
    <2>2. parse'.pc = parse.pc /\ parse'.frame = parse.frame /\ parse'.result = parse.result
      BY <1>2 DEF ParseMoves
    <2>3. /\ parse.result = "none" /\ parse.pc \in Waiting /\ queue[i].st = parse.frame.session
          /\ parse.pc = "saving" => queue[i].op = "save" /\ queue[i].arg = parse.frame.n
          /\ \A j \in DOMAIN queue : queue[j].waiter = "parse" => i = j
      BY <1>2, <2>1 DEF HostInv, WaiterInv
    <2>4. \A j \in DOMAIN queue' : queue'[j].waiter = "parse" => j \in DOMAIN queue
      BY <1>2, <2>1 DEF NewWait
    <2> QED BY <1>1, <1>2, <2>2, <2>3, <2>4 DEF SameOp
  <1>3. CASE i \notin DOMAIN queue
    <2>1. NewWait(queue'[i]) BY <1>3
    <2>2. \A j \in DOMAIN queue' : queue'[j].waiter = "parse" => j \notin DOMAIN queue
      BY <1>1, <2>1 DEF NewWait
    <2> QED BY <1>3, <2>1, <2>2 DEF NewWait
  <1> QED BY <1>2, <1>3

\* The ACKs under way are those before, and that of the parse worker.
AcksMove ==
  /\ acks' \in Seq(AckFrames)
  /\ \A i \in DOMAIN acks' :
       \/ \E j \in DOMAIN acks : acks'[i] = acks[j]
       \/ parse.pc = "acking" /\ acks'[i] = Ack(parse.frame)

LEMMA LoopAcks ==
  ASSUME HostInv, LoopStep, AcksMove
  PROVE  AcksInv'
  <1> SUFFICES ASSUME NEW i \in DOMAIN acks', acks'[i].n # 0
               PROVE  SavedRecord(acks'[i].session, acks'[i].n)
    BY DEF AcksInv, SavedRecord, LoopStep
  <1>1. CASE \E j \in DOMAIN acks : acks'[i] = acks[j] BY <1>1 DEF HostInv, AcksInv
  <1>2. CASE parse.pc = "acking" /\ acks'[i] = Ack(parse.frame)
    <2>1. acks'[i].n = (IF parse.frame.kind = "end" THEN 0 ELSE parse.frame.n)
          /\ acks'[i].session = parse.frame.session
      BY <1>2 DEF Ack
    <2> QED BY <1>2, <2>1 DEF HostInv, ParseInv
  <1> QED BY <1>1, <1>2 DEF AcksMove

LEMMA LoopWaitStart ==
  ASSUME HostInv, LoopStep, AcksMove, notice' => notice,
         \A st \in Stores : EndHandled(st) => EndHandled(st)' \/ Excused(st)',
         acks' # acks => \A st \in Stores :
           parse.pc = "acking" /\ parse.frame.kind = "end" /\ parse.frame.session = st
             => EndHandled(st)' \/ Excused(st)'
  PROVE  WaitStartInv'
  <1>1. UNCHANGED << session, phase, mem, disk >> BY DEF LoopStep, device
  <1>2. history'.closed = history.closed BY DEF LoopStep
  <1>3. \A st \in Stores : Excused(st) => Excused(st)' BY DEF LoopStep, Excused
  <1>4. \A st \in Stores : NotClosed(st) => NotClosed(st)' BY <1>1, <1>2, <1>3 DEF NotClosed
  <1>5. (notice' => phase' = "idle") /\ (session' \in history'.closed => phase' = "idle")
    BY <1>1, <1>2 DEF HostInv, WaitStartInv
  <1>6. ASSUME NEW st \in Stores, EndAcked(st)'
        PROVE  Excused(st)' \/ EndHandled(st)'
    <2>1. CASE EndAcked(st) BY <1>3, <2>1 DEF HostInv, WaitStartInv
    <2>2. CASE ~EndAcked(st)
      <3>1. PICK i \in DOMAIN acks' : acks'[i].n = 0 /\ acks'[i].session = st
        BY <1>2, <1>6, <2>2 DEF EndAcked
      <3>2. acks' # acks BY <2>2, <3>1 DEF EndAcked
      <3>3. parse.pc = "acking" /\ acks'[i] = Ack(parse.frame)
        BY <2>2, <3>1 DEF AcksMove, EndAcked
      <3>4. parse.frame.session = st
            /\ (IF parse.frame.kind = "end" THEN 0 ELSE parse.frame.n) = 0
        BY <3>1, <3>3 DEF Ack
      <3>5. parse.frame.kind = "end"
        BY <3>3, <3>4 DEF HostInv, ParseInv, NumbersInv
      <3> QED BY <3>2, <3>3, <3>4, <3>5
    <2> QED BY <2>1, <2>2
  <1>7. ASSUME NEW st \in Stores, TakenForLost(st)'
        PROVE  NotClosed(st)'
    <2>1. CASE TakenForLost(st) BY <1>4, <2>1 DEF HostInv, WaitStartInv
    <2>2. CASE ~TakenForLost(st)
      <3>1. PICK i \in DOMAIN queue' :
              queue'[i].op = "abort" /\ queue'[i].arg = "wait_start" /\ queue'[i].st = st
        BY <1>1, <1>7, <2>2 DEF TakenForLost
      <3>2. CASE i \in DOMAIN queue
        BY <2>2, <3>1, <3>2 DEF LoopStep, QueueGrows, SameOp, TakenForLost
      <3>3. CASE i \notin DOMAIN queue
        <4>1. NewOp(queue'[i]) BY <3>3 DEF LoopStep, QueueGrows
        <4> QED BY <1>4, <3>1, <4>1 DEF NewOp
      <3> QED BY <3>2, <3>3
    <2> QED BY <2>1, <2>2
  <1> QED BY <1>5, <1>6, <1>7 DEF WaitStartInv

LEMMA LoopHandled ==
  ASSUME HostInv, LoopStep, store' = store, hostActive' => hostActive,
         hostActive' /\ FinalEnd(parse) => FinalEnd(parse') \/ Excused(store)'
  PROVE  \A st \in Stores : EndHandled(st) => EndHandled(st)' \/ Excused(st)'
  <1> SUFFICES ASSUME NEW st \in Stores, EndHandled(st), ~Excused(st)'
               PROVE  EndHandled(st)'
    OBVIOUS
  <1>1. Over(st)' BY GoneStays DEF EndHandled
  <1>2. ASSUME store' = st, hostActive' PROVE FinalEnd(parse')
    <2>1. FinalEnd(parse) BY <1>2 DEF EndHandled
    <2>2. ~Excused(store)' BY <1>2 DEF Excused
    <2> QED BY <1>2, <2>1, <2>2
  <1>3. FinalEnd(parse') => FinalEnd(parse)' BY DEF FinalEnd
  <1> QED BY <1>1, <1>2, <1>3 DEF EndHandled

\* The queue grows by at most one operation of the open session.
QueueMoves ==
  /\ QueueGrows
  /\ aborting' \subseteq Stores
  /\ \A i \in DOMAIN queue' : queue'[i].op = "abort" => queue'[i].st \in aborting'
  /\ \A i \in DOMAIN queue' : i \notin DOMAIN queue => queue'[i].op # "start" /\ NewWait(queue'[i])
  /\ \A i, j \in DOMAIN queue' :
       i \notin DOMAIN queue /\ j \notin DOMAIN queue
         /\ queue'[i].waiter = "parse" /\ queue'[j].waiter = "parse" => i = j

LEMMA MovesStay ==
  ASSUME HostInv, NEW W, queue' = queue \/ queue' = Without(W, queue), aborting' = aborting
  PROVE  QueueMoves
  <1>1. QueueGrows /\ \A i \in DOMAIN queue' : i \in DOMAIN queue
    BY QueueStays DEF HostInv, LoopShapes
  <1>2. aborting' \subseteq Stores BY DEF HostInv, LoopShapes
  <1>3. \A i \in DOMAIN queue' : queue'[i].op = "abort" => queue'[i].st \in aborting'
    BY <1>1 DEF QueueGrows, SameOp, HostInv, AbortInv
  <1> QED BY <1>1, <1>2, <1>3 DEF QueueMoves

LEMMA MovesTake ==
  ASSUME HostInv, NEW W, NEW e, NewOp(e), NewWait(e), e.op # "start",
         queue' = Append(queue, e) \/ queue' = Append(Without(W, queue), e),
         IF e.op = "abort" THEN aborting' = aborting \cup {e.st} ELSE aborting' = aborting
  PROVE  QueueMoves
  <1>1. /\ QueueGrows /\ queue'[Len(queue) + 1] = e
        /\ \A i \in DOMAIN queue' : i \in DOMAIN queue \/ i = Len(queue) + 1
    BY QueueTakes DEF HostInv, LoopShapes
  <1>2. aborting \subseteq Stores /\ aborting \subseteq aborting' /\ e.st \in Stores
    BY DEF HostInv, LoopShapes, NewOp, Operations
  <1>3. aborting' \subseteq Stores BY <1>2
  <1>4. \A i \in DOMAIN queue' : queue'[i].op = "abort" => queue'[i].st \in aborting'
    <2> SUFFICES ASSUME NEW i \in DOMAIN queue', queue'[i].op = "abort"
                 PROVE  queue'[i].st \in aborting'
      OBVIOUS
    <2>1. CASE i \in DOMAIN queue
      BY <1>1, <1>2, <2>1 DEF QueueGrows, SameOp, HostInv, AbortInv
    <2>2. CASE i \notin DOMAIN queue BY <1>1, <2>2
    <2> QED BY <2>1, <2>2
  <1>5. \A i \in DOMAIN queue' : i \notin DOMAIN queue => queue'[i] = e /\ i = Len(queue) + 1
    BY <1>1
  <1> QED BY <1>1, <1>3, <1>4, <1>5 DEF QueueMoves

LEMMA MovesAbort ==
  ASSUME HostInv, NEW W, NEW ops \in {queue, Without(W, queue)}, NEW source \in Aborts,
         source = "wait_start" => NotClosed(store), AbortAs(store, source, ops)
  PROVE  QueueMoves
  <1>1. CASE store = NoStore \/ store \in aborting
    BY <1>1, MovesStay DEF AbortAs
  <1>2. CASE ~(store = NoStore \/ store \in aborting)
    <2> DEFINE e == Op("abort", store, source, "nobody")
    <2>1. queue' = Append(ops, e) /\ aborting' = aborting \cup {store} BY <1>2 DEF AbortAs
    <2>2. e.op = "abort" /\ e.st = store /\ e.arg = source /\ e.waiter = "nobody" BY DEF Op
    <2>3. store \in Stores /\ store <= session
      BY <1>2, HostAssumption DEF HostInv, LoopShapes, DeviceShapes, Stores, NoStore
    <2>4. e \in Operations BY <2>3 DEF Op, Operations, Verbs
    <2> HIDE DEF e
    <2>5. NewOp(e) /\ NewWait(e) BY <1>2, <2>2, <2>3, <2>4 DEF NewOp, NewWait
    <2>6. queue' = Append(queue, e) \/ queue' = Append(Without(W, queue), e) BY <2>1
    <2> QED BY <2>1, <2>2, <2>5, <2>6, MovesTake
  <1> QED BY <1>1, <1>2

LEMMA MovesError ==
  ASSUME HostInv, NEW source \in Aborts, source = "wait_start" => NotClosed(store),
         HandleError(source)
  PROVE  QueueMoves /\ ~hostActive'
  BY MovesAbort DEF HandleError

LEMMA MovesFault ==
  ASSUME HostInv, BeginFault
  PROVE  /\ QueueMoves /\ fault' = "stop" /\ (hostActive' => hostActive)
         /\ fault = "none" => ~hostActive'
  <1>1. CASE fault = "none"
    <2>1. HandleError("host_online_fault") /\ fault' = "stop" BY <1>1 DEF BeginFault
    <2>2. "host_online_fault" \in Aborts BY DEF Aborts
    <2> QED BY <2>1, <2>2, MovesError
  <1>2. CASE fault # "none"
    BY <1>2, MovesStay DEF BeginFault
  <1> QED BY <1>1, <1>2

\* A step of the event loop that leaves the session what it is.
LEMMA LoopKeeps ==
  ASSUME HostInv, UNCHANGED << device, storage, hostSession, store >>, lost' = lost, notice' => notice,
         air' = air \/ (air # << >> /\ air' = Tail(air)) \/ (air # << >> /\ air' = Front(air)),
         AcksMove,
         acks' # acks => parse.frame.kind = "record" \/ FinalEnd(parse')
                           \/ parse.frame.session \in history'.broken,
         QueueMoves, fault' \in {"none", "drain", "stop"},
         hostActive' => hostActive,
         hostActive' /\ FinalEnd(parse) => FinalEnd(parse') \/ Excused(store)',
         parse' \in Parses, ParseMoves, ParseInv',
         parse'.frame \in {NoAir, parse.frame} \/ \E j \in DOMAIN air : parse'.frame = air[j],
         history' = history \/ \E st \in 0 .. SessionLimit :
           history' = [history EXCEPT !.broken = @ \cup {st}]
  PROVE  HostInv'
  <1>1. AirShrinks BY AirShrinkings DEF HostInv
  <1>2. /\ history'.closed = history.closed /\ history'.failed = history.failed
        /\ history.broken \subseteq history'.broken
        /\ history' \in [closed: SUBSET (1 .. session), broken: SUBSET (0 .. SessionLimit),
                         failed: SUBSET Stores]
    BY DEF HostInv, StorageShapes
  <1>3. LoopStep
    BY <1>1, <1>2 DEF LoopStep, QueueMoves, storage
  <1>4. LoopShapes'
    BY <1>1 DEF HostInv, LoopShapes, AirShrinks, AcksMove, QueueMoves, QueueGrows, device
  <1>5. DeviceShapes' /\ StorageShapes' /\ ArgumentsInv' /\ AbortInv' /\ NumbersInv' /\ RetiredIsSaved'
    BY <1>3, LoopData
  <1>6. StorageInv' /\ EndInv' BY <1>3, LoopStorage, LoopEnd
  <1>7. StartInv' BY <1>3, LoopStart DEF QueueMoves
  <1>8. WaiterInv' BY <1>3, LoopWaiters DEF QueueMoves
  <1>9. AcksInv' BY <1>3, LoopAcks
  <1>10. WaitStartInv'
    <2>1. \A st \in Stores : EndHandled(st) => EndHandled(st)' \/ Excused(st)'
      BY <1>3, LoopHandled
    <2>2. ASSUME acks' # acks, NEW st \in Stores,
                 parse.pc = "acking", parse.frame.kind = "end", parse.frame.session = st
          PROVE  EndHandled(st)' \/ Excused(st)'
      <3>1. CASE st \in history'.broken BY <3>1 DEF Excused
      <3>2. CASE FinalEnd(parse')
        <4>1. Over(st)
          <5>1. st = store /\ st <= session BY <2>2 DEF HostInv, ParseInv, LoopShapes
          <5>2. ~(st = session /\ wire = << >>) BY <5>1 DEF HostInv, StartInv, Silent
          <5>3. NoStart(st) BY <5>1 DEF HostInv, StartInv
          <5> QED BY <5>1, <5>2, <5>3 DEF Over
        <4>2. Over(st)' BY <1>3, <4>1, GoneStays
        <4>3. FinalEnd(parse)' BY <3>2 DEF FinalEnd
        <4> QED BY <4>2, <4>3 DEF EndHandled
      <3> QED BY <2>2, <3>1, <3>2
    <2> QED BY <1>3, <2>1, <2>2, LoopWaitStart
  <1> QED BY <1>4, <1>5, <1>6, <1>7, <1>8, <1>9, <1>10 DEF HostInv

LEMMA Unawaited ==
  ASSUME HostInv, QueueGrows, parse.result # "none" \/ parse.pc \notin Waiting
  PROVE  /\ ParseMoves
         /\ \A i \in DOMAIN queue : queue[i].waiter # "parse"
  <1>1. \A i \in DOMAIN queue : queue[i].waiter # "parse" BY DEF HostInv, WaiterInv
  <1> QED BY <1>1 DEF QueueGrows, SameOp, ParseMoves

LEMMA AcksStay ==
  ASSUME HostInv, acks' = acks
  PROVE  AcksMove
  BY DEF HostInv, LoopShapes, AcksMove

LEMMA AcksAttempted ==
  ASSUME HostInv, acks' \in Attempted \/ (parse.pc = "acking" /\ acks' = Append(acks, Ack(parse.frame)))
  PROVE  AcksMove /\ (acks' # acks => parse.pc = "acking")
  <1>1. CASE acks' = acks BY <1>1, AcksStay
  <1>2. CASE parse.pc = "acking" /\ acks' = Append(acks, Ack(parse.frame))
    <2> DEFINE a == Ack(parse.frame)
    <2>1. parse.frame \in AirFrames
      BY <1>2 DEF HostInv, LoopShapes, Parses, ParseInv
    <2>2. a \in AckFrames
      <3>1. 0 \in 0 .. Records BY HostAssumption
      <3> QED BY <2>1, <3>1 DEF Ack, AirFrames, AckFrames
    <2> HIDE DEF a
    <2>3. acks \in Seq(AckFrames) /\ acks' = Append(acks, a) BY <1>2 DEF HostInv, LoopShapes, a
    <2>4. /\ acks' \in Seq(AckFrames) /\ Len(acks') = Len(acks) + 1
          /\ acks'[Len(acks) + 1] = a /\ \A i \in 1 .. Len(acks) : acks'[i] = acks[i]
      BY <2>2, <2>3, AppendProperties
    <2>5. \A i \in DOMAIN acks' : i \in DOMAIN acks \/ i = Len(acks) + 1 BY <2>3, <2>4
    <2>6. \A i \in DOMAIN acks : acks'[i] = acks[i] BY <2>3, <2>4
    <2> QED BY <1>2, <2>4, <2>5, <2>6 DEF AcksMove, a
  <1> QED BY <1>1, <1>2 DEF Attempted

LEMMA ParseTypes ==
  ASSUME HostInv
  PROVE  /\ parse \in Parses /\ Idle \in Parses /\ Dead \in Parses
         /\ Revoked(parse) \in Parses
         /\ Revoked(parse).pc = parse.pc /\ Revoked(parse).frame = parse.frame
         /\ Revoked(parse).result = parse.result /\ ~Revoked(parse).current
         /\ Idle.pc = "idle" /\ Idle.frame = NoAir /\ Idle.result = "none" /\ Idle.current
         /\ Dead.pc = "dead" /\ Dead.frame = NoAir /\ Dead.result = "none" /\ Dead.current
  <1>1. parse \in Parses BY DEF HostInv, LoopShapes
  <1>2. Idle \in Parses /\ Dead \in Parses BY DEF Idle, Dead, Parses
  <1>3. Revoked(parse) \in Parses BY <1>1 DEF Revoked, Parses
  <1> QED BY <1>1, <1>2, <1>3 DEF Revoked, Parses, Idle, Dead

\* The parse worker is idle, or ends.
LEMMA IdleInv ==
  ASSUME HostInv, parse' = Idle \/ parse' = Dead
  PROVE  ParseInv' /\ parse' \in Parses /\ parse'.frame = NoAir /\ parse'.result = "none"
  <1>1. /\ parse' \in Parses /\ parse'.frame = NoAir /\ parse'.result = "none"
        /\ parse'.pc \in {"idle", "dead"}
    BY ParseTypes
  <1>2. ParseInv' BY <1>1 DEF ParseInv, Waiting
  <1> QED BY <1>1, <1>2

LEMMA KeepsOverflow ==
  ASSUME HostInv, Overflow
  PROVE  HostInv'
  <1>1. QueueMoves /\ fault' = "stop" /\ (hostActive' => hostActive)
        /\ (fault = "none" => ~hostActive')
    BY MovesFault DEF Overflow
  <1>2. /\ parse' \in Parses /\ parse'.pc = parse.pc /\ parse'.frame = parse.frame
        /\ parse'.result = parse.result
        /\ hostActive' /\ FinalEnd(parse) => FinalEnd(parse')
    <2>1. CASE fault = "none" BY <1>1, <2>1, ParseTypes DEF Overflow, FaultOf
    <2>2. CASE fault # "none" BY <2>2, ParseTypes DEF Overflow, FaultOf
    <2> QED BY <2>1, <2>2
  <1>3. ParseMoves BY <1>2 DEF ParseMoves
  <1>4. AcksMove BY AcksStay DEF Overflow
  <1>5. store' = store /\ disk' = disk /\ history' = history BY DEF Overflow, storage
  <1>6. ParseInv' BY <1>2, <1>5 DEF HostInv, ParseInv, SavedRecord
  <1>7. UNCHANGED << device, storage, hostSession, store, lost, notice, acks >> BY DEF Overflow
  <1>8. air # << >> /\ air' = Front(air) BY DEF Overflow
  <1> QED BY <1>1, <1>2, <1>3, <1>4, <1>5, <1>6, <1>7, <1>8, LoopKeeps

LEMMA KeepsWaitStart ==
  ASSUME HostInv, WaitStart
  PROVE  HostInv'
  <1>1. UNCHANGED << device, storage, hostSession, store, lost, acks, air, fault, history >>
    BY DEF WaitStart
  <1>2. AcksMove BY <1>1, AcksStay
  <1>3. CASE hostActive /\ ~Finalizing
    <2>1. HandleError("wait_start") /\ parse' = Revoked(parse) BY <1>3 DEF WaitStart
    <2>2. NotClosed(store)
      <3>1. phase = "idle" BY DEF WaitStart, HostInv, WaitStartInv
      <3>2. ASSUME store \in history.closed PROVE Excused(store)
        <4>1. store \in Stores
          BY <3>2, HostAssumption DEF HostInv, StorageShapes, DeviceShapes, Stores
        <4>2. Excused(store) \/ EndHandled(store)
          BY <3>2, <4>1 DEF HostInv, WaitStartInv, EndAcked
        <4>3. EndHandled(store) => FALSE BY <1>3 DEF EndHandled, FinalEnd, Finalizing
        <4> QED BY <4>2, <4>3
      <3> QED BY <3>1, <3>2 DEF NotClosed
    <2>3. "wait_start" \in Aborts BY DEF Aborts
    <2>4. QueueMoves /\ ~hostActive' BY <2>1, <2>2, <2>3, MovesError
    <2>5. /\ parse' \in Parses /\ parse'.pc = parse.pc /\ parse'.frame = parse.frame
          /\ parse'.result = parse.result
      BY <2>1, ParseTypes
    <2>6. ParseMoves BY <2>5 DEF ParseMoves
    <2>7. ParseInv' BY <1>1, <2>5 DEF HostInv, ParseInv, SavedRecord, storage
    <2>8. fault' \in {"none", "drain", "stop"} BY <1>1 DEF HostInv, LoopShapes
    <2>9. notice' => notice BY DEF WaitStart
    <2> QED BY <1>1, <1>2, <2>4, <2>5, <2>6, <2>7, <2>8, <2>9, LoopKeeps
  <1>4. CASE ~(hostActive /\ ~Finalizing)
    <2>1. UNCHANGED << hostActive, retry, queue, aborting, parse >> BY <1>4 DEF WaitStart
    <2>2. QueueMoves BY <2>1, MovesStay
    <2>3. parse' \in Parses BY <2>1 DEF HostInv, LoopShapes
    <2>4. ParseMoves BY <2>1 DEF ParseMoves
    <2>5. ParseInv' BY <1>1, <2>1 DEF HostInv, ParseInv, SavedRecord, storage
    <2>6. fault' \in {"none", "drain", "stop"} BY <1>1 DEF HostInv, LoopShapes
    <2>7. notice' => notice BY DEF WaitStart
    <2> QED BY <1>1, <1>2, <2>1, <2>2, <2>3, <2>4, <2>5, <2>6, <2>7, LoopKeeps
  <1> QED BY <1>3, <1>4

LEMMA KeepsErrorState ==
  ASSUME HostInv, ErrorState
  PROVE  HostInv'
  <1>1. UNCHANGED << device, storage, hostSession, store, lost, acks, air, notice, fault, history >>
    BY DEF ErrorState, link
  <1>2. AcksMove BY <1>1, AcksStay
  <1>3. QueueMoves /\ ~hostActive'
    <2>1. "device_state" \in Aborts BY DEF Aborts
    <2> QED BY <2>1, MovesError DEF ErrorState
  <1>4. /\ parse' \in Parses /\ parse'.pc = parse.pc /\ parse'.frame = parse.frame
        /\ parse'.result = parse.result
    BY ParseTypes DEF ErrorState
  <1>5. ParseMoves BY <1>4 DEF ParseMoves
  <1>6. ParseInv' BY <1>1, <1>4 DEF HostInv, ParseInv, SavedRecord, storage
  <1>7. fault' \in {"none", "drain", "stop"} BY <1>1 DEF HostInv, LoopShapes
  <1> QED BY <1>1, <1>2, <1>3, <1>4, <1>5, <1>6, <1>7, LoopKeeps

LEMMA KeepsAbortSettled ==
  ASSUME HostInv, NEW st \in Stores, AbortSettled(st)
  PROVE  HostInv'
  <1>1. UNCHANGED << device, storage, hostSession, store, lost, acks, air, notice, fault, history,
                     parse, hostActive, queue >>
    BY DEF AbortSettled, link
  <1>2. AcksMove BY <1>1, AcksStay
  <1>3. QueueMoves
    <2>1. QueueGrows /\ \A i \in DOMAIN queue' : i \in DOMAIN queue
      BY <1>1, QueueStays DEF HostInv, LoopShapes
    <2>2. aborting' \subseteq Stores BY DEF AbortSettled, HostInv, LoopShapes
    <2>3. \A i \in DOMAIN queue' : queue'[i].op = "abort" => queue'[i].st \in aborting'
      BY <1>1 DEF AbortSettled, HostInv, AbortInv
    <2> QED BY <2>1, <2>2, <2>3 DEF QueueMoves
  <1>4. parse' \in Parses BY <1>1 DEF HostInv, LoopShapes
  <1>5. ParseMoves BY <1>1 DEF ParseMoves
  <1>6. ParseInv' BY <1>1 DEF HostInv, ParseInv, SavedRecord, storage
  <1>7. fault' \in {"none", "drain", "stop"} BY <1>1 DEF HostInv, LoopShapes
  <1> QED BY <1>1, <1>2, <1>3, <1>4, <1>5, <1>6, <1>7, LoopKeeps

LEMMA KeepsDisconnectBegins ==
  ASSUME HostInv, DisconnectBegins
  PROVE  HostInv'
  <1>1. UNCHANGED << device, storage, hostSession, store, lost, air, notice, fault, hostActive,
                     aborting >>
    BY DEF DisconnectBegins
  <1>2. AcksMove /\ (acks' # acks => parse.pc = "acking") BY AcksAttempted DEF DisconnectBegins
  <1>3. QueueMoves BY <1>1, MovesStay DEF DisconnectBegins
  <1>4. ParseInv' /\ parse' \in Parses /\ parse'.frame = NoAir BY IdleInv DEF DisconnectBegins
  <1>5. ParseMoves
    <2>1. queue' = Without({"parse", "retry"}, queue) BY DEF DisconnectBegins
    <2>2. queue \in Seq(Operations) BY DEF HostInv, LoopShapes
    <2>3. \A i \in DOMAIN queue : queue'[i].waiter # "parse"
      BY <2>1, <2>2, WithoutKeeps
    <2> QED BY <2>3 DEF ParseMoves
  <1>6. history' = [history EXCEPT !.broken = @ \cup {hostSession}] BY DEF DisconnectBegins
  <1>7. hostSession \in history'.broken BY <1>6 DEF HostInv, StorageShapes
  <1>8. hostSession \in 0 .. SessionLimit /\ store = hostSession
    BY HostAssumption DEF HostInv, LoopShapes, DeviceShapes
  <1>9. parse.pc = "acking" => parse.frame.session \in history'.broken
    BY <1>7, <1>8 DEF HostInv, ParseInv
  <1>10. Excused(store)' BY <1>1, <1>7, <1>8 DEF Excused
  <1>11. fault' \in {"none", "drain", "stop"} BY <1>1 DEF HostInv, LoopShapes
  <1> QED BY <1>1, <1>2, <1>3, <1>4, <1>5, <1>6, <1>8, <1>9, <1>10, <1>11, LoopKeeps

LEMMA Taken ==
  ASSUME HostInv, NEW kind, Takes(kind)
  PROVE  /\ air # << >> /\ air' = Tail(air) /\ 1 \in DOMAIN air /\ Head(air) = air[1]
         /\ Head(air) \in AirFrames /\ Head(air) # NoAir /\ Head(air).kind = kind
         /\ Head(air).session <= session
         /\ UNCHANGED << device, storage, lost, acks, notice, history >>
         /\ parse.pc = "idle" /\ parse.frame = NoAir /\ AcksMove
         /\ ~FinalEnd(parse)
         /\ fault \in {"none", "drain", "stop"}
  <1>1. air \in Seq(AirFrames) /\ air # << >> BY DEF HostInv, LoopShapes, Takes
  <1>2. 1 \in DOMAIN air /\ Head(air) = air[1] /\ Head(air) \in AirFrames BY <1>1
  <1>3. Head(air) # NoAir BY <1>2 DEF AirFrames, NoAir, Stores
  <1>4. parse.pc = "idle" /\ parse.frame = NoAir BY DEF Takes, HostInv, ParseInv
  <1>5. AcksMove BY AcksStay DEF Takes
  <1>6. ~FinalEnd(parse) BY <1>4 DEF FinalEnd
  <1>7. Head(air).session <= session BY <1>2 DEF HostInv, NumbersInv
  <1> QED BY <1>1, <1>2, <1>3, <1>4, <1>5, <1>6, <1>7 DEF Takes, HostInv, LoopShapes

LEMMA KeepsFrameIgnored ==
  ASSUME HostInv, FrameIgnored
  PROVE  HostInv'
  <1>1. PICK kind \in {"start", "record", "end"} :
          Takes(kind) /\ UNCHANGED << loop, parse, queue >>
    BY DEF FrameIgnored
  <1>2. QueueMoves BY <1>1, MovesStay DEF loop
  <1>3. parse' \in Parses BY <1>1 DEF HostInv, LoopShapes
  <1>4. ParseMoves BY <1>1 DEF ParseMoves
  <1>5. ParseInv' BY <1>1, Taken DEF HostInv, ParseInv, SavedRecord, storage, loop
  <1> QED BY <1>1, <1>2, <1>3, <1>4, <1>5, Taken, LoopKeeps DEF loop

\* A frame of another session is a fault, and is not waited for.
LEMMA KeepsForeignFrame ==
  ASSUME HostInv, NEW kind, Takes(kind), UNCHANGED << hostSession, store, parse >>, BeginFault
  PROVE  HostInv'
  <1>1. QueueMoves /\ fault' = "stop" /\ (hostActive' => hostActive) BY MovesFault
  <1>2. parse' \in Parses BY DEF HostInv, LoopShapes
  <1>3. ParseMoves BY DEF ParseMoves
  <1>4. ParseInv' BY Taken DEF HostInv, ParseInv, SavedRecord, storage
  <1> QED BY <1>1, <1>2, <1>3, <1>4, Taken, LoopKeeps

LEMMA KeepsTakeRecord ==
  ASSUME HostInv, TakeRecord
  PROVE  HostInv'
  <1>1. Takes("record") /\ UNCHANGED << hostSession, store >> BY DEF TakeRecord
  <1>2. CASE Head(air).session = hostSession
    <2> DEFINE e == Op("save", store, Head(air).n, "parse")
    <2>1. queue' = Append(queue, e) /\ parse' = [pc |-> "saving", frame |-> Head(air), current |-> TRUE,
                                                 result |-> "none"]
          /\ UNCHANGED << hostActive, fault, retry, aborting >>
      BY <1>2 DEF TakeRecord, Submit, Waits
    <2>2. e.op = "save" /\ e.st = store /\ e.arg = Head(air).n /\ e.waiter = "parse" BY DEF Op
    <2>3. store = Head(air).session /\ store \in Stores /\ store <= session
          /\ Head(air).n \in 1 .. Records
      <3>1. store = hostSession BY DEF HostInv, LoopShapes
      <3>2. Head(air).n >= 1 /\ Head(air).n \in 0 .. Records
        BY <1>1, Taken DEF AirFrames, HostInv, NumbersInv
      <3> QED BY <1>1, <1>2, <3>1, <3>2, Taken DEF AirFrames
    <2>4. e \in Operations
      BY <2>3 DEF Op, Operations, Verbs
    <2> HIDE DEF e
    <2>5. NewOp(e)
      <3>1. \E j \in DOMAIN air : air[j].kind = "record" /\ air[j].session = e.st /\ air[j].n = e.arg
        BY <1>1, <2>2, <2>3, Taken
      <3> QED BY <2>2, <2>3, <2>4, <3>1 DEF NewOp
    <2>6. \A i \in DOMAIN queue : queue[i].waiter # "parse"
      BY <1>1, Taken DEF HostInv, WaiterInv, Waiting
    <2>7. NewWait(e) BY <2>1, <2>2, <2>3, <2>6 DEF NewWait, Waiting
    <2>8. QueueMoves BY <2>1, <2>2, <2>5, <2>7, MovesTake
    <2>9. parse' \in Parses BY <1>1, <2>1, Taken DEF Parses, Waiting
    <2>10. ParseMoves BY <2>6, <2>8 DEF QueueMoves, QueueGrows, SameOp, ParseMoves
    <2>11. ParseInv' BY <1>1, <2>1, <2>3, Taken DEF ParseInv, Waiting
    <2>12. \E j \in DOMAIN air : parse'.frame = air[j] BY <1>1, <2>1, Taken
    <2> QED BY <1>1, <2>1, <2>8, <2>9, <2>10, <2>11, <2>12, Taken, LoopKeeps
  <1>3. CASE Head(air).session # hostSession
    BY <1>1, <1>3, KeepsForeignFrame DEF TakeRecord
  <1> QED BY <1>2, <1>3

LEMMA KeepsTakeEnd ==
  ASSUME HostInv, TakeEnd
  PROVE  HostInv'
  <1>1. Takes("end") /\ UNCHANGED << hostSession, store >> BY DEF TakeEnd
  <1>2. store = hostSession BY DEF HostInv, LoopShapes
  <1>3. \A i \in DOMAIN queue : queue[i].waiter # "parse"
    BY <1>1, Taken DEF HostInv, WaiterInv, Waiting
  <1>4. \E j \in DOMAIN air : Head(air) = air[j] BY <1>1, Taken
  <1>5. CASE Head(air).session # hostSession
    BY <1>1, <1>5, KeepsForeignFrame DEF TakeEnd
  <1>6. CASE Head(air).session = hostSession /\ StatusOf(store) \in {"ending", "ended"}
    <2>1. /\ parse' = [pc |-> "acking", frame |-> Head(air), current |-> TRUE, result |-> "none"]
          /\ UNCHANGED << hostActive, fault, retry, aborting, queue >>
      BY <1>6 DEF TakeEnd, Waits
    <2>2. QueueMoves BY <2>1, MovesStay
    <2>3. parse' \in Parses BY <1>1, <2>1, Taken DEF Parses, Waiting
    <2>4. ParseMoves BY <1>3, <2>1 DEF ParseMoves
    <2>5. ParseInv' BY <1>1, <1>2, <1>6, <2>1, Taken DEF ParseInv, Waiting
    <2>6. \E j \in DOMAIN air : parse'.frame = air[j] BY <1>4, <2>1
    <2> QED BY <1>1, <2>1, <2>2, <2>3, <2>4, <2>5, <2>6, Taken, LoopKeeps
  <1>7. CASE Head(air).session = hostSession /\ StatusOf(store) \notin {"ending", "ended"}
    <2> DEFINE e == Op("stage", store, Head(air).n, "parse")
    <2>1. queue' = Append(queue, e) /\ parse' = [pc |-> "staging", frame |-> Head(air), current |-> TRUE,
                                                 result |-> "none"]
          /\ UNCHANGED << hostActive, fault, retry, aborting >>
      BY <1>7 DEF TakeEnd, Submit, Waits
    <2>2. e.op = "stage" /\ e.st = store /\ e.arg = Head(air).n /\ e.waiter = "parse" BY DEF Op
    <2>3. store = Head(air).session /\ store \in Stores /\ store <= session
          /\ Head(air).n \in 0 .. Records
      BY <1>1, <1>2, <1>7, Taken DEF AirFrames
    <2>4. e \in Operations
      BY <2>3 DEF Op, Operations, Verbs
    <2> HIDE DEF e
    <2>5. NewOp(e)
      <3>1. \E j \in DOMAIN air : air[j].kind = "end" /\ air[j].session = e.st /\ air[j].n = e.arg
        BY <1>1, <2>2, <2>3, Taken
      <3> QED BY <2>2, <2>3, <2>4, <3>1 DEF NewOp
    <2>6. NewWait(e) BY <1>3, <2>1, <2>2, <2>3 DEF NewWait, Waiting
    <2>7. QueueMoves BY <2>1, <2>2, <2>5, <2>6, MovesTake
    <2>8. parse' \in Parses BY <1>1, <2>1, Taken DEF Parses, Waiting
    <2>9. ParseMoves BY <1>3, <2>7 DEF QueueMoves, QueueGrows, SameOp, ParseMoves
    <2>10. ParseInv' BY <1>1, <2>1, <2>3, Taken DEF ParseInv, Waiting
    <2>11. \E j \in DOMAIN air : parse'.frame = air[j] BY <1>4, <2>1
    <2> QED BY <1>1, <2>1, <2>7, <2>8, <2>9, <2>10, <2>11, Taken, LoopKeeps
  <1> QED BY <1>5, <1>6, <1>7

LEMMA KeepsTakeAbort ==
  ASSUME HostInv, TakeAbort
  PROVE  HostInv'
  <1>1. Takes("abort") /\ UNCHANGED << hostSession, store >> BY DEF TakeAbort
  <1>2. "host_online_fault" \in Aborts /\ "online_abort" \in Aborts BY DEF Aborts
  <1>3. \A i \in DOMAIN queue : queue[i].waiter # "parse"
    BY <1>1, Taken DEF HostInv, WaiterInv, Waiting
  <1>4. CASE fault # "none"
    <2>1. HandleError("host_online_fault") /\ fault' = fault
          /\ parse' = [pc |-> "draining", frame |-> Head(air), current |-> TRUE, result |-> "none"]
      BY <1>4 DEF TakeAbort, Waits
    <2>2. QueueMoves /\ ~hostActive' BY <1>2, <2>1, MovesError
    <2>3. parse' \in Parses BY <1>1, <2>1, Taken DEF Parses, Waiting
    <2>4. ParseMoves BY <1>3, <2>2 DEF QueueMoves, QueueGrows, SameOp, ParseMoves
    <2>5. ParseInv' BY <2>1 DEF ParseInv, Waiting
    <2>6. \E j \in DOMAIN air : parse'.frame = air[j] BY <1>1, <2>1, Taken
    <2> QED BY <1>1, <2>1, <2>2, <2>3, <2>4, <2>5, <2>6, Taken, LoopKeeps
  <1>5. CASE fault = "none" /\ Head(air).session = hostSession
    <2>1. HandleError("online_abort") /\ fault' = fault /\ parse' = parse
      BY <1>5 DEF TakeAbort
    <2>2. QueueMoves /\ ~hostActive' BY <1>2, <2>1, MovesError
    <2>3. parse' \in Parses BY <2>1 DEF HostInv, LoopShapes
    <2>4. ParseMoves BY <2>1 DEF ParseMoves
    <2>5. ParseInv' BY <1>1, <2>1, Taken DEF HostInv, ParseInv, SavedRecord, storage
    <2> QED BY <1>1, <2>1, <2>2, <2>3, <2>4, <2>5, Taken, LoopKeeps
  <1>6. CASE fault = "none" /\ Head(air).session # hostSession
    BY <1>1, <1>6, KeepsForeignFrame DEF TakeAbort
  <1> QED BY <1>4, <1>5, <1>6

\* The parse worker ends or becomes idle.
LEMMA KeepsIdle ==
  ASSUME HostInv, UNCHANGED << device, storage, hostSession, store, link, queue, aborting, history >>,
         parse' = Idle \/ parse' = Dead, parse.result # "none" \/ parse.pc \notin Waiting,
         fault' \in {"none", fault}, hostActive' => hostActive,
         hostActive' => ~FinalEnd(parse)
  PROVE  HostInv'
  <1>1. QueueMoves BY MovesStay
  <1>2. ParseInv' /\ parse' \in Parses /\ parse'.frame = NoAir BY IdleInv
  <1>3. ParseMoves BY <1>1, Unawaited DEF QueueMoves
  <1>4. AcksMove BY AcksStay DEF link
  <1>5. fault' \in {"none", "drain", "stop"} BY DEF HostInv, LoopShapes
  <1> QED BY <1>1, <1>2, <1>3, <1>4, <1>5, LoopKeeps DEF link

LEMMA KeepsParseEnds ==
  ASSUME HostInv, Cancelled \/ Started \/ Drained
  PROVE  HostInv'
  <1>1. CASE Cancelled
    <2>1. ~FinalEnd(parse) BY <1>1 DEF Cancelled, FinalEnd
    <2> QED BY <1>1, <2>1, KeepsIdle DEF Cancelled, loop
  <1>2. CASE Started
    <2>1. ~FinalEnd(parse) BY <1>2 DEF Started, Resumes, FinalEnd
    <2> QED BY <1>2, <2>1, KeepsIdle DEF Started, Resumes, loop
  <1>3. CASE Drained
    <2>1. ~FinalEnd(parse) BY <1>3 DEF Drained, FinalEnd
    <2>2. parse.pc \notin Waiting BY <1>3 DEF Drained, Waiting
    <2> QED BY <1>3, <2>1, <2>2, KeepsIdle DEF Drained, Stays
  <1> QED BY <1>1, <1>2, <1>3

LEMMA KeepsSaved ==
  ASSUME HostInv, Saved
  PROVE  HostInv'
  <1>1. /\ parse.pc \in {"saving", "staging"} /\ parse.result = "ok"
        /\ parse' = [pc |-> "acking", frame |-> parse.frame, current |-> TRUE, result |-> "none"]
        /\ UNCHANGED << device, link, loop, queue, storage, history >>
    BY DEF Saved, AckedAfter, Waits
  <1>2. QueueMoves BY <1>1, MovesStay DEF loop
  <1>3. parse' \in Parses BY <1>1 DEF HostInv, LoopShapes, Parses
  <1>4. ParseMoves BY <1>1, <1>2, Unawaited DEF QueueMoves
  <1>5. AcksMove BY <1>1, AcksStay DEF link
  <1>6. ParseInv' BY <1>1 DEF HostInv, ParseInv, SavedRecord, storage, loop, Waiting
  <1>7. ~FinalEnd(parse) BY <1>1 DEF FinalEnd
  <1>8. fault' \in {"none", "drain", "stop"} BY <1>1 DEF HostInv, LoopShapes, loop
  <1> QED BY <1>1, <1>2, <1>3, <1>4, <1>5, <1>6, <1>7, <1>8, LoopKeeps DEF link, loop

LEMMA KeepsStorageFailed ==
  ASSUME HostInv, StorageFailed
  PROVE  HostInv'
  <1>1. QueueMoves /\ fault' = "stop" /\ (hostActive' => hostActive)
    BY MovesFault DEF StorageFailed
  <1>2. ParseInv' /\ parse' \in Parses /\ parse'.frame = NoAir BY IdleInv DEF StorageFailed
  <1>3. ParseMoves BY <1>1, Unawaited DEF QueueMoves, StorageFailed
  <1>4. AcksMove BY AcksStay DEF StorageFailed, Stays, link
  <1>5. Excused(store)'
    <2>1. parse.frame.session \in history.failed /\ parse.frame.session = store
      BY DEF StorageFailed, HostInv, ParseInv, Waiting
    <2> QED BY <2>1 DEF StorageFailed, Stays, Excused
  <1> QED BY <1>1, <1>2, <1>3, <1>4, <1>5, LoopKeeps DEF StorageFailed, Stays, link

LEMMA KeepsAckWritten ==
  ASSUME HostInv, AckWritten
  PROVE  HostInv'
  <1>1. /\ parse.pc = "acking" /\ parse.current /\ acks' = Append(acks, Ack(parse.frame))
        /\ parse' = [parse EXCEPT !.pc = "acked"]
        /\ UNCHANGED << device, air, notice, lost, loop, queue, storage, history >>
    BY DEF AckWritten
  <1>2. QueueMoves BY <1>1, MovesStay DEF loop
  <1>3. /\ parse' \in Parses /\ parse'.frame = parse.frame /\ parse'.pc = "acked" /\ parse'.current
        /\ parse'.result = parse.result
    BY <1>1 DEF HostInv, LoopShapes, Parses
  <1>4. ParseMoves BY <1>1, <1>2, Unawaited DEF QueueMoves, Waiting
  <1>5. AcksMove BY <1>1, AcksAttempted
  <1>6. ParseInv' BY <1>1, <1>3 DEF HostInv, ParseInv, loop, Waiting
  <1>7. ~FinalEnd(parse) BY <1>1 DEF FinalEnd
  <1>8. fault' \in {"none", "drain", "stop"} BY <1>1 DEF HostInv, LoopShapes, loop
  <1>9. parse.frame.kind = "record" \/ FinalEnd(parse')
    <2>1. parse.frame.kind \in {"record", "end"} BY <1>1 DEF HostInv, ParseInv
    <2> QED BY <1>3, <2>1 DEF FinalEnd
  <1> QED BY <1>1, <1>2, <1>3, <1>4, <1>5, <1>6, <1>7, <1>8, <1>9, LoopKeeps DEF loop

LEMMA KeepsAckFails ==
  ASSUME HostInv, AckFails
  PROVE  HostInv'
  <1>1. /\ parse.pc = "acking" /\ parse' = Idle /\ acks' \in Attempted
        /\ history' = [history EXCEPT !.broken = @ \cup {parse.frame.session}]
        /\ UNCHANGED << device, air, notice, lost, loop, queue, storage >>
    BY DEF AckFails
  <1>2. QueueMoves BY <1>1, MovesStay DEF loop
  <1>3. ParseInv' /\ parse' \in Parses /\ parse'.frame = NoAir BY <1>1, IdleInv
  <1>4. ParseMoves BY <1>1, <1>2, Unawaited DEF QueueMoves, Waiting
  <1>5. AcksMove BY <1>1, AcksAttempted
  <1>6. ~FinalEnd(parse) BY <1>1 DEF FinalEnd
  <1>7. fault' \in {"none", "drain", "stop"} BY <1>1 DEF HostInv, LoopShapes, loop
  <1>8. parse.frame.session \in 0 .. SessionLimit
    <2>1. parse.frame.session = store BY <1>1 DEF HostInv, ParseInv
    <2> QED BY <2>1, HostAssumption DEF HostInv, LoopShapes, DeviceShapes
  <1>9. parse.frame.session \in history'.broken BY <1>1 DEF HostInv, StorageShapes
  <1> QED BY <1>1, <1>2, <1>3, <1>4, <1>5, <1>6, <1>7, <1>8, <1>9, LoopKeeps DEF loop

\* The parse worker hands the storage an operation without a number.
LEMMA KeepsNote ==
  ASSUME HostInv, NEW op \in {"note", "commit"}, NEW pc \in {"noting", "committing"},
         pc = "committing" => parse.frame.kind = "end",
         parse.pc \in {"acked", "noting"}, parse.pc \in Waiting => parse.result # "none",
         Submit(op, 0), Waits(pc, parse.frame),
         UNCHANGED << device, link, hostActive, hostSession, store, fault, aborting, storage, history >>
  PROVE  HostInv'
  <1> DEFINE e == Op(op, store, 0, "parse")
  <1>1. queue' = Append(queue, e)
        /\ parse' = [pc |-> pc, frame |-> parse.frame, current |-> TRUE, result |-> "none"]
    BY DEF Submit, Waits
  <1>2. e.op = op /\ e.st = store /\ e.arg = 0 /\ e.waiter = "parse" BY DEF Op
  <1>3. parse.frame \in AirFrames /\ parse.frame.session = store /\ store <= session
    BY DEF HostInv, LoopShapes, Parses, ParseInv, Waiting
  <1>4. store \in Stores /\ 0 \in 0 .. Records BY <1>3, HostAssumption DEF AirFrames
  <1>5. e \in Operations BY <1>4 DEF Op, Operations, Verbs
  <1> HIDE DEF e
  <1>6. NewOp(e) BY <1>2, <1>3, <1>4, <1>5 DEF NewOp
  <1>7. \A i \in DOMAIN queue : queue[i].waiter # "parse" BY DEF HostInv, WaiterInv, Waiting
  <1>8. NewWait(e) BY <1>1, <1>2, <1>3, <1>7 DEF NewWait, Waiting
  <1>9. QueueMoves BY <1>1, <1>2, <1>6, <1>8, MovesTake
  <1>10. parse' \in Parses BY <1>1, <1>3 DEF Parses, Waiting
  <1>11. ParseMoves BY <1>7, <1>9 DEF QueueMoves, QueueGrows, SameOp, ParseMoves
  <1>12. ParseInv' BY <1>1, <1>3 DEF ParseInv, Waiting, AirFrames, Stores, NoAir
  <1>13. FinalEnd(parse) => FinalEnd(parse') BY <1>1 DEF FinalEnd
  <1>14. AcksMove BY AcksStay DEF link
  <1>15. fault' \in {"none", "drain", "stop"} BY DEF HostInv, LoopShapes
  <1> QED BY <1>1, <1>9, <1>10, <1>11, <1>12, <1>13, <1>14, <1>15, LoopKeeps DEF link

LEMMA KeepsNoteAck ==
  ASSUME HostInv, NoteAck
  PROVE  HostInv'
  <1>1. parse.pc = "acked" /\ UNCHANGED << device, link, loop, storage, history >> BY DEF NoteAck
  <1>2. CASE parse.current
    <2>1. Submit("note", 0) /\ Waits("noting", parse.frame) BY <1>2 DEF NoteAck
    <2> QED BY <1>1, <2>1, KeepsNote DEF loop, Waiting
  <1>3. CASE ~parse.current
    <2>1. parse' = Idle /\ queue' = queue BY <1>3 DEF NoteAck
    <2>2. ~FinalEnd(parse) BY <1>3 DEF FinalEnd
    <2> QED BY <1>1, <2>1, <2>2, KeepsIdle DEF loop, Waiting
  <1> QED BY <1>2, <1>3

LEMMA KeepsNoted ==
  ASSUME HostInv, Noted
  PROVE  HostInv'
  <1>1. /\ parse.pc = "noting" /\ parse.result # "none"
        /\ UNCHANGED << device, link, hostActive, hostSession, store, fault, aborting, storage, history >>
    BY DEF Noted
  <1>2. CASE parse.frame.kind = "end"
    <2>1. Submit("commit", 0) /\ Waits("committing", parse.frame) BY <1>2 DEF Noted
    <2> QED BY <1>1, <1>2, <2>1, KeepsNote
  <1>3. CASE parse.frame.kind # "end"
    <2>1. parse' = Idle /\ queue' = queue BY <1>3 DEF Noted
    <2>2. ~FinalEnd(parse) BY <1>3 DEF FinalEnd
    <2> QED BY <1>1, <2>1, <2>2, KeepsIdle
  <1> QED BY <1>2, <1>3

LEMMA KeepsCommitted ==
  ASSUME HostInv, Committed
  PROVE  HostInv'
  <1>1. /\ parse.pc = "committing" /\ parse.result = "ok" /\ fault' = fault
        /\ UNCHANGED << device, link, hostSession, store, storage, history >>
    BY DEF Committed, Resumes, Stays
  <1>2. CASE fault = "none"
    <2>1. hostActive' = FALSE /\ parse' = Idle /\ UNCHANGED << aborting, queue >>
      BY <1>2 DEF Committed
    <2> QED BY <1>1, <2>1, KeepsIdle
  <1>3. CASE fault # "none"
    <2>1. HandleError("host_online_fault")
          /\ parse' = [pc |-> "draining", frame |-> parse.frame, current |-> TRUE, result |-> "none"]
      BY <1>3 DEF Committed, Waits
    <2>2. "host_online_fault" \in Aborts BY DEF Aborts
    <2>3. QueueMoves /\ ~hostActive' BY <2>1, <2>2, MovesError
    <2>4. parse' \in Parses BY <2>1 DEF HostInv, LoopShapes, Parses, Waiting
    <2>5. ParseMoves BY <1>1, <2>3, Unawaited DEF QueueMoves
    <2>6. ParseInv' BY <2>1 DEF ParseInv, Waiting
    <2>7. AcksMove BY <1>1, AcksStay DEF link
    <2>8. fault' \in {"none", "drain", "stop"} BY <1>1 DEF HostInv, LoopShapes
    <2> QED BY <1>1, <2>1, <2>3, <2>4, <2>5, <2>6, <2>7, <2>8, LoopKeeps DEF link
  <1> QED BY <1>2, <1>3

LEMMA KeepsRetry ==
  ASSUME HostInv, RetryMetadata \/ RetryFailed
  PROVE  HostInv'
  <1>1. /\ UNCHANGED << device, link, hostActive, hostSession, store, parse, storage, history >>
        /\ fault' \in {fault, "drain"}
    BY DEF RetryMetadata, RetryFailed
  <1>2. QueueMoves
    <2>1. CASE RetryMetadata /\ store # NoStore /\ fault = "none" /\ snap[store].dirty
      <3> DEFINE e == Op("flush", store, 0, "retry")
      <3>1. queue' = Append(queue, e) /\ aborting' = aborting BY <2>1 DEF RetryMetadata
      <3>2. e.op = "flush" /\ e.st = store /\ e.arg = 0 /\ e.waiter = "retry" BY DEF Op
      <3>3. store \in Stores /\ store <= session /\ 0 \in 0 .. Records
        BY <2>1, HostAssumption DEF HostInv, LoopShapes, DeviceShapes, Stores, NoStore
      <3>4. e \in Operations BY <3>3 DEF Op, Operations, Verbs
      <3> HIDE DEF e
      <3>5. NewOp(e) /\ NewWait(e) BY <3>2, <3>3, <3>4 DEF NewOp, NewWait
      <3> QED BY <3>1, <3>2, <3>5, MovesTake
    <2>2. CASE RetryMetadata /\ ~(store # NoStore /\ fault = "none" /\ snap[store].dirty)
      <3>1. queue' = queue /\ aborting' = aborting BY <2>2 DEF RetryMetadata
      <3> QED BY <3>1, MovesStay
    <2>3. CASE RetryFailed
      <3>1. CASE AbortAs(store, "host_online_fault", queue)
        <4>1. "host_online_fault" \in Aborts BY DEF Aborts
        <4> QED BY <3>1, <4>1, MovesAbort
      <3>2. CASE queue' = queue /\ aborting' = aborting BY <3>2, MovesStay
      <3> QED BY <2>3, <3>1, <3>2 DEF RetryFailed
    <2> QED BY <2>1, <2>2, <2>3
  <1>3. parse' \in Parses BY <1>1 DEF HostInv, LoopShapes
  <1>4. ParseMoves BY <1>1 DEF ParseMoves
  <1>5. AcksMove BY <1>1, AcksStay DEF link
  <1>6. ParseInv' BY <1>1 DEF HostInv, ParseInv, SavedRecord, storage
  <1>7. fault' \in {"none", "drain", "stop"} BY <1>1 DEF HostInv, LoopShapes
  <1> QED BY <1>1, <1>2, <1>3, <1>4, <1>5, <1>6, <1>7, LoopKeeps DEF link

LEMMA OpenIsOver ==
  ASSUME HostInv, store \in Stores
  PROVE  Over(store)
  <1>1. store <= session BY DEF HostInv, LoopShapes
  <1>2. ~(store = session /\ wire = << >>) BY <1>1 DEF HostInv, StartInv, Silent
  <1>3. NoStart(store) BY DEF HostInv, StartInv
  <1> QED BY <1>1, <1>2, <1>3 DEF Over

LEMMA KeepsLinkGone ==
  ASSUME HostInv, LinkGone
  PROVE  HostInv'
  <1>1. /\ UNCHANGED << device, storage, history >>
        /\ air' = << >> /\ acks' = << >> /\ ~notice' /\ lost' = (lost \/ phase # "idle")
        /\ ~hostActive' /\ hostSession' = 0 /\ store' = NoStore /\ fault' = "none" /\ parse' = Idle
    BY DEF LinkGone
  <1> DEFINE W == {"parse", "retry"}
             q == Without(W, queue)
             e == Op("abort", store, "host_disconnect", "nobody")
  <1>2. /\ AbortAs(store, "host_disconnect", q) \/ (queue' = q /\ aborting' = aborting)
        /\ queue' = q \/ queue' = Append(q, e)
    BY DEF LinkGone, AbortAs
  <1>3. QueueMoves
    <2>1. "host_disconnect" \in Aborts BY DEF Aborts
    <2>2. CASE AbortAs(store, "host_disconnect", q) BY <2>1, <2>2, MovesAbort
    <2>3. CASE queue' = q /\ aborting' = aborting BY <2>3, MovesStay
    <2> QED BY <1>2, <2>2, <2>3
  <1>4. ParseMoves
    <2>1. queue \in Seq(Operations) BY DEF HostInv, LoopShapes
    <2>2. /\ q \in Seq(Operations) /\ Len(q) = Len(queue)
          /\ \A i \in DOMAIN queue : q[i].waiter # "parse"
      BY <2>1, WithoutKeeps
    <2> HIDE DEF q, e
    <2>3. \A i \in DOMAIN queue : queue'[i] = q[i] BY <1>2, <2>1, <2>2
    <2> QED BY <2>2, <2>3 DEF ParseMoves
  <1>5. ParseInv' /\ parse' \in Parses /\ parse'.frame = NoAir BY <1>1, IdleInv
  <1>6. AirShrinks BY <1>1, AirShrinkings DEF HostInv
  <1>7. LoopStep
    <2>1. \A st \in Stores : store' # st BY <1>1, HostAssumption DEF NoStore, Stores
    <2>2. history \in [closed: SUBSET (1 .. session), broken: SUBSET (0 .. SessionLimit),
                       failed: SUBSET Stores]
      BY DEF HostInv, StorageShapes
    <2> QED BY <1>1, <1>3, <1>5, <1>6, <2>1, <2>2 DEF LoopStep, QueueMoves, storage
  <1>8. acks' \in Seq(AckFrames) /\ DOMAIN acks' = {} BY <1>1
  <1>9. AcksMove BY <1>8 DEF AcksMove
  <1>10. LoopShapes'
    <2>1. 0 \in 0 .. session' BY <1>1 DEF HostInv, DeviceShapes, device
    <2> QED BY <1>1, <1>3, <1>5, <1>6, <1>8, <2>1
      DEF LoopShapes, AirShrinks, QueueMoves, QueueGrows, NoStore
  <1>11. StartInv' BY <1>1, <1>3, <1>7, LoopStart DEF QueueMoves
  <1>12. WaiterInv' BY <1>3, <1>4, <1>7, LoopWaiters DEF QueueMoves
  <1>13. WaitStartInv'
    <2>1. \A st \in Stores : Over(st) => EndHandled(st)'
      BY <1>1, <1>7, GoneStays DEF EndHandled
    <2>2. \A st \in Stores : EndHandled(st) => EndHandled(st)' BY <2>1 DEF EndHandled
    <2>3. \A st \in Stores : parse.pc = "acking" /\ parse.frame.session = st => Over(st)
      BY OpenIsOver DEF HostInv, ParseInv
    <2> QED BY <1>1, <1>7, <1>9, <2>1, <2>2, <2>3, LoopWaitStart
  <1> QED BY <1>5, <1>7, <1>9, <1>10, <1>11, <1>12, <1>13, LoopData, LoopStorage, LoopEnd, LoopAcks
    DEF HostInv

LEMMA KeepsTakeStart ==
  ASSUME HostInv, TakeStart
  PROVE  HostInv'
  <1>0. PICK s \in Stores : s = Head(air).session
    <2>1. Takes("start") BY DEF TakeStart
    <2> QED BY <2>1, Taken DEF AirFrames
  <1> DEFINE b == Op("start", s, 0, "parse")
             a == Op("abort", store, "host_online_fault", "nobody")
  <1>1. Takes("start") BY DEF TakeStart
  <1>2. /\ store' = s /\ hostSession' = s /\ fault' = "none"
        /\ parse' = [pc |-> "starting", frame |-> Head(air), current |-> TRUE, result |-> "none"]
    BY <1>0 DEF TakeStart, Waits
  <1>3. \/ queue' = queue \o << a, b >> /\ aborting' = aborting \cup {store}
           /\ store \notin aborting /\ store # NoStore
        \/ queue' = Append(queue, b) /\ aborting' = aborting
    BY <1>0 DEF TakeStart, StatusOf, Unsettled
  <1>4. /\ b.op = "start" /\ b.st = s /\ b.arg = 0 /\ b.waiter = "parse"
        /\ a.op = "abort" /\ a.st = store /\ a.arg = "host_online_fault" /\ a.waiter = "nobody"
    BY DEF Op
  <1>5. s \in Stores /\ s <= session /\ 0 \in 0 .. Records /\ 1 \in DOMAIN air /\ air[1].kind = "start"
        /\ air[1].session = s /\ Head(air) = air[1]
    BY <1>0, <1>1, Taken, HostAssumption DEF AirFrames
  <1>6. b \in Operations BY <1>5 DEF Op, Operations, Verbs
  <1>7. NewOp(b) BY <1>4, <1>5, <1>6 DEF NewOp
  <1>8. store # NoStore => store \in Stores /\ store <= session /\ a \in Operations
    <2>1. store # NoStore => store \in Stores /\ store <= session
      BY HostAssumption DEF HostInv, LoopShapes, DeviceShapes, Stores, NoStore
    <2> QED BY <2>1 DEF Op, Operations, Verbs, Aborts
  <1>9. store # NoStore /\ store \notin aborting => NewOp(a)
    BY <1>4, <1>8 DEF NewOp, Aborts
  <1>10. ~NoStart(s) BY <1>5 DEF NoStart
  <1>11. Unopened(s) /\ store # s /\ NoOp(s) BY <1>5, <1>10 DEF HostInv, StartInv
  <1> HIDE DEF a, b
  <1>12. /\ queue' \in Seq(Operations)
         /\ \A i \in DOMAIN queue : i \in DOMAIN queue' /\ queue'[i] = queue[i]
         /\ \A i \in DOMAIN queue' : i \notin DOMAIN queue =>
              \/ queue'[i] = b
              \/ queue'[i] = a /\ i = Len(queue) + 1 /\ NewOp(a) /\ aborting' = aborting \cup {store}
         /\ \A i, j \in DOMAIN queue' :
              i \notin DOMAIN queue /\ j \notin DOMAIN queue /\ queue'[i] = b /\ queue'[j] = b => i = j
         /\ \A i \in DOMAIN queue, j \in DOMAIN queue' : j \notin DOMAIN queue => i <= j
         /\ aborting \subseteq aborting' /\ aborting' \subseteq Stores
    <2>1. queue \in Seq(Operations) /\ Len(queue) \in Nat /\ DOMAIN queue = 1 .. Len(queue)
          /\ aborting \subseteq Stores
      BY DEF HostInv, LoopShapes
    <2>2. CASE /\ queue' = queue \o << a, b >> /\ aborting' = aborting \cup {store}
               /\ store \notin aborting /\ store # NoStore
      <3>1. NewOp(a) /\ a # b /\ a \in Operations /\ store \in Stores BY <1>4, <1>8, <1>9, <2>2
      <3>2. << a, b >> \in Seq(Operations) /\ Len(<< a, b >>) = 2
            /\ << a, b >>[1] = a /\ << a, b >>[2] = b
        BY <1>6, <3>1
      <3>3. /\ queue' \in Seq(Operations) /\ Len(queue') = Len(queue) + 2
            /\ \A i \in 1 .. Len(queue) + 2 :
                 queue'[i] = IF i <= Len(queue) THEN queue[i] ELSE << a, b >>[i - Len(queue)]
        BY <2>1, <2>2, <3>2, ConcatProperties
      <3>4. DOMAIN queue' = 1 .. Len(queue) + 2 BY <3>3
      <3>5. \A i \in DOMAIN queue' : i \notin DOMAIN queue => i = Len(queue) + 1 \/ i = Len(queue) + 2
        BY <2>1, <3>4
      <3>6. queue'[Len(queue) + 1] = a /\ queue'[Len(queue) + 2] = b
        <4>1. (Len(queue) + 1) - Len(queue) = 1 /\ (Len(queue) + 2) - Len(queue) = 2 BY <2>1
        <4>2. Len(queue) + 1 \in 1 .. Len(queue) + 2 /\ Len(queue) + 2 \in 1 .. Len(queue) + 2
              /\ ~(Len(queue) + 1 <= Len(queue)) /\ ~(Len(queue) + 2 <= Len(queue))
          BY <2>1
        <4> QED BY <3>2, <3>3, <4>1, <4>2
      <3>7. \A i \in DOMAIN queue : i \in DOMAIN queue' /\ queue'[i] = queue[i] BY <2>1, <3>3, <3>4
      <3>8. \A i \in DOMAIN queue, j \in DOMAIN queue' : j \notin DOMAIN queue => i <= j
        BY <2>1, <3>4
      <3> QED BY <2>1, <2>2, <3>1, <3>3, <3>5, <3>6, <3>7, <3>8
    <2>3. CASE queue' = Append(queue, b) /\ aborting' = aborting
      <3>1. /\ queue' \in Seq(Operations) /\ Len(queue') = Len(queue) + 1
            /\ queue'[Len(queue) + 1] = b /\ \A i \in 1 .. Len(queue) : queue'[i] = queue[i]
        BY <1>6, <2>1, <2>3, AppendProperties
      <3>2. DOMAIN queue' = 1 .. Len(queue) + 1 BY <3>1
      <3>3. \A i \in DOMAIN queue' : i \notin DOMAIN queue => i = Len(queue) + 1 BY <2>1, <3>2
      <3>4. \A i \in DOMAIN queue, j \in DOMAIN queue' : j \notin DOMAIN queue => i <= j
        BY <2>1, <3>2
      <3> QED BY <2>1, <2>3, <3>1, <3>2, <3>3, <3>4
    <2> QED BY <1>3, <2>2, <2>3
  <1>13. QueueGrows
    <2>1. \A i \in DOMAIN queue : SameOp(queue'[i], queue[i]) BY <1>12 DEF SameOp
    <2>2. \A i \in DOMAIN queue' : i \notin DOMAIN queue => NewOp(queue'[i]) BY <1>7, <1>12
    <2> QED BY <1>4, <1>12, <2>1, <2>2 DEF QueueGrows
  <1>14. AirShrinks BY <1>1, Taken, AirShrinkings DEF HostInv
  <1>15. LoopStep
    <2>1. \A i \in DOMAIN queue' : queue'[i].op = "abort" => queue'[i].st \in aborting'
      BY <1>4, <1>12 DEF HostInv, AbortInv
    <2>2. \A st \in Stores : Over(st) => s # st BY <1>10 DEF Over
    <2>3. history \in [closed: SUBSET (1 .. session), broken: SUBSET (0 .. SessionLimit),
                       failed: SUBSET Stores]
      BY DEF HostInv, StorageShapes
    <2>4. \E j \in DOMAIN air : parse'.frame = air[j] BY <1>2, <1>5
    <2>5. UNCHANGED << device, storage, lost, acks, notice, history >> BY <1>1, Taken
    <2> QED BY <1>2, <1>13, <1>14, <2>1, <2>2, <2>3, <2>4, <2>5 DEF LoopStep, storage
  <1>16. parse' \in Parses BY <1>1, <1>2, Taken DEF Parses, Waiting
  <1>17. AcksMove /\ acks' = acks /\ notice' = notice BY <1>1, Taken
  <1>18. LoopShapes'
    <2>1. session' = session BY <1>1, Taken DEF device
    <2>2. s \in 0 .. session BY <1>5 DEF Stores, HostInv, DeviceShapes
    <2> QED BY <1>2, <1>12, <1>14, <1>16, <1>17, <2>1, <2>2
      DEF LoopShapes, AirShrinks, AcksMove
  <1>19. StartInv'
    <2>1. /\ session' = session /\ wire' = wire /\ mem' = mem /\ disk' = disk
          /\ \A st \in Stores : Unopened(st)' = Unopened(st)
      BY <1>15 DEF LoopStep, device, Unopened
    <2>2. \A st \in Stores : NoStart(st) => NoStart(st)' BY <1>14 DEF AirShrinks, NoStart
    <2>3. NoStart(s)'
      <3>1. air \in Seq(AirFrames) /\ air # << >> /\ air' = Tail(air)
        BY <1>1, Taken DEF HostInv, LoopShapes
      <3>2. \A i \in DOMAIN air' : i + 1 \in DOMAIN air /\ air'[i] = air[i + 1] /\ i + 1 # 1
        BY <3>1
      <3> QED BY <1>5, <3>2 DEF NoStart, HostInv, StartInv
    <2>4. \A st \in Stores : NoOp(st) /\ store # st /\ s # st => NoOp(st)'
      <3> SUFFICES ASSUME NEW st \in Stores, NoOp(st), store # st, s # st, NEW i \in DOMAIN queue'
                   PROVE  queue'[i].st # st
        BY DEF NoOp
      <3> QED BY <1>4, <1>12 DEF NoOp
    <2>5. s # session \/ wire # << >>
      BY <1>5, <1>10 DEF HostInv, StartInv, Silent
    <2>6. ASSUME NEW st \in Stores, st > session' \/ (st = session' /\ wire' = << >>)
          PROVE  Silent(st)'
      <3>1. Silent(st) BY <2>1, <2>6 DEF HostInv, StartInv
      <3>2. s # st BY <1>10, <3>1 DEF Silent
      <3> QED BY <1>2, <2>1, <2>2, <2>4, <3>1, <3>2 DEF Silent
    <2>7. ASSUME NEW st \in Stores, ~NoStart(st)'
          PROVE  Unopened(st)' /\ store' # st /\ NoOp(st)'
      <3>1. s # st /\ ~NoStart(st) BY <2>2, <2>3, <2>7
      <3>2. Unopened(st) /\ store # st /\ NoOp(st) BY <3>1 DEF HostInv, StartInv
      <3> QED BY <1>2, <2>1, <2>4, <3>1, <3>2
    <2>8. ASSUME NEW i \in DOMAIN air', NEW j \in DOMAIN air',
                 air'[i].kind = "start", air'[j].kind = "start", air'[i].session = air'[j].session
          PROVE  i = j
      <3>1. PICK d \in Nat : \A k \in DOMAIN air' : k + d \in DOMAIN air /\ air'[k] = air[k + d]
        BY <1>14 DEF AirShrinks
      <3>2. i + d = j + d BY <2>8, <3>1 DEF HostInv, StartInv
      <3>3. i \in Nat /\ j \in Nat BY <1>14 DEF AirShrinks
      <3> QED BY <3>2, <3>3
    <2>9. ASSUME NEW i \in DOMAIN queue', queue'[i].op = "start"
          PROVE  /\ disk'[queue'[i].st] = NoDir /\ mem'[queue'[i].st] = NoMeta
                 /\ \A j \in DOMAIN queue' : queue'[j].st = queue'[i].st => i <= j
      <3>1. CASE i \in DOMAIN queue
        <4>1. queue'[i] = queue[i] BY <1>12, <3>1
        <4>2. queue[i].st # s BY <1>11, <3>1 DEF NoOp
        <4>3. \A j \in DOMAIN queue' : queue'[j].st = queue'[i].st => i <= j
          <5> SUFFICES ASSUME NEW j \in DOMAIN queue', queue'[j].st = queue'[i].st PROVE i <= j
            OBVIOUS
          <5>1. CASE j \in DOMAIN queue
            BY <1>12, <2>9, <3>1, <4>1, <5>1 DEF HostInv, StartInv
          <5>2. CASE j \notin DOMAIN queue BY <1>12, <3>1, <5>2
          <5> QED BY <5>1, <5>2
        <4> QED BY <2>1, <2>9, <3>1, <4>1, <4>3 DEF HostInv, StartInv
      <3>2. CASE i \notin DOMAIN queue
        <4>1. queue'[i] = b BY <1>4, <1>12, <2>9, <3>2
        <4>2. \A j \in DOMAIN queue' : queue'[j].st = s => i = j
          <5> SUFFICES ASSUME NEW j \in DOMAIN queue', queue'[j].st = s PROVE i = j
            OBVIOUS
          <5>1. j \notin DOMAIN queue BY <1>11, <1>12 DEF NoOp
          <5>2. queue'[j] = b BY <1>4, <1>11, <1>12, <5>1
          <5> QED BY <1>12, <3>2, <4>1, <5>1, <5>2
        <4>3. i <= i BY <1>12
        <4> QED BY <1>4, <1>11, <2>1, <4>1, <4>2, <4>3 DEF Unopened
      <3> QED BY <3>1, <3>2
    <2> QED BY <2>6, <2>7, <2>8, <2>9 DEF StartInv
  <1>20. WaiterInv'
    <2>1. \A i \in DOMAIN queue : queue[i].waiter # "parse"
      BY <1>1, Taken DEF HostInv, WaiterInv, Waiting
    <2>2. ParseMoves BY <1>12, <2>1 DEF ParseMoves
    <2>3. NewWait(b) /\ NewWait(a)
      <3>1. parse'.frame.session = s BY <1>0, <1>2
      <3> QED BY <1>2, <1>4, <2>1, <3>1 DEF NewWait, Waiting
    <2>4. \A i \in DOMAIN queue' : i \notin DOMAIN queue => NewWait(queue'[i]) BY <1>12, <2>3
    <2>5. \A i, j \in DOMAIN queue' :
            i \notin DOMAIN queue /\ j \notin DOMAIN queue
              /\ queue'[i].waiter = "parse" /\ queue'[j].waiter = "parse" => i = j
      BY <1>4, <1>12
    <2> QED BY <1>15, <2>2, <2>4, <2>5, LoopWaiters
  <1>21. ParseInv' BY <1>0, <1>1, <1>2, Taken DEF ParseInv, Waiting
  <1>22. WaitStartInv'
    <2>1. \A st \in Stores : EndHandled(st) => EndHandled(st)'
      <3> SUFFICES ASSUME NEW st \in Stores, EndHandled(st) PROVE EndHandled(st)'
        OBVIOUS
      <3>1. Over(st) /\ Over(st)' BY <1>15, GoneStays DEF EndHandled
      <3>2. store' # st BY <1>2, <1>10, <3>1 DEF Over
      <3> QED BY <3>1, <3>2 DEF EndHandled
    <2> QED BY <1>15, <1>17, <2>1, LoopWaitStart
  <1> QED BY <1>15, <1>17, <1>18, <1>19, <1>20, <1>21, <1>22, LoopData, LoopStorage, LoopEnd, LoopAcks
    DEF HostInv

\* Nothing changes but the state of the connection, if that.
LEMMA KeepsUnchanged ==
  ASSUME HostInv,
         UNCHANGED << device, air, acks, notice, lost, loop, parse, queue, storage, history >>
  PROVE  HostInv'
  <1>1. QueueMoves BY MovesStay DEF loop
  <1>2. parse' \in Parses BY DEF HostInv, LoopShapes
  <1>3. ParseMoves BY DEF ParseMoves
  <1>4. AcksMove BY AcksStay
  <1>5. ParseInv' BY DEF HostInv, ParseInv, SavedRecord, storage, loop
  <1>6. fault' \in {"none", "drain", "stop"} BY DEF HostInv, LoopShapes, loop
  <1> QED BY <1>1, <1>2, <1>3, <1>4, <1>5, <1>6, LoopKeeps DEF loop

LEMMA KeepsHostRestarts ==
  ASSUME HostInv, HostRestarts
  PROVE  HostInv'
  <1>1. /\ UNCHANGED << session, phase, committed, backlog, inFlight, wire, history >>
        /\ disk' = [st \in Stores |-> Recovered(disk[st])]
        /\ mem' = [st \in Stores |-> NoMeta] /\ replaced' = FALSE
        /\ air' = << >> /\ acks' = << >> /\ notice' = FALSE /\ lost' = (lost \/ phase # "idle")
        /\ hostActive' = FALSE /\ hostSession' = 0 /\ store' = NoStore /\ fault' = "none"
        /\ aborting' = {} /\ parse' = Idle /\ queue' = << >>
    BY DEF HostRestarts, device
  <1>2. /\ air' \in Seq(AirFrames) /\ DOMAIN air' = {} /\ acks' \in Seq(AckFrames)
        /\ DOMAIN acks' = {} /\ queue' \in Seq(Operations) /\ DOMAIN queue' = {}
    BY <1>1
  <1>3. ASSUME NEW st \in Stores
        PROVE  /\ disk'[st].files = disk[st].files /\ disk'[st].meta.count = disk[st].meta.count
               /\ disk'[st].meta.end = disk[st].meta.end /\ ~disk'[st].meta.dirty
               /\ disk'[st] \in [meta: Metas, files: SUBSET (1 .. Records)]
               /\ disk'[st].meta.status \in Finishing =>
                    disk'[st] = disk[st] /\ disk[st].meta.status \in Finishing
               /\ disk'[st].meta.source = "wait_start" => disk[st].meta.source = "wait_start"
               /\ disk[st] = NoDir => disk'[st] = NoDir
               /\ mem'[st] = NoMeta
    <2>1. disk[st] \in [meta: Metas, files: SUBSET (1 .. Records)] /\ ~disk[st].meta.dirty
      BY DEF HostInv, StorageShapes
    <2>2. disk'[st] = Recovered(disk[st]) /\ mem'[st] = NoMeta BY <1>1
    <2>3. CASE disk[st].meta.status \in Unsettled
      <3>1. disk'[st] = [disk[st] EXCEPT !.meta.status = "aborted", !.meta.source = "host_restart"]
        BY <2>2, <2>3 DEF Recovered
      <3>2. /\ disk'[st] \in [meta: Metas, files: SUBSET (1 .. Records)]
            /\ disk'[st].files = disk[st].files /\ disk'[st].meta.count = disk[st].meta.count
            /\ disk'[st].meta.end = disk[st].meta.end /\ disk'[st].meta.dirty = disk[st].meta.dirty
            /\ disk'[st].meta.status = "aborted" /\ disk'[st].meta.source = "host_restart"
        <4>1. disk'[st].files = disk[st].files
              /\ disk'[st] = [meta |-> disk'[st].meta, files |-> disk[st].files]
          BY <2>1, <3>1
        <4>2. disk'[st].meta = [disk[st].meta EXCEPT !.status = "aborted", !.source = "host_restart"]
          BY <2>1, <3>1
        <4>3. disk[st].meta \in Metas /\ disk[st].files \in SUBSET (1 .. Records) BY <2>1
        <4>4. /\ disk'[st].meta \in Metas
              /\ disk'[st].meta.count = disk[st].meta.count
              /\ disk'[st].meta.end = disk[st].meta.end /\ disk'[st].meta.dirty = disk[st].meta.dirty
              /\ disk'[st].meta.status = "aborted" /\ disk'[st].meta.source = "host_restart"
          BY <4>2, <4>3 DEF Metas, Statuses, Sources
        <4>5. disk'[st] \in [meta: Metas, files: SUBSET (1 .. Records)] BY <4>1, <4>3, <4>4
        <4> QED BY <4>1, <4>4, <4>5
      <3> QED BY <2>1, <2>2, <2>3, <3>2 DEF Finishing, NoDir, NoMeta, Unsettled
    <2>4. CASE disk[st].meta.status \notin Unsettled
      BY <2>1, <2>2, <2>4 DEF Recovered
    <2> QED BY <2>3, <2>4
  <1>4. Idle \in Parses /\ Idle.frame = NoAir /\ Idle.pc = "idle" /\ Idle.result = "none"
        /\ NoMeta \in Metas /\ NoMeta.count = 0 /\ NoMeta.status = "none" /\ NoMeta.source = "none"
    <2>1. 0 \in 0 .. Records /\ 0 \in Nat BY HostAssumption
    <2> QED BY <2>1, ParseTypes DEF NoMeta, Metas, Statuses, Sources
  <1>5. \A st \in Stores : store' # st BY <1>1, HostAssumption DEF NoStore, Stores
  <1>6. ASSUME NEW st \in Stores
        PROVE  /\ Over(st) => Over(st)'
               /\ Silent(st) \/ (st <= session /\ (st = session => wire # << >>))
    <2>1. session \in Nat /\ st \in Nat
      BY HostAssumption DEF Stores, HostInv, DeviceShapes
    <2>2. Silent(st) \/ ~(st > session \/ (st = session /\ wire = << >>))
      BY DEF HostInv, StartInv
    <2> QED BY <1>1, <1>2, <2>1, <2>2 DEF Over, NoStart
  <1>7. ASSUME NEW st \in Stores, ~Silent(st) PROVE Gone(st)'
    <2>1. st <= session /\ (st = session => wire # << >>) BY <1>6, <1>7
    <2> QED BY <1>1, <1>2, <1>5, <2>1 DEF Gone, NoOp, Over, NoStart
  <1>8. ASSUME NEW st \in Stores, Silent(st) PROVE disk'[st] = NoDir
    BY <1>3, <1>8 DEF Silent, Unopened
  <1>9. DeviceShapes' BY <1>1 DEF HostInv, DeviceShapes
  <1>10. LoopShapes'
    <2>1. 0 \in 0 .. session' BY <1>1 DEF HostInv, DeviceShapes
    <2> QED BY <1>1, <1>2, <1>4, <2>1 DEF LoopShapes, NoStore
  <1>11. StorageShapes'
    <2>1. mem' \in [Stores -> Metas] BY <1>1, <1>4
    <2>2. disk' \in [Stores -> [meta: Metas, files: SUBSET (1 .. Records)]]
      <3>1. DOMAIN disk' = Stores /\ disk' = [st \in Stores |-> disk'[st]] BY <1>1
      <3> QED BY <1>3, <3>1
    <2> QED BY <1>1, <1>3, <2>1, <2>2 DEF HostInv, StorageShapes
  <1>12. ArgumentsInv' /\ AbortInv' /\ WaiterInv' /\ AcksInv'
    BY <1>2 DEF ArgumentsInv, AbortInv, WaiterInv, AcksInv
  <1>13. NumbersInv'
    <2>1. session' \in Stores => mem'[session'].count <= committed'
                                 /\ disk'[session'].meta.count <= committed'
                                 /\ disk'[session'].files \subseteq 1 .. committed'
      BY <1>1, <1>3, <1>4 DEF HostInv, NumbersInv, DeviceShapes
    <2>2. parse'.frame.kind # "record" /\ parse'.frame.session <= session'
      BY <1>1, <1>4, HostAssumption DEF NoAir, HostInv, DeviceShapes
    <2>3. /\ \A i \in DOMAIN backlog' : backlog'[i] <= committed'
          /\ phase' = "idle" => backlog' = << >> /\ inFlight' = << >>
      BY <1>1 DEF HostInv, NumbersInv
    <2> QED BY <1>2, <2>1, <2>2, <2>3 DEF NumbersInv
  <1>14. StartInv'
    <2>1. \A st \in Stores : NoStart(st)' BY <1>2 DEF NoStart
    <2>2. ASSUME NEW st \in Stores, st > session' \/ (st = session' /\ wire' = << >>)
          PROVE  Silent(st)'
      <3>1. Silent(st) BY <1>1, <2>2 DEF HostInv, StartInv
      <3>2. disk'[st] = NoDir /\ mem'[st] = NoMeta BY <1>3, <1>8, <3>1
      <3> QED BY <1>2, <1>5, <2>1, <3>2 DEF Silent, NoOp, Unopened
    <2> QED BY <1>2, <2>1, <2>2 DEF StartInv
  <1>15. StorageInv'
    <2> SUFFICES ASSUME NEW st \in Stores, ~Gone(st)'
                 PROVE  /\ disk'[st].meta.count <= mem'[st].count
                        /\ st \notin history'.failed => mem'[st] = disk'[st].meta
                        /\ disk'[st].files \in Files(st)'
      BY <1>1 DEF StorageInv
    <2>1. disk'[st] = NoDir /\ mem'[st] = NoMeta BY <1>3, <1>7, <1>8
    <2>2. /\ disk'[st].files = {} /\ disk'[st].meta = NoMeta /\ mem'[st].count = 0
          /\ disk'[st].meta.count = 0
      BY <2>1 DEF NoDir, NoMeta
    <2>3. 1 .. mem'[st].count = {} BY <2>2
    <2> QED BY <2>1, <2>2, <2>3 DEF Files
  <1>16. ParseInv' BY <1>1, IdleInv
  <1>17. EndInv'
    <2> SUFFICES ASSUME NEW st \in Stores, NEW e \in 0 .. Records, EndKnown(st, e)'
                 PROVE  Complete(st, e)'
      BY DEF EndInv
    <2>1. disk'[st].meta.status \in Finishing /\ disk'[st].meta.end = e
      BY <1>1, <1>2, <1>3, <1>4 DEF EndKnown, NoAir, Finishing
    <2>2. disk'[st] = disk[st] /\ EndKnown(st, e) BY <1>3, <2>1 DEF EndKnown
    <2>3. Complete(st, e) BY <2>2 DEF HostInv, EndInv
    <2>4. ~Silent(st) BY <2>1, <2>2 DEF Silent, Unopened, NoDir, NoMeta, Finishing
    <2>5. parse'.frame.kind # "record" BY <1>1, <1>4 DEF NoAir
    <2> QED BY <1>1, <1>2, <1>7, <2>2, <2>3, <2>4, <2>5 DEF Complete
  <1>18. WaitStartInv'
    <2>1. (notice' => phase' = "idle") /\ (session' \in history'.closed => phase' = "idle")
      BY <1>1 DEF HostInv, WaitStartInv
    <2>2. ASSUME NEW st \in Stores, EndAcked(st)' PROVE Excused(st)' \/ EndHandled(st)'
      <3>1. EndAcked(st) BY <1>1, <1>2, <2>2 DEF EndAcked
      <3>2. Excused(st) \/ EndHandled(st) BY <3>1 DEF HostInv, WaitStartInv
      <3> QED BY <1>1, <1>6, <3>2 DEF Excused, EndHandled
    <2>3. ASSUME NEW st \in Stores, TakenForLost(st)' PROVE NotClosed(st)'
      <3>1. TakenForLost(st) BY <1>2, <1>3, <1>4, <2>3 DEF TakenForLost
      <3>2. NotClosed(st) BY <3>1 DEF HostInv, WaitStartInv
      <3> QED BY <1>1, <3>2 DEF NotClosed, Excused
    <2> QED BY <2>1, <2>2, <2>3 DEF WaitStartInv
  <1>19. RetiredIsSaved'
    <2>1. CASE phase = "idle" BY <1>1, <2>1 DEF RetiredIsSaved
    <2>2. CASE phase # "idle"
      <3>1. CASE session \in Stores
        BY <1>1, <1>3, <3>1 DEF HostInv, RetiredIsSaved, Retired
      <3>2. session \in Stores BY <2>2 DEF HostInv, DeviceShapes
      <3> QED BY <3>1, <3>2
    <2> QED BY <2>1, <2>2
  <1> QED BY <1>9, <1>10, <1>11, <1>12, <1>13, <1>14, <1>15, <1>16, <1>17, <1>18, <1>19 DEF HostInv

-----------------------------------------------------------------------------
(* The steps of the device and of the link.                                  *)

LEMMA WokenStays ==
  ASSUME HostInv, parse' = parse \/ parse' = Woken, UNCHANGED << store, queue, disk >>,
         history'.failed = history.failed
  PROVE  /\ parse' \in Parses /\ parse'.frame = parse.frame /\ ParseInv' /\ WaiterInv'
         /\ FinalEnd(parse) => FinalEnd(parse')
  <1>1. CASE parse' = parse
    <2>1. parse' \in Parses BY <1>1 DEF HostInv, LoopShapes
    <2>2. ParseInv' BY <1>1 DEF HostInv, ParseInv, SavedRecord
    <2>3. WaiterInv' BY <1>1 DEF HostInv, WaiterInv
    <2> QED BY <1>1, <2>1, <2>2, <2>3
  <1>2. CASE parse.pc = "dead" /\ parse' = Idle
    <2>1. parse' \in Parses /\ parse'.frame = NoAir /\ ParseInv' BY <1>2, IdleInv
    <2>2. parse.frame = NoAir BY <1>2 DEF HostInv, ParseInv
    <2>3. WaiterInv' BY <1>2 DEF HostInv, WaiterInv, Waiting
    <2>4. ~FinalEnd(parse) BY <1>2 DEF FinalEnd
    <2> QED BY <2>1, <2>2, <2>3, <2>4
  <1> QED BY <1>1, <1>2 DEF Woken

LEMMA LinkKeeps ==
  ASSUME HostInv, UNCHANGED << loop, queue, storage >>, parse' = parse \/ parse' = Woken,
         DeviceShapes', air' \in Seq(AirFrames), acks' \in Seq(AckFrames), session <= session',
         history'.failed = history.failed, history'.broken = history.broken,
         history' \in [closed: SUBSET (1 .. session'), broken: SUBSET (0 .. SessionLimit),
                       failed: SUBSET Stores],
         \A i \in DOMAIN acks' : \E j \in DOMAIN acks : acks'[i] = acks[j],
         NumbersInv', StartInv', RetiredIsSaved',
         \A st \in Stores : (Over(st) => Over(st)') /\ (Gone(st) => Gone(st)'),
         \A st \in Stores, e \in 0 .. Records : EndKnown(st, e)' => Complete(st, e)',
         notice' => phase' = "idle", session' \in history'.closed => phase' = "idle",
         \A st \in Stores : st \in history'.closed => EndAcked(st),
         \A st \in Stores : TakenForLost(st) => NotClosed(st)'
  PROVE  HostInv'
  <1>1. UNCHANGED << hostActive, hostSession, store, fault, retry, aborting, queue, replaced, mem, disk >>
    BY DEF loop, storage
  <1>2. parse' \in Parses /\ parse'.frame = parse.frame /\ ParseInv' /\ WaiterInv'
        /\ (FinalEnd(parse) => FinalEnd(parse'))
    BY <1>1, WokenStays
  <1>3. LoopShapes'
    BY <1>1, <1>2, HostAssumption DEF HostInv, LoopShapes, DeviceShapes
  <1>4. StorageShapes' BY <1>1 DEF HostInv, StorageShapes
  <1>5. ArgumentsInv'
    <2>1. session \in Nat /\ session' \in Nat BY HostAssumption DEF HostInv, DeviceShapes
    <2>2. \A i \in DOMAIN queue : queue[i].st \in Nat
      BY QueueTypes DEF HostInv, Operations, Stores
    <2>3. \A i \in DOMAIN queue : queue[i].st <= session BY DEF HostInv, ArgumentsInv
    <2>4. \A i \in DOMAIN queue : queue[i].st <= session' BY <2>1, <2>2, <2>3
    <2> QED BY <1>1, <2>4 DEF HostInv, ArgumentsInv
  <1>6. AbortInv' BY <1>1 DEF HostInv, AbortInv
  <1>7. AcksInv'
    <2> SUFFICES ASSUME NEW i \in DOMAIN acks', acks'[i].n # 0
                 PROVE  SavedRecord(acks'[i].session, acks'[i].n)
      BY <1>1 DEF AcksInv, SavedRecord
    <2> QED BY DEF HostInv, AcksInv
  <1>8. StorageInv'
    <2>1. replaced' => /\ queue' # << >> /\ First'.op = "save" /\ First'.arg = mem'[First'.st].count + 1
                       /\ First'.arg \in disk'[First'.st].files
      BY <1>1 DEF HostInv, StorageInv, First
    <2>2. ASSUME NEW st \in Stores, ~Gone(st)'
          PROVE  /\ disk'[st].meta.count <= mem'[st].count
                 /\ st \notin history'.failed => mem'[st] = disk'[st].meta
                 /\ disk'[st].files \in Files(st)'
      <3>1. ~Gone(st) BY <2>2
      <3> QED BY <1>1, <3>1 DEF HostInv, StorageInv, First, Files
    <2> QED BY <2>1, <2>2 DEF StorageInv
  <1>9. EndInv' BY DEF EndInv
  <1>10. WaitStartInv'
    <2>1. ASSUME NEW st \in Stores, EndAcked(st)' PROVE Excused(st)' \/ EndHandled(st)'
      <3>1. EndAcked(st) BY <2>1 DEF EndAcked
      <3>2. Excused(st) \/ EndHandled(st) BY <3>1 DEF HostInv, WaitStartInv
      <3>3. FinalEnd(parse') => FinalEnd(parse)' BY DEF FinalEnd
      <3> QED BY <1>1, <1>2, <3>2, <3>3 DEF EndHandled, Excused
    <2>2. ASSUME NEW st \in Stores, TakenForLost(st)' PROVE NotClosed(st)'
      <3>1. TakenForLost(st) BY <1>1, <2>2 DEF TakenForLost
      <3> QED BY <3>1
    <2> QED BY <2>1, <2>2 DEF WaitStartInv
  <1> QED BY <1>2, <1>3, <1>4, <1>5, <1>6, <1>7, <1>8, <1>9, <1>10 DEF HostInv

\* Nothing changes in the air, the queue and the storage.
LEMMA QuietEnd ==
  ASSUME HostInv, UNCHANGED << loop, queue, storage, air, parse >>,
         NEW st \in Stores, NEW e \in 0 .. Records, EndKnown(st, e)'
  PROVE  Complete(st, e)
  <1>1. EndKnown(st, e) BY DEF EndKnown, storage
  <1> QED BY <1>1 DEF HostInv, EndInv

LEMMA KeepsDeviceOpens ==
  ASSUME HostInv, DeviceOpens
  PROVE  HostInv'
  <1>1. /\ phase = "idle" /\ session < SessionLimit /\ ~notice
        /\ session' = session + 1 /\ phase' = "open" /\ committed' = 0 /\ wire' = << >>
        /\ UNCHANGED << backlog, inFlight >>
        /\ lost' = FALSE
        /\ UNCHANGED << air, acks, notice, loop, parse, queue, storage, history >>
    BY DEF DeviceOpens, Open
  <1>2. session \in Nat /\ session' \in Stores /\ session' \in 0 .. SessionLimit
        /\ backlog = << >> /\ inFlight = << >>
    BY <1>1, HostAssumption DEF HostInv, DeviceShapes, Stores, NumbersInv
  <1>3. DeviceShapes'
    <2>1. 0 \in 0 .. Records /\ wire' \in Seq(WireFrames) BY <1>1, HostAssumption
    <2> QED BY <1>1, <1>2, <2>1 DEF HostInv, DeviceShapes
  <1>4. \A st \in Stores : st \in Nat BY DEF Stores
  <1>5. Silent(session') BY <1>1, <1>2 DEF HostInv, StartInv
  <1>6. UNCHANGED << store, mem, disk, hostActive >> BY <1>1 DEF loop, storage
  <1>7. NumbersInv'
    <2>1. \A i \in DOMAIN air : air[i].session <= session /\ air[i].session \in Nat
      BY <1>4, AirTypes DEF HostInv, NumbersInv, AirFrames
    <2>2. /\ \A i \in DOMAIN air' : air'[i].session <= session'
          /\ \A i \in DOMAIN air' : air'[i].kind = "record" =>
               air'[i].n >= 1 /\ (air'[i].session = session' => air'[i].n <= committed')
      BY <1>1, <1>2, <2>1 DEF HostInv, NumbersInv
    <2>3. parse'.frame.session <= session' /\ (parse'.frame.kind = "record" =>
            parse'.frame.n >= 1 /\ (parse'.frame.session = session' => parse'.frame.n <= committed'))
      <3>1. parse.frame.session <= session /\ parse.frame.session \in Nat
        <4>1. parse.frame \in AirFrames \cup {NoAir} BY DEF HostInv, LoopShapes, Parses
        <4>2. parse.frame.session \in Nat BY <1>4, <4>1 DEF AirFrames, NoAir
        <4> QED BY <4>2 DEF HostInv, NumbersInv
      <3> QED BY <1>1, <1>2, <3>1 DEF HostInv, NumbersInv
    <2>4. \A i \in DOMAIN queue' :
            queue'[i].op = "save" /\ queue'[i].st = session' => queue'[i].arg <= committed'
      BY <1>1, <1>5 DEF Silent, NoOp
    <2>5. /\ mem'[session'].count <= committed' /\ disk'[session'].meta.count <= committed'
          /\ disk'[session'].files \subseteq 1 .. committed'
      BY <1>1, <1>5, <1>6 DEF Silent, Unopened, NoDir, NoMeta
    <2>6. \A i \in DOMAIN backlog' : backlog'[i] <= committed'
      <3>1. DOMAIN backlog' = {} BY <1>1, <1>2
      <3> QED BY <3>1
    <2> QED BY <1>1, <2>2, <2>3, <2>4, <2>5, <2>6 DEF NumbersInv
  <1>8. \A st \in Stores : (Unopened(st)' = Unopened(st)) /\ (NoStart(st)' = NoStart(st))
                           /\ (NoOp(st)' = NoOp(st)) /\ (Silent(st)' = Silent(st))
    BY <1>1, <1>6 DEF Unopened, NoStart, NoOp, Silent
  <1>9. StartInv'
    <2>1. ASSUME NEW st \in Stores, st > session' \/ (st = session' /\ wire' = << >>)
          PROVE  Silent(st)'
      <3>1. st > session BY <1>1, <1>2, <1>4, <2>1
      <3> QED BY <1>8, <3>1 DEF HostInv, StartInv
    <2>2. \A st \in Stores : ~NoStart(st)' => Unopened(st)' /\ store' # st /\ NoOp(st)'
      BY <1>6, <1>8 DEF HostInv, StartInv
    <2> QED BY <1>1, <1>6, <2>1, <2>2 DEF HostInv, StartInv
  <1>10. ASSUME NEW st \in Stores, st <= session PROVE st <= session' /\ st # session'
    BY <1>1, <1>2, <1>4, <1>10
  <1>11. \A st \in Stores : (Over(st) => Over(st)') /\ (Gone(st) => Gone(st)')
    BY <1>6, <1>8, <1>10 DEF Over, Gone
  <1>12. ASSUME NEW st \in Stores, NEW e \in 0 .. Records, EndKnown(st, e)'
         PROVE  Complete(st, e)'
    <2>1. Complete(st, e) BY <1>1, <1>12, QuietEnd
    <2>2. st <= session' /\ st # session' BY <1>10, <2>1 DEF Complete
    <2> QED BY <1>1, <1>6, <1>11, <2>1, <2>2 DEF Complete
  <1>13. RetiredIsSaved'
    <2>1. 1 .. committed' = {} BY <1>1
    <2> QED BY <2>1 DEF RetiredIsSaved, Retired
  <1>14. history' = history /\ history.closed \subseteq 1 .. session
         /\ history \in [closed: SUBSET (1 .. session), broken: SUBSET (0 .. SessionLimit),
                         failed: SUBSET Stores]
    BY <1>1 DEF HostInv, StorageShapes
  <1>15. session' \notin history'.closed
         /\ history' \in [closed: SUBSET (1 .. session'), broken: SUBSET (0 .. SessionLimit),
                          failed: SUBSET Stores]
    <2>1. session' \notin 1 .. session /\ 1 .. session \subseteq 1 .. session' BY <1>1, <1>2
    <2> QED BY <1>14, <2>1
  <1>16. ASSUME NEW st \in Stores, TakenForLost(st) PROVE NotClosed(st)'
    <2>1. NotClosed(st) BY <1>16 DEF HostInv, WaitStartInv
    <2>2. st # session' BY <1>5, <1>16 DEF Silent, NoOp, Unopened, TakenForLost, NoDir, NoMeta
    <2> QED BY <1>14, <2>1, <2>2 DEF NotClosed, Excused
  <1>17. air' \in Seq(AirFrames) /\ acks' \in Seq(AckFrames) BY <1>1 DEF HostInv, LoopShapes
  <1>18. session <= session' BY <1>1, <1>2
  <1>19. \A st \in Stores : st \in history'.closed => EndAcked(st) BY <1>14 DEF EndAcked
  <1> QED BY <1>1, <1>3, <1>7, <1>9, <1>11, <1>12, <1>13, <1>14, <1>15, <1>16, <1>17, <1>18, <1>19,
             LinkKeeps

\* The session of the device goes on, or ends; the air and the storage do not change.
LEMMA KeepsSession ==
  ASSUME HostInv, UNCHANGED << session, wire, loop, parse, queue, storage, air, lost >>,
         DeviceShapes', acks' \in Seq(AckFrames),
         \A i \in DOMAIN acks' : \E j \in DOMAIN acks : acks'[i] = acks[j],
         committed <= committed', \A i \in DOMAIN backlog' : backlog'[i] <= committed',
         phase' = "idle" => backlog' = << >> /\ inFlight' = << >>,
         RetiredIsSaved',
         phase # "open" => phase' # "open", phase = "idle" => phase' = "idle",
         phase' = "ended" \/ session \in history'.closed =>
           committed' = committed /\ (phase = "ended" \/ session \in history.closed),
         notice' => phase' = "idle", session \in history'.closed => phase' = "idle",
         history' = history \/ /\ phase # "idle" /\ EndAcked(session)
                               /\ history' = [history EXCEPT !.closed = @ \cup {session}]
  PROVE  HostInv'
  <1>1. UNCHANGED << hostActive, hostSession, store, fault, retry, aborting, queue, replaced, mem, disk >>
    BY DEF loop, storage
  <1>2. /\ history \in [closed: SUBSET (1 .. session), broken: SUBSET (0 .. SessionLimit),
                       failed: SUBSET Stores]
        /\ session \in Nat /\ committed \in Nat /\ committed' \in Nat
        /\ phase = "idle" \/ session \in 1 .. session
    BY HostAssumption DEF HostInv, StorageShapes, DeviceShapes, Stores
  <1>3. /\ history' \in [closed: SUBSET (1 .. session'), broken: SUBSET (0 .. SessionLimit),
                         failed: SUBSET Stores]
        /\ history'.failed = history.failed /\ history'.broken = history.broken
        /\ history'.closed \in {history.closed, history.closed \cup {session}}
        /\ history'.closed # history.closed => phase # "idle" /\ EndAcked(session)
    <2>1. CASE history' = history BY <1>2, <2>1
    <2>2. CASE /\ phase # "idle" /\ EndAcked(session)
               /\ history' = [history EXCEPT !.closed = @ \cup {session}]
      BY <1>2, <2>2
    <2> QED BY <2>1, <2>2
  <1>4. \A st \in Stores : (Unopened(st)' = Unopened(st)) /\ (NoStart(st)' = NoStart(st))
                           /\ (NoOp(st)' = NoOp(st)) /\ (Silent(st)' = Silent(st))
    BY <1>1 DEF Unopened, NoStart, NoOp, Silent
  <1>5. StartInv' BY <1>1, <1>4 DEF HostInv, StartInv
  <1>6. \A st \in Stores : (Over(st) => Over(st)') /\ (Gone(st) => Gone(st)')
    BY <1>1, <1>4 DEF Over, Gone
  <1>7. NumbersInv'
    <2>1. /\ \A i \in DOMAIN air' : air'[i].session <= session'
          /\ \A i \in DOMAIN air' : air'[i].kind = "record" =>
               air'[i].n >= 1 /\ (air'[i].session = session' => air'[i].n <= committed')
      <3>1. \A i \in DOMAIN air : air[i].n \in Nat
        BY AirTypes, HostAssumption DEF HostInv, AirFrames
      <3> QED BY <1>2, <3>1 DEF HostInv, NumbersInv
    <2>2. parse'.frame.session <= session' /\ (parse'.frame.kind = "record" =>
            parse'.frame.n >= 1 /\ (parse'.frame.session = session' => parse'.frame.n <= committed'))
      <3>1. parse.frame \in AirFrames \cup {NoAir} BY DEF HostInv, LoopShapes, Parses
      <3>2. parse.frame.n \in Nat BY <3>1, HostAssumption DEF AirFrames, NoAir
      <3> QED BY <1>2, <3>2 DEF HostInv, NumbersInv
    <2>3. \A i \in DOMAIN queue' :
            queue'[i].op = "save" /\ queue'[i].st = session' => queue'[i].arg <= committed'
      <3>1. \A i \in DOMAIN queue : queue[i].op = "save" => queue[i].arg \in Nat
        BY HostAssumption DEF HostInv, ArgumentsInv
      <3> QED BY <1>2, <3>1 DEF HostInv, NumbersInv
    <2>4. session' \in Stores => mem'[session'].count <= committed'
                                 /\ disk'[session'].meta.count <= committed'
                                 /\ disk'[session'].files \subseteq 1 .. committed'
      <3>1. session \in Stores => mem[session].count \in Nat /\ disk[session].meta.count \in Nat
        BY DEF HostInv, StorageShapes, Metas
      <3> QED BY <1>1, <1>2, <3>1 DEF HostInv, NumbersInv
    <2> QED BY <2>1, <2>2, <2>3, <2>4 DEF NumbersInv
  <1>8. ASSUME NEW st \in Stores, NEW e \in 0 .. Records, EndKnown(st, e)' PROVE Complete(st, e)'
    <2>1. Complete(st, e) BY <1>8, QuietEnd
    <2> QED BY <1>1, <1>3, <1>6, <2>1 DEF Complete
  <1>9. ASSUME NEW st \in Stores, TakenForLost(st) PROVE NotClosed(st)'
    <2>1. NotClosed(st) BY <1>9 DEF HostInv, WaitStartInv
    <2> QED BY <1>3, <2>1 DEF NotClosed, Excused
  <1>10. \A st \in Stores : st \in history'.closed => EndAcked(st) BY <1>3 DEF EndAcked
  <1>11. air' \in Seq(AirFrames) BY DEF HostInv, LoopShapes
  <1> QED BY <1>2, <1>3, <1>5, <1>6, <1>7, <1>8, <1>9, <1>10, <1>11, LinkKeeps

LEMMA MemberOfAppend ==
  ASSUME NEW S, NEW s \in Seq(S), NEW e \in S
  PROVE  ToSet(s) \subseteq ToSet(Append(s, e)) /\ e \in ToSet(Append(s, e))
  <1>1. /\ Append(s, e) \in Seq(S) /\ Len(Append(s, e)) = Len(s) + 1
        /\ Append(s, e)[Len(s) + 1] = e /\ \A i \in 1 .. Len(s) : Append(s, e)[i] = s[i]
    BY AppendProperties
  <1>2. DOMAIN s = 1 .. Len(s) /\ DOMAIN Append(s, e) = 1 .. Len(s) + 1 /\ Len(s) \in Nat
    BY <1>1
  <1>3. \A i \in DOMAIN s : i \in DOMAIN Append(s, e) /\ Append(s, e)[i] = s[i] BY <1>1, <1>2
  <1>4. Len(s) + 1 \in DOMAIN Append(s, e) BY <1>2
  <1> QED BY <1>1, <1>3, <1>4 DEF ToSet

LEMMA MemberOfTail ==
  ASSUME NEW S, NEW s \in Seq(S), s # << >>
  PROVE  /\ ToSet(s) \subseteq {Head(s)} \cup ToSet(Tail(s))
         /\ ToSet(Tail(s)) \subseteq ToSet(s)
         /\ Head(s) \in S /\ Head(s) = s[1] /\ 1 \in DOMAIN s
         /\ Tail(s) \in Seq(S)
         /\ \A i \in DOMAIN Tail(s) : i + 1 \in DOMAIN s /\ Tail(s)[i] = s[i + 1]
  <1>1. /\ Tail(s) \in Seq(S) /\ Len(Tail(s)) = Len(s) - 1 /\ Head(s) = s[1] /\ Head(s) \in S
        /\ \A i \in 1 .. Len(s) - 1 : Tail(s)[i] = s[i + 1]
    OBVIOUS
  <1>2. DOMAIN s = 1 .. Len(s) /\ Len(s) \in Nat /\ Len(s) > 0 /\ DOMAIN Tail(s) = 1 .. Len(s) - 1
    BY <1>1
  <1>3. \A i \in DOMAIN Tail(s) : i + 1 \in DOMAIN s /\ Tail(s)[i] = s[i + 1] BY <1>1, <1>2
  <1>4. ASSUME NEW i \in DOMAIN s PROVE s[i] \in {Head(s)} \cup ToSet(Tail(s))
    <2>1. CASE i = 1 BY <1>1, <2>1
    <2>2. CASE i # 1
      <3>1. i - 1 \in DOMAIN Tail(s) /\ (i - 1) + 1 = i BY <1>2, <2>2
      <3>2. Tail(s)[i - 1] = s[i] BY <1>3, <3>1
      <3> QED BY <3>1, <3>2 DEF ToSet
    <2> QED BY <2>1, <2>2
  <1> QED BY <1>1, <1>2, <1>3, <1>4 DEF ToSet

LEMMA KeepsDeviceWorks ==
  ASSUME HostInv, DeviceWorks
  PROVE  HostInv'
  <1>1. UNCHANGED << link, loop, parse, queue, storage, history >> BY DEF DeviceWorks
  <1>2. acks' \in Seq(AckFrames) /\ \A i \in DOMAIN acks' : \E j \in DOMAIN acks : acks'[i] = acks[j]
    BY <1>1 DEF HostInv, LoopShapes, link
  <1>3. session \in history.closed => phase = "idle" BY DEF HostInv, WaitStartInv
  <1>4. notice' => phase = "idle" BY <1>1 DEF HostInv, WaitStartInv, link
  <1>5. CASE Commit
    <2>1. /\ phase \in {"open", "aborting"} /\ committed < Records /\ committed' = committed + 1
          /\ backlog' = Append(backlog, committed + 1)
          /\ UNCHANGED << inFlight, session, phase, wire >>
      BY <1>5 DEF Commit, Log!CommitRecord
    <2>2. /\ committed + 1 \in 1 .. Records /\ committed \in Nat
          /\ backlog \in Seq(1 .. Records)
      BY <2>1, HostAssumption DEF HostInv, DeviceShapes
    <2>3. /\ backlog' \in Seq(1 .. Records) /\ Len(backlog') = Len(backlog) + 1
          /\ backlog'[Len(backlog) + 1] = committed + 1
          /\ \A i \in 1 .. Len(backlog) : backlog'[i] = backlog[i]
      BY <2>1, <2>2, AppendProperties
    <2>4. DeviceShapes' BY <2>1, <2>2, <2>3 DEF HostInv, DeviceShapes
    <2>5. \A i \in DOMAIN backlog' : backlog'[i] <= committed'
      <3> SUFFICES ASSUME NEW i \in DOMAIN backlog' PROVE backlog'[i] <= committed'
        OBVIOUS
      <3>1. CASE i \in DOMAIN backlog
        <4>1. backlog[i] <= committed /\ backlog[i] \in Nat
          <5>1. i \in 1 .. Len(backlog) BY <2>2, <3>1
          <5>2. backlog[i] \in 1 .. Records BY <2>2, <5>1, ElementOfSeq
          <5> QED BY <3>1, <5>2 DEF HostInv, NumbersInv
        <4>2. backlog'[i] = backlog[i] BY <2>2, <2>3, <3>1
        <4> QED BY <2>1, <2>2, <4>1, <4>2
      <3>2. CASE i \notin DOMAIN backlog
        <4>1. i = Len(backlog) + 1 BY <2>2, <2>3, <3>2
        <4> QED BY <2>1, <2>2, <2>3, <4>1
      <3> QED BY <3>1, <3>2
    <2>6. RetiredIsSaved'
      <3>1. ToSet(backlog) \subseteq ToSet(backlog') /\ committed + 1 \in ToSet(backlog')
        BY <2>1, <2>2, MemberOfAppend
      <3>2. \A n \in 1 .. committed' : n \in 1 .. committed \/ n = committed + 1
        BY <2>1, <2>2
      <3>3. Retired' \subseteq Retired BY <2>1, <3>1, <3>2 DEF Retired
      <3> QED BY <1>1, <2>1, <3>3 DEF HostInv, RetiredIsSaved, storage
    <2>7. committed <= committed' BY <2>1, <2>2
    <2> QED BY <1>1, <1>2, <1>3, <1>4, <2>1, <2>4, <2>5, <2>6, <2>7, KeepsSession DEF link
  <1>6. CASE Fail
    <2>1. /\ phase \in {"open", "ended"} /\ phase' = "aborting"
          /\ UNCHANGED << session, committed, backlog, inFlight, wire >>
      BY <1>6 DEF Fail
    <2>2. DeviceShapes' BY <2>1 DEF HostInv, DeviceShapes
    <2>3. RetiredIsSaved' BY <1>1, <2>1 DEF HostInv, RetiredIsSaved, Retired, storage
    <2>4. \A i \in DOMAIN backlog' : backlog'[i] <= committed' BY <2>1 DEF HostInv, NumbersInv
    <2>5. committed <= committed' BY <2>1, HostAssumption DEF HostInv, DeviceShapes
    <2> QED BY <1>1, <1>2, <1>3, <1>4, <2>1, <2>2, <2>3, <2>4, <2>5, KeepsSession DEF link
  <1> QED BY <1>5, <1>6 DEF DeviceWorks

LEMMA KeepsDeviceAborted ==
  ASSUME HostInv, DeviceAborted
  PROVE  HostInv'
  <1>1. /\ phase = "aborting" /\ phase' = "idle" /\ backlog' = << >> /\ inFlight' = << >>
        /\ UNCHANGED << session, committed, wire >>
        /\ UNCHANGED << air, acks, lost, loop, parse, queue, storage, history >>
    BY DEF DeviceAborted, Close, Log!DropAll
  <1>2. acks' \in Seq(AckFrames) /\ \A i \in DOMAIN acks' : \E j \in DOMAIN acks : acks'[i] = acks[j]
    BY <1>1 DEF HostInv, LoopShapes
  <1>3. session \notin history.closed BY <1>1 DEF HostInv, WaitStartInv
  <1>4. DeviceShapes' BY <1>1 DEF HostInv, DeviceShapes
  <1>5. RetiredIsSaved' BY <1>1 DEF RetiredIsSaved
  <1>6. committed <= committed' BY <1>1, HostAssumption DEF HostInv, DeviceShapes
  <1>7. DOMAIN backlog' = {} BY <1>1
  <1> QED BY <1>1, <1>2, <1>3, <1>4, <1>5, <1>6, <1>7, KeepsSession

LEMMA KeepsAckArrives ==
  ASSUME HostInv, AckArrives
  PROVE  HostInv'
  <1> DEFINE ack == Head(acks)
  <1>1. /\ acks # << >> /\ acks' = Tail(acks)
        /\ UNCHANGED << air, lost, loop, parse, queue, storage >>
    BY DEF AckArrives
  <1>2. /\ acks' \in Seq(AckFrames) /\ \A i \in DOMAIN acks' : \E j \in DOMAIN acks : acks'[i] = acks[j]
        /\ ack = acks[1] /\ 1 \in DOMAIN acks
    BY <1>1, MemberOfTail DEF HostInv, LoopShapes
  <1>3. \/ /\ AckIsMine(ack) /\ phase \in {"open", "aborting"} /\ IsOldest(ack) /\ AckRecord
           /\ UNCHANGED << notice, history >>
        \/ /\ AckIsMine(ack) /\ phase = "ended" /\ ack.n = 0 /\ Close /\ notice' = TRUE
           /\ history' = [history EXCEPT !.closed = @ \cup {session}]
        \/ UNCHANGED << device, notice, history >>
    BY DEF AckArrives
  <1> HIDE DEF ack
  <1>4. session \in history.closed => phase = "idle" BY DEF HostInv, WaitStartInv
  <1>5. notice => phase = "idle" BY DEF HostInv, WaitStartInv
  <1>6. committed \in Nat BY HostAssumption DEF HostInv, DeviceShapes
  <1>7. CASE /\ AckIsMine(ack) /\ phase \in {"open", "aborting"} /\ IsOldest(ack) /\ AckRecord
             /\ UNCHANGED << notice, history >>
    <2>1. /\ inFlight # << >> /\ inFlight' = Tail(inFlight) /\ ack.n # 0 /\ Head(inFlight) = ack.n
          /\ ack.session = session
          /\ UNCHANGED << backlog, session, phase, committed, wire >>
      BY <1>7 DEF AckRecord, Log!AckOldest, IsOldest, AckIsMine
    <2>2. inFlight \in Seq(1 .. Records) BY DEF HostInv, DeviceShapes
    <2>3. inFlight' \in Seq(1 .. Records) /\ ToSet(inFlight) \subseteq {ack.n} \cup ToSet(inFlight')
      BY <2>1, <2>2, MemberOfTail
    <2>4. DeviceShapes' BY <2>1, <2>3 DEF HostInv, DeviceShapes
    <2>5. SavedRecord(session, ack.n) BY <1>2, <2>1 DEF HostInv, AcksInv
    <2>6. RetiredIsSaved'
      <3>1. Retired' \subseteq Retired \cup {ack.n} BY <2>1, <2>3 DEF Retired
      <3> QED BY <1>1, <2>1, <2>5, <3>1 DEF HostInv, RetiredIsSaved, SavedRecord, storage
    <2>7. \A i \in DOMAIN backlog' : backlog'[i] <= committed' BY <2>1 DEF HostInv, NumbersInv
    <2> QED BY <1>1, <1>2, <1>4, <1>5, <1>6, <1>7, <2>1, <2>4, <2>6, <2>7, KeepsSession
  <1>8. CASE /\ AckIsMine(ack) /\ phase = "ended" /\ ack.n = 0 /\ Close /\ notice' = TRUE
             /\ history' = [history EXCEPT !.closed = @ \cup {session}]
    <2>1. /\ phase' = "idle" /\ backlog' = << >> /\ inFlight' = << >> /\ ack.session = session
          /\ UNCHANGED << session, committed, wire >>
      BY <1>8 DEF Close, Log!DropAll, AckIsMine
    <2>2. DeviceShapes' BY <2>1 DEF HostInv, DeviceShapes
    <2>3. RetiredIsSaved' BY <2>1 DEF RetiredIsSaved
    <2>4. DOMAIN backlog' = {} BY <2>1
    <2>5. EndAcked(session) BY <1>2, <1>8, <2>1 DEF EndAcked
    <2>6. \A i \in DOMAIN backlog' : backlog'[i] <= committed' BY <2>4
    <2> QED BY <1>1, <1>2, <1>6, <1>8, <2>1, <2>2, <2>3, <2>5, <2>6, KeepsSession
  <1>9. CASE UNCHANGED << device, notice, history >>
    <2>1. UNCHANGED << session, phase, committed, backlog, inFlight, wire >> BY <1>9 DEF device
    <2>2. DeviceShapes' BY <2>1 DEF HostInv, DeviceShapes
    <2>3. RetiredIsSaved' BY <1>1, <2>1 DEF HostInv, RetiredIsSaved, Retired, storage
    <2>4. /\ \A i \in DOMAIN backlog' : backlog'[i] <= committed'
          /\ phase' = "idle" => backlog' = << >> /\ inFlight' = << >>
      BY <2>1 DEF HostInv, NumbersInv
    <2>5. phase' = "ended" \/ session \in history'.closed =>
            committed' = committed /\ (phase = "ended" \/ session \in history.closed)
      BY <1>9, <2>1
    <2> QED BY <1>1, <1>2, <1>4, <1>5, <1>6, <1>9, <2>1, <2>2, <2>3, <2>4, <2>5, KeepsSession
  <1> QED BY <1>3, <1>7, <1>8, <1>9

\* A frame of the session goes to the air.
LEMMA NotifyKeeps ==
  ASSUME HostInv, NEW F \in AirFrames, air' = Append(air, F), F.session = session,
         UNCHANGED << session, committed, acks, notice, lost, loop, queue, storage, history >>,
         parse' = Woken, DeviceShapes', phase # "idle", phase' # "idle", wire' # << >>,
         F.kind = "start" => wire = << >>,
         F.kind = "record" => F.n \in 1 .. committed
           /\ \A e \in 0 .. Records : ~Complete(session, e),
         F.kind = "end" => F.n = committed /\ Complete(session, committed)',
         \A e \in 0 .. Records : Complete(session, e) =>
           /\ phase' # "open" /\ Last(wire').kind \in {"end", "abort"}
           /\ phase' = "ended" => committed = e,
         \A i \in DOMAIN backlog' : backlog'[i] <= committed,
         RetiredIsSaved'
  PROVE  HostInv'
  <1>1. UNCHANGED << hostActive, hostSession, store, fault, retry, aborting, queue, replaced, mem, disk >>
    BY DEF loop, storage
  <1>2. /\ air \in Seq(AirFrames) /\ air' \in Seq(AirFrames) /\ Len(air) \in Nat
        /\ DOMAIN air = 1 .. Len(air) /\ DOMAIN air' = 1 .. Len(air) + 1
        /\ air'[Len(air) + 1] = F /\ \A i \in DOMAIN air : air'[i] = air[i]
    <2>1. air \in Seq(AirFrames) BY DEF HostInv, LoopShapes
    <2>2. /\ air' \in Seq(AirFrames) /\ Len(air') = Len(air) + 1 /\ air'[Len(air) + 1] = F
          /\ \A i \in 1 .. Len(air) : air'[i] = air[i]
      BY <2>1, AppendProperties
    <2> QED BY <2>1, <2>2
  <1>3. \A i \in DOMAIN air' : (i \in DOMAIN air /\ air'[i] = air[i])
                               \/ (i \notin DOMAIN air /\ i = Len(air) + 1 /\ air'[i] = F)
    BY <1>2
  <1>4. session \in Stores /\ session \in Nat /\ committed \in 0 .. Records
    BY HostAssumption DEF HostInv, DeviceShapes, Stores
  <1>5. session \notin history.closed /\ ~notice BY DEF HostInv, WaitStartInv
  <1>6. parse'.frame = parse.frame BY <1>1, WokenStays
  <1>7. NumbersInv'
    <2>1. /\ \A i \in DOMAIN air' : air'[i].session <= session'
          /\ \A i \in DOMAIN air' : air'[i].kind = "record" =>
               air'[i].n >= 1 /\ (air'[i].session = session' => air'[i].n <= committed')
      BY <1>3, <1>4 DEF HostInv, NumbersInv
    <2>2. /\ parse'.frame.session <= session' /\ (parse'.frame.kind = "record" =>
               parse'.frame.n >= 1 /\ (parse'.frame.session = session' => parse'.frame.n <= committed'))
          /\ \A i \in DOMAIN queue' :
               queue'[i].op = "save" /\ queue'[i].st = session' => queue'[i].arg <= committed'
          /\ session' \in Stores => mem'[session'].count <= committed'
                                    /\ disk'[session'].meta.count <= committed'
                                    /\ disk'[session'].files \subseteq 1 .. committed'
      BY <1>1, <1>6 DEF HostInv, NumbersInv
    <2> QED BY <2>1, <2>2 DEF NumbersInv
  <1>8. \A st \in Stores : (Unopened(st)' = Unopened(st)) /\ (NoOp(st)' = NoOp(st))
    BY <1>1 DEF Unopened, NoOp
  <1>9. \A st \in Stores : NoStart(st) /\ (st = session => F.kind # "start") => NoStart(st)'
    BY <1>3 DEF NoStart
  <1>10. ASSUME NEW st \in Stores PROVE (Over(st) => Over(st)') /\ (Gone(st) => Gone(st)')
    <2>1. Over(st) => Over(st)' BY <1>9 DEF Over
    <2> QED BY <1>1, <1>8, <2>1 DEF Gone
  <1>11. F.kind = "start" => Silent(session) BY <1>4 DEF HostInv, StartInv
  <1>12. StartInv'
    <2>1. ASSUME NEW st \in Stores, st > session' \/ (st = session' /\ wire' = << >>)
          PROVE  Silent(st)'
      <3>1. Silent(st) /\ st # session BY <1>4, <2>1 DEF HostInv, StartInv
      <3> QED BY <1>1, <1>8, <1>9, <3>1 DEF Silent
    <2>2. ASSUME NEW st \in Stores, ~NoStart(st)'
          PROVE  Unopened(st)' /\ store' # st /\ NoOp(st)'
      <3>1. CASE NoStart(st)
        <4>1. st = session /\ F.kind = "start" BY <1>9, <2>2, <3>1
        <4> QED BY <1>1, <1>8, <1>11, <4>1 DEF Silent
      <3>2. CASE ~NoStart(st) BY <1>1, <1>8, <3>2 DEF HostInv, StartInv
      <3> QED BY <3>1, <3>2
    <2>3. ASSUME NEW i \in DOMAIN air', NEW j \in DOMAIN air',
                 air'[i].kind = "start", air'[j].kind = "start", air'[i].session = air'[j].session
          PROVE  i = j
      <3>1. CASE i \in DOMAIN air /\ j \in DOMAIN air
        BY <1>3, <2>3, <3>1 DEF HostInv, StartInv
      <3>2. CASE i \notin DOMAIN air /\ j \notin DOMAIN air BY <1>3, <3>2
      <3>3. CASE i \in DOMAIN air /\ j \notin DOMAIN air
        <4>1. air'[i] = air[i] /\ air'[j] = F BY <1>3, <3>3
        <4>2. ~NoStart(session) BY <2>3, <3>3, <4>1 DEF NoStart
        <4> QED BY <1>11, <2>3, <4>1, <4>2 DEF Silent
      <3>4. CASE i \notin DOMAIN air /\ j \in DOMAIN air
        <4>1. air'[j] = air[j] /\ air'[i] = F BY <1>3, <3>4
        <4>2. ~NoStart(session) BY <2>3, <3>4, <4>1 DEF NoStart
        <4> QED BY <1>11, <2>3, <4>1, <4>2 DEF Silent
      <3> QED BY <3>1, <3>2, <3>3, <3>4
    <2>4. \A i \in DOMAIN queue' : queue'[i].op = "start" =>
            /\ disk'[queue'[i].st] = NoDir /\ mem'[queue'[i].st] = NoMeta
            /\ \A j \in DOMAIN queue' : queue'[j].st = queue'[i].st => i <= j
      BY <1>1 DEF HostInv, StartInv
    <2> QED BY <2>1, <2>2, <2>3, <2>4 DEF StartInv
  <1>13. ASSUME NEW st \in Stores, NEW e \in 0 .. Records, Complete(st, e) PROVE Complete(st, e)'
    <2>1. mem'[st].count = e \/ Gone(st)' BY <1>1, <1>10, <1>13 DEF Complete
    <2>2. \A i \in DOMAIN air' : air'[i].kind = "record" /\ air'[i].session = st => air'[i].n <= e
      <3> SUFFICES ASSUME NEW i \in DOMAIN air', air'[i].kind = "record" /\ air'[i].session = st
                   PROVE  air'[i].n <= e
        OBVIOUS
      <3>1. CASE i \in DOMAIN air BY <1>3, <1>13, <3>1 DEF Complete
      <3>2. CASE i \notin DOMAIN air BY <1>3, <1>13, <3>2
      <3> QED BY <3>1, <3>2
    <2>3. st = session' =>
            /\ phase' # "open" /\ wire' # << >> /\ Last(wire').kind \in {"end", "abort"}
            /\ phase' = "ended" \/ st \in history'.closed => committed' = e
      BY <1>5, <1>13
    <2>4. Last(wire)' = Last(wire') BY DEF Last
    <2> QED BY <1>1, <1>6, <1>13, <2>1, <2>2, <2>3, <2>4 DEF Complete
  <1>14. ASSUME NEW st \in Stores, NEW e \in 0 .. Records, EndKnown(st, e)' PROVE Complete(st, e)'
    <2>1. CASE EndKnown(st, e) BY <1>13, <2>1 DEF HostInv, EndInv
    <2>2. CASE ~EndKnown(st, e)
      <3>1. PICK i \in DOMAIN air' : air'[i].kind = "end" /\ air'[i].session = st /\ air'[i].n = e
        BY <1>1, <1>6, <1>14, <2>2 DEF EndKnown
      <3>2. air'[i] = F BY <1>3, <2>2, <3>1 DEF EndKnown
      <3>3. st = session /\ e = committed /\ Complete(session, committed)' BY <3>1, <3>2
      <3>4. session' = session /\ committed' = committed OBVIOUS
      <3> QED BY <3>3, <3>4 DEF Complete, Gone, NoOp, Over, NoStart
    <2> QED BY <2>1, <2>2
  <1>15. ASSUME NEW st \in Stores, TakenForLost(st) PROVE NotClosed(st)'
    <2>1. NotClosed(st) BY <1>15 DEF HostInv, WaitStartInv
    <2> QED BY <2>1 DEF NotClosed, Excused
  <1>16. acks' \in Seq(AckFrames) /\ \A i \in DOMAIN acks' : \E j \in DOMAIN acks : acks'[i] = acks[j]
    BY DEF HostInv, LoopShapes
  <1>17. history' \in [closed: SUBSET (1 .. session'), broken: SUBSET (0 .. SessionLimit),
                       failed: SUBSET Stores]
    BY DEF HostInv, StorageShapes
  <1>18. \A st \in Stores : st \in history'.closed => EndAcked(st) BY DEF EndAcked
  <1>19. UNCHANGED << loop, queue, storage >> /\ (parse' = parse \/ parse' = Woken) OBVIOUS
  <1>20. /\ session <= session' /\ history'.failed = history.failed /\ history'.broken = history.broken
         /\ (notice' => phase' = "idle") /\ (session' \in history'.closed => phase' = "idle")
    BY <1>4, <1>5
  <1>21. \A st \in Stores : (Over(st) => Over(st)') /\ (Gone(st) => Gone(st)') BY <1>10
  <1>22. \A st \in Stores, e \in 0 .. Records : EndKnown(st, e)' => Complete(st, e)' BY <1>14
  <1>23. \A st \in Stores : TakenForLost(st) => NotClosed(st)' BY <1>15
  <1> QED BY <1>2, <1>7, <1>12, <1>16, <1>17, <1>18, <1>19, <1>20, <1>21, <1>22, <1>23, LinkKeeps

LEMMA LastOfAppend ==
  ASSUME NEW S, NEW s \in Seq(S), NEW e \in S
  PROVE  /\ Append(s, e) \in Seq(S) /\ Append(s, e) # << >> /\ Last(Append(s, e)) = e
         /\ Put(s, e) # << >> /\ Last(Put(s, e)) = e /\ Put(s, e) \in Seq(S)
  <1>1. /\ Append(s, e) \in Seq(S) /\ Len(Append(s, e)) = Len(s) + 1
        /\ Append(s, e)[Len(s) + 1] = e
    BY AppendProperties
  <1>2. Append(s, e) # << >> /\ Last(Append(s, e)) = e BY <1>1 DEF Last
  <1> QED BY <1>1, <1>2 DEF Put

LEMMA NextFragmentFacts ==
  ASSUME HostInv, backlog # << >>, wire # << >>
  PROVE  /\ NextFragment \in WireFrames /\ NextFragment.kind = "record"
         /\ NextFragment.n = Head(backlog) /\ NextFragment.n \in 1 .. committed
         /\ backlog \in Seq(1 .. Records) /\ Head(backlog) \in 1 .. Records
  <1>1. backlog \in Seq(1 .. Records) /\ wire \in Seq(WireFrames) BY DEF HostInv, DeviceShapes
  <1>2. Head(backlog) \in 1 .. Records /\ Head(backlog) = backlog[1] /\ 1 \in DOMAIN backlog
    BY <1>1, MemberOfTail
  <1>3. Head(backlog) <= committed BY <1>2 DEF HostInv, NumbersInv
  <1>4. Last(wire) \in WireFrames BY <1>1 DEF Last
  <1>5. Last(wire).f \in Nat BY <1>4 DEF WireFrames
  <1>6. NextFragment = Frame("record", Head(backlog), IF Last(wire).n = Head(backlog)
                                                      THEN Last(wire).f + 1 ELSE 1)
    BY DEF NextFragment
  <1>7. /\ NextFragment.kind = "record" /\ NextFragment.n = Head(backlog)
        /\ NextFragment = [kind |-> "record", n |-> Head(backlog),
                           f |-> IF Last(wire).n = Head(backlog) THEN Last(wire).f + 1 ELSE 1]
    BY <1>6 DEF Frame
  <1>8. Head(backlog) \in 0 .. Records BY <1>2
  <1>9. NextFragment \in WireFrames BY <1>5, <1>7, <1>8 DEF WireFrames, Kinds
  <1>10. committed \in Nat BY HostAssumption DEF HostInv, DeviceShapes
  <1> QED BY <1>1, <1>2, <1>3, <1>7, <1>9, <1>10

LEMMA OnAirFacts ==
  ASSUME HostInv, phase # "idle", NEW frame \in WireFrames
  PROVE  /\ OnAir(frame) \in AirFrames /\ OnAir(frame).session = session
         /\ OnAir(frame).kind = frame.kind
         /\ frame.kind = "end" => OnAir(frame).n = committed
         /\ frame.kind # "end" => OnAir(frame).n = frame.n
  BY DEF OnAir, WireFrames, AirFrames, HostInv, DeviceShapes

LEMMA NotifyFrames ==
  /\ StartFrame \in WireFrames /\ StartFrame.kind = "start"
  /\ EndFrame \in WireFrames /\ EndFrame.kind = "end"
  /\ AbortFrame \in WireFrames /\ AbortFrame.kind = "abort"
  <1>1. 0 \in 0 .. Records /\ 0 \in Nat BY HostAssumption
  <1> QED BY <1>1 DEF StartFrame, EndFrame, AbortFrame, Frame, WireFrames, Kinds

LEMMA KeepsStartSent ==
  ASSUME HostInv, Notify(SendStart, StartFrame)
  PROVE  HostInv'
  <1>1. /\ air' = Append(air, OnAir(StartFrame)) /\ parse' = Woken
        /\ UNCHANGED << acks, notice, lost, loop, queue, storage, history >>
        /\ phase \in {"open", "aborting"} /\ wire = << >> /\ wire' = << StartFrame >>
        /\ UNCHANGED << session, phase, committed, backlog, inFlight >>
    BY DEF Notify, SendStart
  <1>2. OnAir(StartFrame) \in AirFrames /\ OnAir(StartFrame).session = session
        /\ OnAir(StartFrame).kind = "start"
    BY <1>1, NotifyFrames, OnAirFacts
  <1>3. wire' \in Seq(WireFrames) /\ wire' # << >> BY <1>1, NotifyFrames
  <1>4. DeviceShapes' BY <1>1, <1>3 DEF HostInv, DeviceShapes
  <1>5. RetiredIsSaved' BY <1>1 DEF HostInv, RetiredIsSaved, Retired, storage
  <1>6. \A e \in 0 .. Records : ~Complete(session, e) BY <1>1 DEF Complete
  <1>7. \A i \in DOMAIN backlog' : backlog'[i] <= committed BY <1>1 DEF HostInv, NumbersInv
  <1> QED BY <1>1, <1>2, <1>3, <1>4, <1>5, <1>6, <1>7, NotifyKeeps

LEMMA KeepsFragmentSent ==
  ASSUME HostInv, Notify(SendFragment, NextFragment) \/ Notify(Straggler, NextFragment)
  PROVE  HostInv'
  <1>1. /\ air' = Append(air, OnAir(NextFragment)) /\ parse' = Woken
        /\ UNCHANGED << acks, notice, lost, loop, queue, storage, history >>
        /\ phase \in {"open", "aborting"} /\ wire # << >> /\ backlog # << >>
        /\ phase = "aborting" => Last(wire).kind \in {"start", "record"}
        /\ wire' = Append(wire, NextFragment)
        /\ UNCHANGED << session, phase, committed >>
        /\ \/ UNCHANGED << backlog, inFlight >>
           \/ inFlight' = Append(inFlight, Head(backlog)) /\ backlog' = Tail(backlog)
    BY DEF Notify, SendFragment, Straggler, Log!SendOldest
  <1>2. /\ NextFragment \in WireFrames /\ NextFragment.kind = "record"
        /\ NextFragment.n \in 1 .. committed
        /\ backlog \in Seq(1 .. Records) /\ Head(backlog) \in 1 .. Records
    BY <1>1, NextFragmentFacts
  <1>3. OnAir(NextFragment) \in AirFrames /\ OnAir(NextFragment).session = session
        /\ OnAir(NextFragment).kind = "record" /\ OnAir(NextFragment).n = NextFragment.n
    BY <1>1, <1>2, OnAirFacts
  <1>4. wire' \in Seq(WireFrames) /\ wire' # << >>
    BY <1>1, <1>2, LastOfAppend DEF HostInv, DeviceShapes
  <1>5. inFlight \in Seq(1 .. Records) BY DEF HostInv, DeviceShapes
  <1>6. /\ backlog' \in Seq(1 .. Records) /\ inFlight' \in Seq(1 .. Records)
        /\ ToSet(backlog) \cup ToSet(inFlight) \subseteq ToSet(backlog') \cup ToSet(inFlight')
        /\ \A i \in DOMAIN backlog' : \E j \in DOMAIN backlog : backlog'[i] = backlog[j]
    <2>1. CASE UNCHANGED << backlog, inFlight >> BY <1>2, <1>5, <2>1
    <2>2. CASE inFlight' = Append(inFlight, Head(backlog)) /\ backlog' = Tail(backlog)
      <3>1. inFlight' \in Seq(1 .. Records) BY <1>2, <1>5, <2>2, LastOfAppend
      <3>2. ToSet(inFlight) \subseteq ToSet(inFlight') /\ Head(backlog) \in ToSet(inFlight')
        BY <1>2, <1>5, <2>2, MemberOfAppend
      <3>3. /\ backlog' \in Seq(1 .. Records)
            /\ ToSet(backlog) \subseteq {Head(backlog)} \cup ToSet(backlog')
            /\ \A i \in DOMAIN backlog' : i + 1 \in DOMAIN backlog /\ backlog'[i] = backlog[i + 1]
        BY <1>1, <1>2, <2>2, MemberOfTail
      <3> QED BY <3>1, <3>2, <3>3
    <2> QED BY <1>1, <2>1, <2>2
  <1>7. DeviceShapes' BY <1>1, <1>4, <1>6 DEF HostInv, DeviceShapes
  <1>8. RetiredIsSaved'
    <2>1. Retired' \subseteq Retired BY <1>1, <1>6 DEF Retired
    <2> QED BY <1>1, <2>1 DEF HostInv, RetiredIsSaved, storage
  <1>9. \A e \in 0 .. Records : ~Complete(session, e) BY <1>1 DEF Complete
  <1>10. \A i \in DOMAIN backlog' : backlog'[i] <= committed BY <1>6 DEF HostInv, NumbersInv
  <1> QED BY <1>1, <1>2, <1>3, <1>4, <1>7, <1>8, <1>9, <1>10, NotifyKeeps

LEMMA KeepsAbortSent ==
  ASSUME HostInv, Notify(SendAbort, AbortFrame)
  PROVE  HostInv'
  <1>1. /\ air' = Append(air, OnAir(AbortFrame)) /\ parse' = Woken
        /\ UNCHANGED << acks, notice, lost, loop, queue, storage, history >>
        /\ phase = "aborting" /\ wire' = Put(wire, AbortFrame)
        /\ UNCHANGED << session, phase, committed, backlog, inFlight >>
    BY DEF Notify, SendAbort
  <1>2. OnAir(AbortFrame) \in AirFrames /\ OnAir(AbortFrame).session = session
        /\ OnAir(AbortFrame).kind = "abort"
    BY <1>1, NotifyFrames, OnAirFacts
  <1>3. wire' \in Seq(WireFrames) /\ wire' # << >> /\ Last(wire').kind = "abort"
    <2>1. wire \in Seq(WireFrames) BY DEF HostInv, DeviceShapes
    <2>2. AbortFrame \in WireFrames /\ AbortFrame.kind = "abort" BY NotifyFrames
    <2>3. /\ Put(wire, AbortFrame) # << >> /\ Put(wire, AbortFrame) \in Seq(WireFrames)
          /\ Last(Put(wire, AbortFrame)) = AbortFrame
      BY <2>1, <2>2, LastOfAppend
    <2>4. wire' = Put(wire, AbortFrame) BY <1>1
    <2>5. Last(wire') = AbortFrame BY <2>3, <2>4
    <2> QED BY <2>2, <2>3, <2>4, <2>5
  <1>4. DeviceShapes' BY <1>1, <1>3 DEF HostInv, DeviceShapes
  <1>5. RetiredIsSaved' BY <1>1 DEF HostInv, RetiredIsSaved, Retired, storage
  <1>6. \A i \in DOMAIN backlog' : backlog'[i] <= committed BY <1>1 DEF HostInv, NumbersInv
  <1> QED BY <1>1, <1>2, <1>3, <1>4, <1>5, <1>6, NotifyKeeps

LEMMA KeepsEndSent ==
  ASSUME HostInv, Notify(SendEnd, EndFrame)
  PROVE  HostInv'
  <1>1. /\ air' = Append(air, OnAir(EndFrame)) /\ parse' = Woken /\ ~lost
        /\ UNCHANGED << acks, notice, lost, loop, queue, storage, history >>
        /\ phase \in {"open", "ended"} /\ phase' = "ended" /\ wire' = Put(wire, EndFrame)
        /\ backlog = << >> /\ inFlight = << >> /\ wire # << >>
        /\ UNCHANGED << session, committed, backlog, inFlight >>
    BY DEF Notify, SendEnd
  <1>2. OnAir(EndFrame) \in AirFrames /\ OnAir(EndFrame).session = session
        /\ OnAir(EndFrame).kind = "end" /\ OnAir(EndFrame).n = committed
    BY <1>1, NotifyFrames, OnAirFacts
  <1>3. wire' \in Seq(WireFrames) /\ wire' # << >> /\ Last(wire').kind = "end"
    <2>1. wire \in Seq(WireFrames) BY DEF HostInv, DeviceShapes
    <2>2. EndFrame \in WireFrames /\ EndFrame.kind = "end" BY NotifyFrames
    <2>3. /\ Put(wire, EndFrame) # << >> /\ Put(wire, EndFrame) \in Seq(WireFrames)
          /\ Last(Put(wire, EndFrame)) = EndFrame
      BY <2>1, <2>2, LastOfAppend
    <2>4. wire' = Put(wire, EndFrame) BY <1>1
    <2>5. Last(wire') = EndFrame BY <2>3, <2>4
    <2> QED BY <2>2, <2>3, <2>4, <2>5
  <1>4. DeviceShapes' BY <1>1, <1>3 DEF HostInv, DeviceShapes
  <1>5. RetiredIsSaved' BY <1>1 DEF HostInv, RetiredIsSaved, Retired, storage
  <1>6. \A i \in DOMAIN backlog' : backlog'[i] <= committed BY <1>1 DEF HostInv, NumbersInv
  <1>7. \A e \in 0 .. Records : Complete(session, e) => committed = e
    BY <1>1 DEF Complete
  <1>8. session \in Stores /\ committed \in Nat BY <1>1, HostAssumption DEF HostInv, DeviceShapes
  <1>9. /\ mem[session].count = committed /\ disk[session].meta.count = committed
        /\ disk[session].files = 1 .. committed
    <2>1. /\ mem[session].count \in Nat /\ disk[session].meta.count \in Nat
          /\ mem[session].count <= committed /\ disk[session].meta.count <= committed
      BY <1>8 DEF HostInv, StorageShapes, Metas, NumbersInv
    <2>2. ToSet(backlog) = {} /\ ToSet(inFlight) = {} BY <1>1 DEF ToSet
    <2>3. Retired = 1 .. committed BY <2>2 DEF Retired
    <2>4. \A n \in 1 .. committed : n \in disk[session].files /\ n <= disk[session].meta.count
      BY <1>1, <2>3 DEF HostInv, RetiredIsSaved
    <2>5. disk[session].meta.count = committed
      <3>1. CASE committed = 0 BY <2>1, <3>1
      <3>2. CASE committed # 0
        <4>1. committed \in 1 .. committed BY <1>8, <3>2
        <4>2. committed <= disk[session].meta.count BY <2>4, <4>1
        <4> QED BY <1>8, <2>1, <4>2
      <3> QED BY <3>1, <3>2
    <2>6. ~Gone(session) BY <1>1 DEF Gone
    <2>7. disk[session].meta.count <= mem[session].count BY <1>8, <2>6 DEF HostInv, StorageInv
    <2>8. mem[session].count = committed BY <1>8, <2>1, <2>5, <2>7
    <2>9. disk[session].files \subseteq 1 .. committed BY <1>8 DEF HostInv, NumbersInv
    <2> QED BY <2>4, <2>5, <2>8, <2>9
  <1>10. Complete(session, committed)'
    <2>1. mem' = mem /\ disk' = disk /\ queue' = queue BY <1>1 DEF storage
    <2>2. parse'.frame = parse.frame BY <1>1, WokenStays DEF loop, storage
    <2>3. \A i \in DOMAIN air' : air'[i].kind = "record" => i \in DOMAIN air /\ air'[i] = air[i]
      <3>1. air \in Seq(AirFrames) BY DEF HostInv, LoopShapes
      <3>2. /\ Len(air') = Len(air) + 1 /\ air'[Len(air) + 1] = OnAir(EndFrame)
            /\ \A i \in 1 .. Len(air) : air'[i] = air[i] /\ air' \in Seq(AirFrames)
        BY <1>1, <1>2, <3>1, AppendProperties
      <3>3. \A i \in DOMAIN air' : i \in 1 .. Len(air) \/ i = Len(air) + 1
        <4>1. air' \in Seq(AirFrames) BY <1>1, <1>2, <3>1, AppendProperties
        <4> QED BY <3>1, <3>2, <4>1
      <3> QED BY <1>2, <3>1, <3>2, <3>3
    <2>4. \A i \in DOMAIN air' : air'[i].kind = "record" /\ air'[i].session = session => air'[i].n <= committed
      BY <2>3 DEF HostInv, NumbersInv
    <2>5. parse.frame.kind = "record" /\ parse.frame.session = session => parse.frame.n <= committed
      BY DEF HostInv, NumbersInv
    <2>6. \A i \in DOMAIN queue : queue[i].op = "save" /\ queue[i].st = session => queue[i].arg <= committed
      BY DEF HostInv, NumbersInv
    <2>7. session <= session BY HostAssumption DEF HostInv, DeviceShapes
    <2>8. Last(wire)' = Last(wire') BY DEF Last
    <2> QED BY <1>1, <1>3, <1>9, <2>1, <2>2, <2>4, <2>5, <2>6, <2>7, <2>8 DEF Complete
  <1> QED BY <1>1, <1>2, <1>3, <1>4, <1>5, <1>6, <1>7, <1>10, NotifyKeeps

-----------------------------------------------------------------------------
(* The steps of the storage thread.                                          *)

\* The operation o, the first of the queue, ends with meta in memory; o and
\* meta are values, so that they mean the same before and after the step.
EndsAs(o, result, meta) ==
  /\ queue # << >> /\ o = First /\ Ends(o, result, meta)
  /\ meta \in Metas /\ result \in {"ok", "error"}
  /\ \/ disk' = disk /\ (result = "ok" => meta = mem[o.st])
     \/ disk' = [disk EXCEPT ![o.st].meta = meta] /\ ~meta.dirty
  /\ \/ o.op = "save" /\ replaced /\ meta.count = mem[o.st].count + 1
     \/ meta.count = mem[o.st].count /\ (replaced => result = "error")
  /\ o.op = "save" /\ result = "ok" => replaced /\ disk'[o.st].meta = meta
  /\ meta.status \in Finishing => Complete(o.st, meta.end)
  /\ meta.source = "wait_start" => NotClosed(o.st)

LEMMA FirstOperation ==
  ASSUME HostInv, queue # << >>
  PROVE  /\ First \in Operations /\ First = queue[1] /\ 1 \in DOMAIN queue
         /\ Tail(queue) \in Seq(Operations)
         /\ \A i \in DOMAIN Tail(queue) : /\ i \in Nat /\ i + 1 \in DOMAIN queue /\ i + 1 # 1
                                          /\ Tail(queue)[i] = queue[i + 1]
         /\ First.st \in Stores /\ ~NoOp(First.st) /\ Over(First.st)
         /\ \A st \in Stores : NoOp(st) => First.st # st
  <1>1. queue \in Seq(Operations) BY DEF HostInv, LoopShapes
  <1>2. /\ First \in Operations /\ First = queue[1] /\ 1 \in DOMAIN queue
        /\ Tail(queue) \in Seq(Operations)
        /\ \A i \in DOMAIN Tail(queue) : i + 1 \in DOMAIN queue /\ Tail(queue)[i] = queue[i + 1]
    BY <1>1, MemberOfTail DEF First
  <1>3. \A i \in DOMAIN Tail(queue) : i \in Nat /\ i + 1 # 1
    <2>1. DOMAIN Tail(queue) = 1 .. Len(Tail(queue)) BY <1>2
    <2> QED BY <2>1
  <1>4. First.st \in Stores BY <1>2 DEF Operations
  <1>5. \A st \in Stores : NoOp(st) => First.st # st BY <1>2 DEF NoOp
  <1>6. NoStart(First.st) BY <1>4, <1>5 DEF HostInv, StartInv
  <1>7. ~(First.st > session \/ (First.st = session /\ wire = << >>))
    BY <1>4, <1>5 DEF HostInv, StartInv, Silent
  <1>8. First.st \in Nat /\ session \in Nat
    BY <1>4, HostAssumption DEF Stores, HostInv, DeviceShapes
  <1> QED BY <1>2, <1>3, <1>4, <1>5, <1>6, <1>7, <1>8 DEF Over

\* What the end of an operation leaves of the shapes, of the other stores and
\* of what was known.
LEMMA EndsBasics ==
  ASSUME HostInv, NEW o, NEW meta, NEW result, EndsAs(o, result, meta)
  PROVE  /\ o \in Operations /\ o.st \in Stores /\ ~Gone(o.st) /\ o = First
         /\ queue' = Tail(queue) /\ queue' \in Seq(Operations)
         /\ \A i \in DOMAIN queue' : /\ i \in Nat /\ i + 1 \in DOMAIN queue /\ i + 1 # 1
                                     /\ queue'[i] = queue[i + 1]
         /\ \A st \in Stores : st # o.st => mem'[st] = mem[st] /\ disk'[st] = disk[st]
         /\ mem'[o.st] = meta
         /\ disk'[o.st].files = disk[o.st].files
         /\ disk' = disk \/ disk'[o.st].meta = meta
         /\ result = "ok" => (disk' = disk /\ meta = mem[o.st]) \/ disk'[o.st].meta = meta
         /\ mem' \in [Stores -> Metas]
         /\ disk' \in [Stores -> [meta: Metas, files: SUBSET (1 .. Records)]]
         /\ \A st \in Stores : ~disk'[st].meta.dirty
  <1>1. /\ o \in Operations /\ o.st \in Stores /\ ~NoOp(o.st) /\ o = First
        /\ Tail(queue) \in Seq(Operations)
        /\ \A i \in DOMAIN Tail(queue) : /\ i \in Nat /\ i + 1 \in DOMAIN queue /\ i + 1 # 1
                                         /\ Tail(queue)[i] = queue[i + 1]
    BY FirstOperation DEF EndsAs
  <1>2. queue' = Tail(queue) /\ mem' = [mem EXCEPT ![o.st] = meta] BY DEF EndsAs, Ends
  <1>3. /\ mem \in [Stores -> Metas] /\ meta \in Metas
        /\ disk \in [Stores -> [meta: Metas, files: SUBSET (1 .. Records)]]
        /\ \A st \in Stores : ~disk[st].meta.dirty
    BY DEF HostInv, StorageShapes, EndsAs
  <1>4. /\ mem' \in [Stores -> Metas] /\ mem'[o.st] = meta
        /\ \A st \in Stores : st # o.st => mem'[st] = mem[st]
    BY <1>1, <1>2, <1>3
  <1>5. ~Gone(o.st) BY <1>1 DEF Gone
  <1>6. /\ \A st \in Stores : st # o.st => disk'[st] = disk[st]
        /\ disk'[o.st].files = disk[o.st].files
        /\ disk' = disk \/ disk'[o.st].meta = meta
        /\ result = "ok" => (disk' = disk /\ meta = mem[o.st]) \/ disk'[o.st].meta = meta
        /\ disk' \in [Stores -> [meta: Metas, files: SUBSET (1 .. Records)]]
        /\ \A st \in Stores : ~disk'[st].meta.dirty
    <2>1. CASE disk' = disk /\ (result = "ok" => meta = mem[o.st]) BY <1>3, <2>1
    <2>2. CASE disk' = [disk EXCEPT ![o.st].meta = meta] /\ ~meta.dirty
      <3>1. disk[o.st] \in [meta: Metas, files: SUBSET (1 .. Records)] BY <1>1, <1>3
      <3>2. /\ disk'[o.st] = [disk[o.st] EXCEPT !.meta = meta]
            /\ DOMAIN disk' = Stores
            /\ \A st \in Stores : st # o.st => disk'[st] = disk[st]
        BY <1>1, <1>3, <2>2
      <3>3. /\ disk'[o.st].meta = meta /\ disk'[o.st].files = disk[o.st].files
            /\ disk'[o.st] \in [meta: Metas, files: SUBSET (1 .. Records)]
        BY <1>3, <3>1, <3>2
      <3>4. \A st \in Stores : disk'[st] \in [meta: Metas, files: SUBSET (1 .. Records)]
        BY <1>3, <3>2, <3>3
      <3>5. disk' \in [Stores -> [meta: Metas, files: SUBSET (1 .. Records)]]
        <4>1. disk' = [st \in Stores |-> disk'[st]] BY <2>2, <1>3
        <4> QED BY <3>4, <4>1
      <3>6. \A st \in Stores : ~disk'[st].meta.dirty BY <1>3, <2>2, <3>2, <3>3
      <3> QED BY <3>2, <3>3, <3>5, <3>6
    <2> QED BY <2>1, <2>2 DEF EndsAs
  <1> QED BY <1>1, <1>2, <1>4, <1>5, <1>6

\* What is in a directory stays, and what the parse worker and the event loop
\* know of the sessions does not change.
LEMMA EndsKnows ==
  ASSUME HostInv, NEW o, NEW meta, NEW result, EndsAs(o, result, meta)
  PROVE  /\ \A st \in Stores, n \in Nat : SavedRecord(st, n) => SavedRecord(st, n)'
         /\ \A st \in Stores : Over(st)' = Over(st) /\ (Gone(st) => Gone(st)')
         /\ \A st \in Stores : NoOp(st) => NoOp(st)'
         /\ parse'.pc = parse.pc /\ parse'.frame = parse.frame /\ parse'.current = parse.current
         /\ parse' \in Parses
         /\ parse' = parse \/ (o.waiter = "parse" /\ parse'.result = result)
         /\ history' \in [closed: SUBSET (1 .. session), broken: SUBSET (0 .. SessionLimit),
                          failed: SUBSET Stores]
         /\ history'.closed = history.closed /\ history'.broken = history.broken
         /\ history.failed \subseteq history'.failed
         /\ result = "ok" => history' = history
         /\ result = "error" => o.st \in history'.failed
         /\ UNCHANGED << device, link, hostActive, hostSession, store, fault, aborting >>
         /\ replaced' = FALSE
  <1>1. /\ UNCHANGED << device, link, hostActive, hostSession, store, fault, aborting >>
        /\ replaced' = FALSE
        /\ parse' = IF o.waiter = "parse" THEN [parse EXCEPT !.result = result] ELSE parse
        /\ history' = IF result = "ok" THEN history ELSE [history EXCEPT !.failed = @ \cup {o.st}]
        /\ result \in {"ok", "error"} /\ meta \in Metas
    BY DEF EndsAs, Ends
  <1>2. /\ parse'.pc = parse.pc /\ parse'.frame = parse.frame /\ parse'.current = parse.current
        /\ parse' \in Parses
        /\ parse' = parse \/ (o.waiter = "parse" /\ parse'.result = result)
    <2>1. parse \in Parses BY DEF HostInv, LoopShapes
    <2> QED BY <1>1, <2>1 DEF Parses
  <1>3. /\ history' \in [closed: SUBSET (1 .. session), broken: SUBSET (0 .. SessionLimit),
                         failed: SUBSET Stores]
        /\ history'.closed = history.closed /\ history'.broken = history.broken
        /\ history.failed \subseteq history'.failed
        /\ result = "ok" => history' = history
        /\ result = "error" => o.st \in history'.failed
    <2>1. history \in [closed: SUBSET (1 .. session), broken: SUBSET (0 .. SessionLimit),
                       failed: SUBSET Stores]
      BY DEF HostInv, StorageShapes
    <2>2. o.st \in Stores BY EndsBasics
    <2> QED BY <1>1, <2>1, <2>2
  <1>4. \A st \in Stores : NoOp(st) => NoOp(st)' BY EndsBasics DEF NoOp
  <1>5. \A st \in Stores : Over(st)' = Over(st) BY <1>1 DEF Over, NoStart, device, link
  <1>6. \A st \in Stores : Gone(st) => Gone(st)' BY <1>1, <1>4, <1>5 DEF Gone, device, link
  <1>7. ASSUME NEW st \in Stores, NEW n \in Nat, SavedRecord(st, n) PROVE SavedRecord(st, n)'
    <2>1. CASE st # o.st BY <1>7, <2>1, EndsBasics DEF SavedRecord
    <2>2. CASE st = o.st
      <3>1. /\ ~Gone(st) /\ disk'[st].files = disk[st].files
            /\ disk' = disk \/ disk'[st].meta = meta
        BY <2>2, EndsBasics
      <3>2. disk[st].meta.count <= mem[st].count BY <3>1 DEF HostInv, StorageInv
      <3>3. mem[st].count \in Nat /\ disk[st].meta.count \in Nat
        BY DEF HostInv, StorageShapes, Metas
      <3>4. mem[st].count <= meta.count /\ meta.count \in Nat
        BY <2>2, <3>3 DEF EndsAs, Metas
      <3>5. disk[st].meta.count <= disk'[st].meta.count BY <3>1, <3>2, <3>3, <3>4
      <3>6. disk'[st].meta.count \in Nat BY <3>1, <3>3, <3>4
      <3> QED BY <1>7, <3>1, <3>3, <3>5, <3>6 DEF SavedRecord
    <2> QED BY <2>1, <2>2
  <1> QED BY <1>1, <1>2, <1>3, <1>4, <1>5, <1>6, <1>7

LEMMA EndsShapes ==
  ASSUME HostInv, NEW o, NEW meta, NEW result, EndsAs(o, result, meta)
  PROVE  /\ DeviceShapes' /\ LoopShapes' /\ StorageShapes' /\ ArgumentsInv' /\ AbortInv'
         /\ NumbersInv' /\ WaiterInv'
  <1>1. /\ UNCHANGED << device, link, hostActive, hostSession, store, fault, aborting >>
        /\ replaced' = FALSE /\ parse'.frame = parse.frame
    BY EndsKnows
  <1>2. UNCHANGED << session, phase, committed, backlog, inFlight, wire, air, acks, notice, lost >>
    BY <1>1 DEF device, link
  <1>3. DeviceShapes' BY <1>2 DEF HostInv, DeviceShapes
  <1>4. LoopShapes' BY <1>1, <1>2, EndsKnows, EndsBasics DEF HostInv, LoopShapes
  <1>5. StorageShapes' BY <1>1, <1>2, EndsKnows, EndsBasics DEF StorageShapes
  <1>6. \A i \in DOMAIN queue' : /\ i \in Nat /\ i + 1 \in DOMAIN queue /\ i + 1 # 1
                                 /\ queue'[i] = queue[i + 1]
    BY EndsBasics
  <1>7. ArgumentsInv' BY <1>2, <1>6 DEF HostInv, ArgumentsInv
  <1>8. AbortInv'
    <2>1. ASSUME NEW i \in DOMAIN queue', NEW j \in DOMAIN queue',
                 queue'[i].op = "abort", queue'[j].op = "abort", queue'[i].st = queue'[j].st
          PROVE  i = j
      <3>1. i + 1 = j + 1 BY <1>6, <2>1 DEF HostInv, AbortInv
      <3>2. i \in Nat /\ j \in Nat BY <1>6
      <3> QED BY <3>1, <3>2
    <2> QED BY <1>1, <1>6, <2>1 DEF HostInv, AbortInv
  <1>9. NumbersInv'
    <2>1. \A i \in DOMAIN queue' :
            queue'[i].op = "save" /\ queue'[i].st = session => queue'[i].arg <= committed
      BY <1>6 DEF HostInv, NumbersInv
    <2>2. ASSUME session \in Stores
          PROVE  /\ mem'[session].count <= committed /\ disk'[session].meta.count <= committed
                 /\ disk'[session].files \subseteq 1 .. committed
      <3>1. CASE session # o.st BY <2>2, <3>1, EndsBasics DEF HostInv, NumbersInv
      <3>2. CASE session = o.st
        <4>1. meta.count <= committed
          <5>1. CASE replaced /\ meta.count = mem[o.st].count + 1
            <6>1. First.op = "save" /\ First.arg = mem[o.st].count + 1 /\ First = o
              BY <5>1, EndsBasics DEF HostInv, StorageInv
            <6>2. First = queue[1] /\ 1 \in DOMAIN queue BY FirstOperation DEF EndsAs
            <6>3. First.arg <= committed BY <3>2, <6>1, <6>2 DEF HostInv, NumbersInv
            <6> QED BY <5>1, <6>1, <6>3
          <5>2. CASE meta.count = mem[o.st].count BY <2>2, <3>2, <5>2 DEF HostInv, NumbersInv
          <5> QED BY <5>1, <5>2 DEF EndsAs
        <4>2. /\ mem'[session] = meta /\ (disk' = disk \/ disk'[session].meta = meta)
              /\ disk'[session].files = disk[session].files
          BY <3>2, EndsBasics
        <4> QED BY <2>2, <4>1, <4>2 DEF HostInv, NumbersInv
      <3> QED BY <3>1, <3>2
    <2> QED BY <1>1, <1>2, <2>1, <2>2 DEF HostInv, NumbersInv
  <1>10. WaiterInv'
    <2> SUFFICES ASSUME NEW i \in DOMAIN queue', queue'[i].waiter = "parse"
                 PROVE  /\ parse'.result = "none" /\ parse'.pc \in Waiting
                        /\ queue'[i].st = parse'.frame.session
                        /\ parse'.pc = "saving" => queue'[i].op = "save" /\ queue'[i].arg = parse'.frame.n
                        /\ \A j \in DOMAIN queue' : queue'[j].waiter = "parse" => i = j
      BY DEF WaiterInv
    <2>1. i + 1 \in DOMAIN queue /\ queue[i + 1].waiter = "parse" /\ i + 1 # 1 /\ i \in Nat BY <1>6
    <2>2. queue[1].waiter # "parse" /\ o = queue[1]
      <3>1. o = queue[1] /\ 1 \in DOMAIN queue BY FirstOperation DEF EndsAs
      <3> QED BY <2>1, <3>1 DEF HostInv, WaiterInv
    <2>3. parse' = parse BY <2>2, EndsKnows
    <2>4. \A j \in DOMAIN queue' : queue'[j].waiter = "parse" => i + 1 = j + 1 /\ j \in Nat
      BY <1>6, <2>1 DEF HostInv, WaiterInv
    <2>5. \A j \in DOMAIN queue' : queue'[j].waiter = "parse" => i = j BY <2>1, <2>4
    <2> QED BY <1>6, <2>1, <2>3, <2>5 DEF HostInv, WaiterInv
  <1> QED BY <1>3, <1>4, <1>5, <1>7, <1>8, <1>9, <1>10

LEMMA EndsStart ==
  ASSUME HostInv, NEW o, NEW meta, NEW result, EndsAs(o, result, meta)
  PROVE  StartInv'
  <1>1. UNCHANGED << session, wire, air, store >> BY EndsKnows DEF device, link
  <1>2. /\ \A st \in Stores : NoOp(st) => NoOp(st)' /\ o.st # st
        /\ \A st \in Stores : NoStart(st)' = NoStart(st)
    <2>1. \A st \in Stores : NoOp(st) => o.st # st BY FirstOperation DEF EndsAs
    <2> QED BY <1>1, <2>1, EndsKnows DEF NoStart
  <1>3. \A st \in Stores : st # o.st => Unopened(st)' = Unopened(st)
    BY EndsBasics DEF Unopened
  <1>4. \A st \in Stores : st > session' \/ (st = session' /\ wire' = << >>) => Silent(st)'
    BY <1>1, <1>2, <1>3 DEF HostInv, StartInv, Silent
  <1>5. \A st \in Stores : ~NoStart(st)' => Unopened(st)' /\ store' # st /\ NoOp(st)'
    BY <1>1, <1>2, <1>3 DEF HostInv, StartInv
  <1>6. ASSUME NEW i \in DOMAIN queue', queue'[i].op = "start"
        PROVE  /\ disk'[queue'[i].st] = NoDir /\ mem'[queue'[i].st] = NoMeta
               /\ \A j \in DOMAIN queue' : queue'[j].st = queue'[i].st => i <= j
    <2>1. /\ i \in Nat /\ i + 1 \in DOMAIN queue /\ i + 1 # 1 /\ queue'[i] = queue[i + 1]
          /\ \A j \in DOMAIN queue' : j \in Nat /\ j + 1 \in DOMAIN queue /\ queue'[j] = queue[j + 1]
      BY EndsBasics
    <2>2. o = queue[1] /\ 1 \in DOMAIN queue BY FirstOperation DEF EndsAs
    <2>3. queue[i + 1].op = "start" BY <1>6, <2>1
    <2>4. /\ disk[queue[i + 1].st] = NoDir /\ mem[queue[i + 1].st] = NoMeta
          /\ \A j \in DOMAIN queue : queue[j].st = queue[i + 1].st => i + 1 <= j
      BY <2>1, <2>3 DEF HostInv, StartInv
    <2>5. queue[i + 1].st # o.st
      <3>1. ~(i + 1 <= 1) BY <2>1
      <3> QED BY <2>2, <2>4, <3>1
    <2>6. queue[i + 1].st \in Stores
      <3>1. queue[i + 1] \in Operations BY <2>1, QueueTypes DEF HostInv
      <3> QED BY <3>1 DEF Operations
    <2>7. disk'[queue'[i].st] = NoDir /\ mem'[queue'[i].st] = NoMeta
      BY <2>1, <2>4, <2>5, <2>6, EndsBasics
    <2>8. ASSUME NEW j \in DOMAIN queue', queue'[j].st = queue'[i].st PROVE i <= j
      <3>1. i + 1 <= j + 1 /\ j \in Nat BY <2>1, <2>4, <2>8
      <3> QED BY <2>1, <3>1
    <2> QED BY <2>7, <2>8
  <1>7. \A i, j \in DOMAIN air' :
          air'[i].kind = "start" /\ air'[j].kind = "start" /\ air'[i].session = air'[j].session => i = j
    BY <1>1 DEF HostInv, StartInv
  <1> QED BY <1>4, <1>5, <1>6, <1>7 DEF StartInv

LEMMA EndsStorage ==
  ASSUME HostInv, NEW o, NEW meta, NEW result, EndsAs(o, result, meta)
  PROVE  StorageInv'
  <1>1. replaced' = FALSE BY EndsKnows
  <1> SUFFICES ASSUME NEW st \in Stores, ~Gone(st)'
               PROVE  /\ disk'[st].meta.count <= mem'[st].count
                      /\ st \notin history'.failed => mem'[st] = disk'[st].meta
                      /\ disk'[st].files \in Files(st)'
    BY <1>1 DEF StorageInv
  <1>2. ~Gone(st) /\ o = First BY EndsKnows, EndsBasics
  <1>3. /\ disk[st].meta.count <= mem[st].count
        /\ st \notin history.failed => mem[st] = disk[st].meta
        /\ disk[st].files \in Files(st)
    BY <1>2 DEF HostInv, StorageInv
  <1>4. CASE st # o.st
    <2>1. mem'[st] = mem[st] /\ disk'[st] = disk[st] BY <1>4, EndsBasics
    <2> QED BY <1>3, <2>1, EndsKnows DEF Files
  <1>5. CASE st = o.st
    <2>1. /\ mem'[st] = meta /\ disk'[st].files = disk[st].files
          /\ disk' = disk \/ disk'[st].meta = meta
      BY <1>5, EndsBasics
    <2>2. mem[st].count \in Nat /\ disk[st].meta.count \in Nat
      BY DEF HostInv, StorageShapes, Metas
    <2>3. meta.count \in Nat /\ mem[st].count <= meta.count
      BY <1>5, <2>2 DEF EndsAs, Metas
    <2>4. disk'[st].meta.count <= mem'[st].count
      <3>1. CASE disk' = disk BY <1>3, <2>1, <2>2, <2>3, <3>1
      <3>2. CASE disk'[st].meta = meta BY <2>1, <2>3, <3>2
      <3> QED BY <2>1, <3>1, <3>2
    <2>5. ASSUME st \notin history'.failed PROVE mem'[st] = disk'[st].meta
      <3>1. result = "ok" /\ st \notin history.failed BY <1>5, <2>5, EndsKnows DEF EndsAs
      <3>2. CASE disk' = disk /\ meta = mem[o.st] BY <1>3, <1>5, <2>1, <3>1, <3>2
      <3>3. CASE disk'[st].meta = meta BY <2>1, <3>3
      <3>4. (disk' = disk /\ meta = mem[o.st]) \/ disk'[st].meta = meta
        BY <1>5, <3>1, EndsBasics
      <3> QED BY <3>2, <3>3, <3>4
    <2>6. disk'[st].files \in Files(st)'
      <3>1. CASE replaced /\ meta.count = mem[st].count + 1
        <4>1. mem[st].count + 1 \in disk[st].files
          BY <1>2, <1>5, <3>1 DEF HostInv, StorageInv
        <4>2. disk[st].files = 1 .. mem[st].count + 1
          BY <1>3, <2>2, <4>1 DEF Files
        <4> QED BY <2>1, <3>1, <4>2 DEF Files
      <3>2. CASE meta.count = mem[st].count
        BY <1>3, <2>1, <3>2 DEF Files
      <3> QED BY <1>5, <3>1, <3>2 DEF EndsAs
    <2> QED BY <2>4, <2>5, <2>6
  <1> QED BY <1>4, <1>5

LEMMA EndsParse ==
  ASSUME HostInv, NEW o, NEW meta, NEW result, EndsAs(o, result, meta)
  PROVE  ParseInv' /\ AcksInv' /\ RetiredIsSaved'
  <1>1. /\ parse'.pc = parse.pc /\ parse'.frame = parse.frame /\ store' = store
        /\ parse' = parse \/ (o.waiter = "parse" /\ parse'.result = result)
        /\ UNCHANGED << session, phase, committed, backlog, inFlight, acks >>
        /\ \A st \in Stores, n \in Nat : SavedRecord(st, n) => SavedRecord(st, n)'
        /\ history.failed \subseteq history'.failed
        /\ result = "error" => o.st \in history'.failed
    BY EndsKnows DEF device, link
  <1>2. o = queue[1] /\ 1 \in DOMAIN queue /\ o = First BY FirstOperation DEF EndsAs
  <1>3. AcksInv'
    <2> SUFFICES ASSUME NEW i \in DOMAIN acks, acks[i].n # 0
                 PROVE  SavedRecord(acks[i].session, acks[i].n)'
      BY <1>1 DEF AcksInv, SavedRecord
    <2>1. acks[i] \in AckFrames BY DEF HostInv, LoopShapes
    <2>2. PICK a \in AckFrames : a = acks[i] BY <2>1
    <2>3. a.session \in Stores /\ a.n \in Nat /\ SavedRecord(a.session, a.n)
      BY <2>2, HostAssumption DEF AckFrames, HostInv, AcksInv
    <2>4. SavedRecord(a.session, a.n)' BY <1>1, <2>3
    <2>5. a = acks'[i] BY <1>1, <2>2
    <2> QED BY <2>4, <2>5 DEF SavedRecord
  <1>4. RetiredIsSaved'
    <2> SUFFICES ASSUME phase # "idle", NEW n \in Retired
                 PROVE  n \in disk'[session].files /\ n <= disk'[session].meta.count
      BY <1>1 DEF RetiredIsSaved, Retired
    <2>1. PICK s \in Stores : s = session BY DEF HostInv, DeviceShapes
    <2>2. n \in Nat BY HostAssumption DEF Retired
    <2>3. SavedRecord(s, n) BY <2>1 DEF HostInv, RetiredIsSaved, SavedRecord
    <2>4. SavedRecord(s, n)' BY <1>1, <2>2, <2>3
    <2> QED BY <2>1, <2>4 DEF SavedRecord
  <1>5. ParseInv'
    <2>1. PICK f : f = parse.frame OBVIOUS
    <2>2. f = parse'.frame BY <1>1, <2>1
    <2>3. f # NoAir => f.session \in Stores /\ f.n \in Nat
      <3>1. f \in AirFrames \cup {NoAir} BY <2>1 DEF HostInv, LoopShapes, Parses
      <3> QED BY <3>1, HostAssumption DEF AirFrames
    <2>4. ASSUME f.kind = "record", SavedRecord(f.session, f.n) PROVE SavedRecord(f.session, f.n)'
      <3>1. f # NoAir BY <2>4 DEF NoAir
      <3> QED BY <1>1, <2>3, <2>4, <3>1
    <2>5. ASSUME parse.pc = "saving", parse'.result = "ok" PROVE SavedRecord(f.session, f.n)'
      <3>1. CASE parse' = parse
        <4>1. f.kind = "record" /\ SavedRecord(f.session, f.n)
          BY <2>1, <2>5, <3>1 DEF HostInv, ParseInv
        <4> QED BY <2>4, <4>1
      <3>2. CASE o.waiter = "parse" /\ parse'.result = result
        <4>1. o.op = "save" /\ o.arg = f.n /\ o.st = f.session
          BY <1>2, <2>1, <2>5, <3>2 DEF HostInv, WaiterInv
        <4>2. /\ replaced /\ disk'[o.st].meta = meta /\ meta.count = mem[o.st].count + 1
          BY <2>5, <3>2, <4>1 DEF EndsAs
        <4>3. o.arg = mem[o.st].count + 1 /\ o.arg \in disk[o.st].files
          BY <1>2, <4>2 DEF HostInv, StorageInv
        <4>4. disk'[o.st].files = disk[o.st].files BY EndsBasics
        <4>5. meta.count \in Nat BY DEF EndsAs, Metas
        <4>6. o.arg <= disk'[o.st].meta.count BY <4>2, <4>3, <4>5
        <4> QED BY <4>1, <4>3, <4>4, <4>6 DEF SavedRecord
      <3> QED BY <1>1, <3>1, <3>2
    <2>6. ASSUME parse'.result = "error" PROVE f.session \in history'.failed
      <3>1. CASE parse' = parse BY <1>1, <2>1, <2>6, <3>1 DEF HostInv, ParseInv
      <3>2. CASE o.waiter = "parse" /\ parse'.result = result
        <4>1. o.st = f.session BY <1>2, <2>1, <3>2 DEF HostInv, WaiterInv
        <4> QED BY <1>1, <2>6, <3>2, <4>1
      <3> QED BY <1>1, <3>1, <3>2
    <2>7. /\ parse'.pc \in {"idle", "dead"} => f = NoAir
          /\ parse'.pc \in Waiting \cup {"acking", "acked"} => f # NoAir /\ f.session = store'
          /\ parse'.pc = "saving" => f.kind = "record"
          /\ parse'.pc \in {"staging", "committing"} => f.kind = "end"
          /\ parse'.pc = "acking" => f.kind \in {"record", "end"}
      BY <1>1, <2>1 DEF HostInv, ParseInv
    <2>8. parse'.pc = "acking" /\ f.kind = "record" => SavedRecord(f.session, f.n)'
      BY <1>1, <2>1, <2>4 DEF HostInv, ParseInv
    <2>9. parse'.pc = "saving" /\ parse'.result = "ok" => SavedRecord(f.session, f.n)'
      BY <1>1, <2>5
    <2> QED BY <2>2, <2>6, <2>7, <2>8, <2>9 DEF ParseInv, SavedRecord
  <1> QED BY <1>3, <1>4, <1>5

LEMMA EndsEnd ==
  ASSUME HostInv, NEW o, NEW meta, NEW result, EndsAs(o, result, meta)
  PROVE  EndInv'
  <1> SUFFICES ASSUME NEW st \in Stores, NEW e \in 0 .. Records, EndKnown(st, e)'
               PROVE  Complete(st, e)'
    BY DEF EndInv
  <1>1. /\ UNCHANGED << session, phase, committed, wire, air >>
        /\ parse'.frame = parse.frame /\ history'.closed = history.closed
        /\ \A s \in Stores : Gone(s) => Gone(s)'
    BY EndsKnows DEF device, link
  <1>2. /\ \A i \in DOMAIN queue' : i + 1 \in DOMAIN queue /\ queue'[i] = queue[i + 1]
        /\ st # o.st => mem'[st] = mem[st] /\ disk'[st] = disk[st]
        /\ mem'[o.st] = meta /\ disk'[o.st].files = disk[o.st].files
        /\ disk' = disk \/ disk'[o.st].meta = meta
        /\ ~Gone(o.st) /\ o = First
    BY EndsBasics
  <1>3. Complete(st, e)
    <2>1. EndKnown(st, e) \/ (st = o.st /\ meta.status \in Finishing /\ meta.end = e)
      <3>1. CASE st # o.st BY <1>1, <1>2, <3>1 DEF EndKnown
      <3>2. CASE st = o.st BY <1>1, <1>2, <3>2 DEF EndKnown
      <3> QED BY <3>1, <3>2
    <2> QED BY <2>1 DEF EndsAs, HostInv, EndInv
  <1>4. st = o.st => meta.count = e
    <2> SUFFICES ASSUME st = o.st PROVE meta.count = e
      OBVIOUS
    <2>1. mem[st].count = e BY <1>2, <1>3 DEF Complete
    <2>2. ~replaced
      <3> SUFFICES ASSUME replaced PROVE FALSE
        OBVIOUS
      <3>1. First.op = "save" /\ First.arg = e + 1 BY <1>2, <2>1 DEF HostInv, StorageInv
      <3>2. First = queue[1] /\ 1 \in DOMAIN queue BY FirstOperation DEF EndsAs
      <3>3. First.arg <= e BY <1>2, <1>3, <3>1, <3>2 DEF Complete
      <3> QED BY <3>1, <3>3
    <2> QED BY <2>1, <2>2 DEF EndsAs
  <1>5. /\ disk'[st].meta.count = e /\ disk'[st].files = 1 .. e
        /\ mem'[st].count = e \/ Gone(st)'
    <2>1. CASE st # o.st BY <1>1, <1>2, <1>3, <2>1 DEF Complete
    <2>2. CASE st = o.st BY <1>2, <1>3, <1>4, <2>2 DEF Complete
    <2> QED BY <2>1, <2>2
  <1>6. \A i \in DOMAIN queue' : queue'[i].op = "save" /\ queue'[i].st = st => queue'[i].arg <= e
    BY <1>2, <1>3 DEF Complete
  <1>7. Last(wire)' = Last(wire) BY <1>1 DEF Last
  <1> QED BY <1>1, <1>3, <1>5, <1>6, <1>7 DEF Complete

LEMMA EndsWaitStart ==
  ASSUME HostInv, NEW o, NEW meta, NEW result, EndsAs(o, result, meta)
  PROVE  WaitStartInv'
  <1>1. /\ UNCHANGED << session, phase, acks, notice, store, hostActive >>
        /\ parse'.pc = parse.pc /\ parse'.frame = parse.frame /\ parse'.current = parse.current
        /\ history'.closed = history.closed /\ history'.broken = history.broken
        /\ history.failed \subseteq history'.failed
        /\ \A st \in Stores : Over(st)' = Over(st)
    BY EndsKnows DEF device, link
  <1>2. \A st \in Stores : Excused(st) => Excused(st)' BY <1>1 DEF Excused
  <1>3. \A st \in Stores : EndHandled(st)' = EndHandled(st)
    <2>1. FinalEnd(parse)' = FinalEnd(parse) BY <1>1 DEF FinalEnd
    <2> QED BY <1>1, <2>1 DEF EndHandled
  <1>4. \A st \in Stores : EndAcked(st)' = EndAcked(st) BY <1>1 DEF EndAcked
  <1>5. \A st \in Stores : NotClosed(st) => NotClosed(st)' BY <1>1, <1>2 DEF NotClosed
  <1>6. ASSUME NEW st \in Stores, TakenForLost(st)' PROVE NotClosed(st)
    <2>1. /\ \A i \in DOMAIN queue' : i + 1 \in DOMAIN queue /\ queue'[i] = queue[i + 1]
          /\ st # o.st => mem'[st] = mem[st] /\ disk'[st] = disk[st]
          /\ mem'[o.st] = meta /\ (disk' = disk \/ disk'[o.st].meta = meta)
      BY EndsBasics
    <2>2. TakenForLost(st) \/ (st = o.st /\ meta.source = "wait_start")
      <3>1. CASE st # o.st BY <1>6, <2>1, <3>1 DEF TakenForLost
      <3>2. CASE st = o.st BY <1>6, <2>1, <3>2 DEF TakenForLost
      <3> QED BY <3>1, <3>2
    <2> QED BY <2>2 DEF EndsAs, HostInv, WaitStartInv
  <1>7. notice' => phase' = "idle" BY <1>1 DEF HostInv, WaitStartInv
  <1>8. session' \in history'.closed => phase' = "idle" BY <1>1 DEF HostInv, WaitStartInv
  <1> QED BY <1>2, <1>3, <1>4, <1>5, <1>6, <1>7, <1>8 DEF HostInv, WaitStartInv

LEMMA EndsKeeps ==
  ASSUME HostInv, NEW o, NEW meta, NEW result, EndsAs(o, result, meta)
  PROVE  HostInv'
  BY EndsShapes, EndsStart, EndsStorage, EndsParse, EndsEnd, EndsWaitStart DEF HostInv

\* What the first operation would make of the metadata.
LEMMA MetaAfterFacts ==
  ASSUME HostInv, WritesMetadata, NEW o, o = First, NEW meta, meta = MetaAfter(First)
  PROVE  /\ queue # << >> /\ o \in Operations /\ o.st \in Stores /\ meta \in Metas
         /\ \/ o.op = "save" /\ replaced /\ meta.count = mem[o.st].count + 1
            \/ o.op # "save" /\ ~replaced /\ meta.count = mem[o.st].count
         /\ meta.status \in Finishing => Complete(o.st, meta.end)
         /\ meta.source = "wait_start" => NotClosed(o.st)
  <1>1. queue # << >> BY DEF WritesMetadata
  <1>2. o \in Operations /\ o.st \in Stores /\ o = queue[1] /\ 1 \in DOMAIN queue /\ o.st \in Stores
    BY <1>1, FirstOperation
  <1>3. /\ o.op = "abort" => o.arg \in Aborts
        /\ o.op # "abort" => o.arg \in 0 .. Records
    BY <1>2 DEF HostInv, ArgumentsInv
  <1>4. PICK m \in Metas : m = mem[o.st] BY <1>2 DEF HostInv, StorageShapes
  <1>5. m.status \in Finishing => Complete(o.st, m.end)
    BY <1>2, <1>4 DEF HostInv, EndInv, EndKnown, Metas
  <1>6. m.source = "wait_start" => NotClosed(o.st)
    BY <1>2, <1>4 DEF HostInv, WaitStartInv, TakenForLost
  <1>7. replaced => o.op = "save" BY DEF HostInv, StorageInv
  <1>8. m.count \in Nat BY <1>4 DEF Metas
  <1>9. 0 \in 0 .. Records BY HostAssumption
  <1>10. CASE o.op = "start"
    <2>1. meta = [NoMeta EXCEPT !.status = "active"] BY <1>10 DEF MetaAfter
    <2>2. mem[o.st].count = 0 BY <1>2, <1>10 DEF HostInv, StartInv, NoMeta
    <2>3. meta = [status |-> "active", count |-> 0, end |-> 0, source |-> "none", dirty |-> FALSE]
      BY <2>1 DEF NoMeta
    <2>4. meta \in Metas BY <1>9, <2>3 DEF Metas, Statuses, Sources
    <2>5. meta.count = 0 /\ meta.status = "active" /\ meta.source = "none" BY <2>3
    <2> QED BY <1>1, <1>2, <1>7, <1>10, <2>2, <2>4, <2>5 DEF Finishing
  <1>11. CASE o.op = "save"
    <2>1. meta = [m EXCEPT !.count = @ + 1] BY <1>4, <1>11 DEF MetaAfter
    <2>2. meta \in Metas /\ meta.count = m.count + 1 /\ meta.status = m.status
          /\ meta.end = m.end /\ meta.source = m.source
      BY <1>4, <1>8, <2>1 DEF Metas
    <2>3. replaced BY <1>11 DEF WritesMetadata
    <2> QED BY <1>1, <1>2, <1>4, <1>5, <1>6, <1>11, <2>2, <2>3
  <1>12. CASE o.op = "stage"
    <2>1. meta = [m EXCEPT !.status = "ending", !.end = o.arg, !.source = "online_end"]
      BY <1>4, <1>12 DEF MetaAfter
    <2>2. meta \in Metas /\ meta.count = m.count /\ meta.end = o.arg /\ meta.source = "online_end"
      BY <1>3, <1>4, <1>12, <2>1 DEF Metas, Statuses, Sources
    <2>3. Complete(o.st, o.arg) BY <1>2, <1>3, <1>12 DEF HostInv, EndInv, EndKnown
    <2> QED BY <1>1, <1>2, <1>4, <1>7, <1>12, <2>2, <2>3
  <1>13. CASE o.op = "commit"
    <2>1. meta = [m EXCEPT !.status = "ended", !.source = "online_end_ack"]
      BY <1>4, <1>13 DEF MetaAfter
    <2>2. meta \in Metas /\ meta.count = m.count /\ meta.end = m.end /\ meta.source = "online_end_ack"
      BY <1>4, <2>1 DEF Metas, Statuses, Sources
    <2>3. m.status \in Finishing
      BY <1>4, <1>13 DEF WritesMetadata, Done, Refused, WasStaged, Finishing
    <2> QED BY <1>1, <1>2, <1>4, <1>5, <1>7, <1>13, <2>2, <2>3
  <1>14. CASE o.op = "abort"
    <2>1. meta = [m EXCEPT !.status = "aborted", !.source = o.arg]
      BY <1>4, <1>14 DEF MetaAfter
    <2>2. meta \in Metas /\ meta.count = m.count /\ meta.status = "aborted" /\ meta.source = o.arg
      BY <1>3, <1>4, <1>14, <2>1 DEF Metas, Statuses, Sources
    <2>3. o.arg = "wait_start" => NotClosed(o.st)
      BY <1>2, <1>14 DEF HostInv, WaitStartInv, TakenForLost
    <2> QED BY <1>1, <1>2, <1>4, <1>7, <1>14, <2>2, <2>3 DEF Finishing
  <1>15. CASE o.op \notin {"start", "save", "stage", "commit", "abort"}
    <2>1. meta = m BY <1>4, <1>15 DEF MetaAfter
    <2> QED BY <1>1, <1>2, <1>4, <1>5, <1>6, <1>7, <1>15, <2>1
  <1> QED BY <1>10, <1>11, <1>12, <1>13, <1>14, <1>15

LEMMA KeepsStorageNoOp ==
  ASSUME HostInv, StorageNoOp \/ FileFails
  PROVE  HostInv'
  <1>1. PICK o : o = First OBVIOUS
  <1>2. queue # << >> /\ o.st \in Stores BY <1>1, FirstOperation DEF StorageNoOp, FileFails
  <1>3. PICK meta \in Metas : meta = mem[o.st] BY <1>2 DEF HostInv, StorageShapes
  <1>4. PICK result \in {"ok", "error"} :
          /\ Ends(First, result, mem[First.st]) /\ disk' = disk
          /\ replaced => result = "error"
          /\ result = "ok" => NothingToDo(First)
    BY DEF StorageNoOp, FileFails, Done
  <1>5. Ends(o, result, meta) BY <1>1, <1>3, <1>4 DEF Ends
  <1>6. meta.status \in Finishing => Complete(o.st, meta.end)
    BY <1>2, <1>3 DEF HostInv, EndInv, EndKnown, Metas
  <1>7. meta.source = "wait_start" => NotClosed(o.st)
    BY <1>2, <1>3 DEF HostInv, WaitStartInv, TakenForLost
  <1>8. o.op = "save" => result # "ok" BY <1>1, <1>4 DEF NothingToDo, Skipped
  <1>9. EndsAs(o, result, meta)
    BY <1>1, <1>2, <1>3, <1>4, <1>5, <1>6, <1>7, <1>8 DEF EndsAs
  <1> QED BY <1>9, EndsKeeps

\* The metadata are written, or only kept in memory, as clean or as dirty.
LEMMA KeepsMetadata ==
  ASSUME HostInv, MetadataWritten \/ MetadataFails \/ ReportFails
  PROVE  HostInv'
  <1>1. PICK o : o = First OBVIOUS
  <1>2. PICK after : after = MetaAfter(First) OBVIOUS
  <1>3. WritesMetadata BY DEF MetadataWritten, MetadataFails, ReportFails
  <1>4. /\ queue # << >> /\ o \in Operations /\ o.st \in Stores /\ after \in Metas
        /\ \/ o.op = "save" /\ replaced /\ after.count = mem[o.st].count + 1
           \/ o.op # "save" /\ ~replaced /\ after.count = mem[o.st].count
        /\ after.status \in Finishing => Complete(o.st, after.end)
        /\ after.source = "wait_start" => NotClosed(o.st)
    BY <1>1, <1>2, <1>3, MetaAfterFacts
  <1>5. disk \in [Stores -> [meta: Metas, files: SUBSET (1 .. Records)]]
    BY DEF HostInv, StorageShapes
  <1>6. CASE MetadataFails
    <2>1. PICK meta : meta = [after EXCEPT !.dirty = TRUE] OBVIOUS
    <2>2. Ends(o, "error", meta) /\ disk' = disk
      BY <1>1, <1>2, <1>6, <2>1 DEF MetadataFails, Ends
    <2>3. meta \in Metas /\ meta.count = after.count /\ meta.status = after.status
          /\ meta.end = after.end /\ meta.source = after.source
      BY <1>4, <2>1 DEF Metas
    <2>4. EndsAs(o, "error", meta) BY <1>1, <1>4, <2>2, <2>3 DEF EndsAs
    <2> QED BY <2>4, EndsKeeps
  <1>7. CASE MetadataWritten \/ ReportFails
    <2>1. PICK meta : meta = Clean(after) OBVIOUS
    <2>2. PICK result \in {"ok", "error"} : Ends(First, result, Clean(MetaAfter(First)))
      BY <1>7 DEF MetadataWritten, ReportFails
    <2>3. Ends(o, result, meta) BY <1>1, <1>2, <2>1, <2>2 DEF Ends
    <2>4. disk' = [disk EXCEPT ![o.st].meta = meta]
      BY <1>1, <1>2, <1>7, <2>1 DEF MetadataWritten, ReportFails
    <2>5. disk'[o.st].meta = meta BY <1>4, <1>5, <2>4
    <2>6. meta \in Metas /\ meta.count = after.count /\ meta.status = after.status
          /\ meta.end = after.end /\ meta.source = after.source /\ ~meta.dirty
      BY <1>4, <2>1 DEF Clean, Metas
    <2>7. EndsAs(o, result, meta)
      BY <1>1, <1>4, <2>3, <2>4, <2>5, <2>6 DEF EndsAs
    <2> QED BY <2>7, EndsKeeps
  <1> QED BY <1>6, <1>7

\* The file of a record is in place, its metadata are not yet.
LEMMA KeepsFileReplaced ==
  ASSUME HostInv, FileReplaced
  PROVE  HostInv'
  <1>1. PICK o : o = First OBVIOUS
  <1>2. /\ queue # << >> /\ o.op = "save" /\ ~Refused(First) /\ ~replaced /\ replaced' = TRUE
        /\ disk' = [disk EXCEPT ![o.st].files = @ \cup {o.arg}]
        /\ UNCHANGED << session, phase, committed, backlog, inFlight, wire, air, acks, notice,
                        lost, hostActive, hostSession, store, fault, aborting, parse, queue, mem,
                        history >>
    BY <1>1 DEF FileReplaced, Done, device, link, loop
  <1>3. /\ o \in Operations /\ o = queue[1] /\ 1 \in DOMAIN queue /\ o.st \in Stores
        /\ ~NoOp(o.st) /\ \A st \in Stores : NoOp(st) => o.st # st
    BY <1>1, <1>2, FirstOperation
  <1>4. o.arg = mem[o.st].count + 1 BY <1>1, <1>2 DEF Refused
  <1>5. o.arg \in 1 .. Records
    <2>1. o.arg \in 0 .. Records /\ o.arg >= 1 BY <1>2, <1>3 DEF HostInv, ArgumentsInv
    <2> QED BY <2>1, HostAssumption
  <1>6. /\ disk \in [Stores -> [meta: Metas, files: SUBSET (1 .. Records)]]
        /\ \A st \in Stores : ~disk[st].meta.dirty
    BY DEF HostInv, StorageShapes
  <1>7. /\ disk'[o.st].meta = disk[o.st].meta /\ disk'[o.st].files = disk[o.st].files \cup {o.arg}
        /\ \A st \in Stores : st # o.st => disk'[st] = disk[st]
        /\ disk' \in [Stores -> [meta: Metas, files: SUBSET (1 .. Records)]]
    <2>1. disk[o.st] \in [meta: Metas, files: SUBSET (1 .. Records)] BY <1>3, <1>6
    <2>2. /\ disk'[o.st] = [disk[o.st] EXCEPT !.files = @ \cup {o.arg}]
          /\ \A st \in Stores : st # o.st => disk'[st] = disk[st]
      BY <1>2, <1>3, <1>6
    <2>3. /\ disk'[o.st].meta = disk[o.st].meta
          /\ disk'[o.st].files = disk[o.st].files \cup {o.arg}
          /\ disk'[o.st] \in [meta: Metas, files: SUBSET (1 .. Records)]
      BY <1>5, <2>1, <2>2
    <2>4. \A st \in Stores : disk'[st] \in [meta: Metas, files: SUBSET (1 .. Records)]
      BY <1>6, <2>2, <2>3
    <2>5. disk' = [st \in Stores |-> disk'[st]] BY <1>2, <1>6
    <2>6. disk' \in [Stores -> [meta: Metas, files: SUBSET (1 .. Records)]] BY <2>4, <2>5
    <2> QED BY <2>2, <2>3, <2>6
  <1>8. ASSUME NEW st \in Stores
        PROVE  disk'[st].meta = disk[st].meta /\ disk[st].files \subseteq disk'[st].files
    BY <1>7
  <1>9. \A st \in Stores, n \in Nat : SavedRecord(st, n) => SavedRecord(st, n)'
    BY <1>8 DEF SavedRecord
  <1>10. \A st \in Stores : Over(st)' = Over(st) /\ Gone(st)' = Gone(st) /\ NoOp(st)' = NoOp(st)
                            /\ NoStart(st)' = NoStart(st)
    BY <1>2 DEF Over, Gone, NoOp, NoStart
  <1>11. /\ DeviceShapes' /\ LoopShapes' /\ ArgumentsInv' /\ AbortInv' /\ WaiterInv'
    <2>1. DeviceShapes' BY <1>2 DEF HostInv, DeviceShapes
    <2>2. LoopShapes' BY <1>2 DEF HostInv, LoopShapes
    <2>3. ArgumentsInv' BY <1>2 DEF HostInv, ArgumentsInv
    <2>4. AbortInv' BY <1>2 DEF HostInv, AbortInv
    <2>5. WaiterInv' BY <1>2 DEF HostInv, WaiterInv
    <2> QED BY <2>1, <2>2, <2>3, <2>4, <2>5
  <1>12. StorageShapes' BY <1>2, <1>6, <1>7, <1>8 DEF HostInv, StorageShapes
  <1>13. NumbersInv'
    <2>1. ASSUME session \in Stores PROVE disk'[session].files \subseteq 1 .. committed
      <3>1. disk[session].files \subseteq 1 .. committed BY <2>1 DEF HostInv, NumbersInv
      <3>2. CASE session # o.st BY <1>7, <2>1, <3>1, <3>2
      <3>3. CASE session = o.st
        <4>1. o.arg <= committed BY <1>2, <1>3, <3>3 DEF HostInv, NumbersInv
        <4>2. committed \in Nat BY HostAssumption DEF HostInv, DeviceShapes
        <4> QED BY <1>5, <1>7, <3>1, <3>3, <4>1, <4>2
      <3> QED BY <3>2, <3>3
    <2> QED BY <1>2, <1>8, <2>1 DEF HostInv, NumbersInv
  <1>14. StartInv'
    <2>1. \A st \in Stores : st # o.st => Unopened(st)' = Unopened(st) BY <1>2, <1>7 DEF Unopened
    <2>2. \A st \in Stores : st > session' \/ (st = session' /\ wire' = << >>) => Silent(st)'
      BY <1>2, <1>3, <1>10, <2>1 DEF HostInv, StartInv, Silent
    <2>3. \A st \in Stores : ~NoStart(st)' => Unopened(st)' /\ store' # st /\ NoOp(st)'
      BY <1>2, <1>3, <1>10, <2>1 DEF HostInv, StartInv
    <2>4. ASSUME NEW i \in DOMAIN queue, queue[i].op = "start"
          PROVE  disk'[queue[i].st] = NoDir
      <3>1. disk[queue[i].st] = NoDir /\ \A j \in DOMAIN queue : queue[j].st = queue[i].st => i <= j
        BY <2>4 DEF HostInv, StartInv
      <3>2. queue[i].st # o.st
        <4> SUFFICES ASSUME queue[i].st = o.st PROVE FALSE
          OBVIOUS
        <4>1. i <= 1 /\ i \in Nat /\ i >= 1
          <5>1. queue \in Seq(Operations) BY DEF HostInv, LoopShapes
          <5>2. i \in 1 .. Len(queue) BY <5>1
          <5> QED BY <1>3, <3>1, <5>2
        <4>2. i = 1 BY <4>1
        <4> QED BY <1>2, <1>3, <2>4, <4>2
      <3>3. queue[i].st \in Stores
        <4>1. queue[i] \in Operations BY QueueTypes DEF HostInv
        <4> QED BY <4>1 DEF Operations
      <3> QED BY <1>7, <3>1, <3>2, <3>3
    <2> QED BY <1>2, <2>2, <2>3, <2>4 DEF HostInv, StartInv
  <1>15. First' = o BY <1>1, <1>2 DEF First
  <1>16. StorageInv'
    <2>1. /\ queue' # << >> /\ First'.op = "save" /\ First'.arg = mem'[First'.st].count + 1
          /\ First'.arg \in disk'[First'.st].files
      BY <1>2, <1>4, <1>7, <1>15
    <2>2. ASSUME NEW st \in Stores, ~Gone(st)'
          PROVE  /\ disk'[st].meta.count <= mem'[st].count
                 /\ st \notin history'.failed => mem'[st] = disk'[st].meta
                 /\ disk'[st].files \in Files(st)'
      <3>1. /\ disk[st].meta.count <= mem[st].count
            /\ st \notin history.failed => mem[st] = disk[st].meta
            /\ disk[st].files \in Files(st)
        BY <1>2, <1>10, <2>2 DEF HostInv, StorageInv
      <3>2. mem[st].count \in Nat BY DEF HostInv, StorageShapes, Metas
      <3>3. disk'[st].files \in Files(st)
        <4>1. CASE st # o.st BY <1>7, <3>1, <4>1
        <4>2. CASE st = o.st
          <5>1. disk'[st].files = disk[st].files \cup {mem[st].count + 1} BY <1>4, <1>7, <4>2
          <5> QED BY <3>1, <3>2, <5>1 DEF Files
        <4> QED BY <4>1, <4>2
      <3> QED BY <1>2, <1>8, <3>1, <3>3 DEF Files
    <2> QED BY <2>1, <2>2 DEF StorageInv
  <1>17. ParseInv'
    <2>1. PICK f : f = parse.frame OBVIOUS
    <2>2. f # NoAir => f.session \in Stores /\ f.n \in Nat
      <3>1. f \in AirFrames \cup {NoAir} BY <2>1 DEF HostInv, LoopShapes, Parses
      <3> QED BY <3>1, HostAssumption DEF AirFrames
    <2>3. f.kind = "record" /\ SavedRecord(f.session, f.n) => SavedRecord(f.session, f.n)'
      BY <1>9, <2>2 DEF NoAir
    <2>4. (parse.pc = "saving" /\ parse.result = "ok") \/ (parse.pc = "acking" /\ f.kind = "record")
             => SavedRecord(f.session, f.n)'
      BY <2>1, <2>3 DEF HostInv, ParseInv
    <2> QED BY <1>2, <2>1, <2>4 DEF HostInv, ParseInv, SavedRecord
  <1>18. AcksInv'
    <2> SUFFICES ASSUME NEW i \in DOMAIN acks, acks[i].n # 0
                 PROVE  SavedRecord(acks[i].session, acks[i].n)'
      BY <1>2 DEF AcksInv, SavedRecord
    <2>1. PICK a \in AckFrames : a = acks[i] BY DEF HostInv, LoopShapes
    <2>2. a.session \in Stores /\ a.n \in Nat /\ SavedRecord(a.session, a.n)
      BY <2>1, HostAssumption DEF AckFrames, HostInv, AcksInv
    <2>3. SavedRecord(a.session, a.n)' BY <1>9, <2>2
    <2>4. a = acks'[i] BY <1>2, <2>1
    <2> QED BY <2>3, <2>4 DEF SavedRecord
  <1>19. RetiredIsSaved'
    <2> SUFFICES ASSUME phase # "idle", NEW n \in Retired
                 PROVE  n \in disk'[session].files /\ n <= disk'[session].meta.count
      BY <1>2 DEF RetiredIsSaved, Retired
    <2>1. session \in Stores BY DEF HostInv, DeviceShapes
    <2> QED BY <1>8, <2>1 DEF HostInv, RetiredIsSaved
  <1>20. EndInv'
    <2> SUFFICES ASSUME NEW st \in Stores, NEW e \in 0 .. Records, EndKnown(st, e)'
                 PROVE  Complete(st, e)'
      BY DEF EndInv
    <2>1. EndKnown(st, e) BY <1>2, <1>8 DEF EndKnown
    <2>2. Complete(st, e) BY <2>1 DEF HostInv, EndInv
    <2>3. st # o.st
      <3> SUFFICES ASSUME st = o.st PROVE FALSE
        OBVIOUS
      <3>1. mem[o.st].count = e BY <1>3, <2>2 DEF Complete, Gone
      <3>2. o.arg <= e BY <1>2, <1>3, <2>2 DEF Complete
      <3> QED BY <1>4, <3>1, <3>2
    <2>4. Last(wire)' = Last(wire) BY <1>2 DEF Last
    <2> QED BY <1>2, <1>7, <1>10, <2>2, <2>3, <2>4 DEF Complete
  <1>21. WaitStartInv'
    <2>1. \A st \in Stores : /\ EndAcked(st)' = EndAcked(st) /\ Excused(st)' = Excused(st)
                             /\ NotClosed(st)' = NotClosed(st)
      BY <1>2 DEF EndAcked, Excused, NotClosed
    <2>2. FinalEnd(parse)' = FinalEnd(parse) BY <1>2 DEF FinalEnd
    <2>3. \A st \in Stores : EndHandled(st)' = EndHandled(st) BY <1>2, <1>10, <2>2 DEF EndHandled
    <2>4. \A st \in Stores : TakenForLost(st)' = TakenForLost(st) BY <1>2, <1>8 DEF TakenForLost
    <2> QED BY <1>2, <2>1, <2>3, <2>4 DEF HostInv, WaitStartInv
  <1> QED BY <1>11, <1>12, <1>13, <1>14, <1>16, <1>17, <1>18, <1>19, <1>20, <1>21 DEF HostInv

-----------------------------------------------------------------------------
(* The theorems.                                                             *)

LEMMA InitHolds ==
  ASSUME HostInit
  PROVE  HostInv
  <1>1. /\ session = 0 /\ phase = "idle" /\ committed = 0 /\ wire = << >>
        /\ backlog = << >> /\ inFlight = << >> /\ air = << >> /\ acks = << >> /\ queue = << >>
        /\ notice = FALSE /\ hostSession = 0 /\ store = NoStore /\ fault = "none"
        /\ aborting = {} /\ parse = Idle /\ replaced = FALSE
        /\ mem = [st \in Stores |-> NoMeta] /\ disk = [st \in Stores |-> NoDir]
        /\ history = [closed |-> {}, broken |-> {}, failed |-> {}]
    BY DEF HostInit, DeviceInit, Log!LogInit
  <1>2. /\ 0 \in 0 .. SessionLimit /\ 0 \in 0 .. Records /\ 0 \notin Stores /\ 0 \in 0 .. session
        /\ \A st \in Stores : st \in Nat /\ st > 0
    BY <1>1, HostAssumption DEF Stores
  <1>3. /\ backlog \in Seq(1 .. Records) /\ inFlight \in Seq(1 .. Records)
        /\ wire \in Seq(WireFrames) /\ air \in Seq(AirFrames) /\ acks \in Seq(AckFrames)
        /\ queue \in Seq(Operations)
        /\ DOMAIN air = {} /\ DOMAIN acks = {} /\ DOMAIN queue = {} /\ DOMAIN backlog = {}
    BY <1>1
  <1>4. Idle \in Parses /\ Idle.frame = NoAir /\ Idle.pc = "idle" /\ Idle.result = "none"
        /\ NoAir.kind = "none" /\ NoAir.session = 0
    BY DEF Idle, Parses, NoAir
  <1>5. NoMeta \in Metas /\ NoMeta.count = 0 /\ NoMeta.status = "none" /\ NoMeta.source = "none"
        /\ ~NoMeta.dirty /\ NoDir.meta = NoMeta /\ NoDir.files = {}
        /\ NoDir \in [meta: Metas, files: SUBSET (1 .. Records)]
    <2>1. NoMeta \in Metas BY <1>2 DEF NoMeta, Metas, Statuses, Sources
    <2> QED BY <2>1 DEF NoMeta, NoDir
  <1>6. \A st \in Stores : mem[st] = NoMeta /\ disk[st] = NoDir BY <1>1
  <1>7. \A st \in Stores : NoOp(st) /\ NoStart(st) /\ Unopened(st) /\ store # st
    BY <1>1, <1>2, <1>3, <1>6 DEF NoOp, NoStart, Unopened, NoStore
  <1>8. DeviceShapes BY <1>1, <1>2, <1>3 DEF DeviceShapes
  <1>9. LoopShapes BY <1>1, <1>2, <1>3, <1>4 DEF LoopShapes, NoStore
  <1>10. StorageShapes
    <2>1. mem \in [Stores -> Metas] BY <1>1, <1>5
    <2>2. disk \in [Stores -> [meta: Metas, files: SUBSET (1 .. Records)]] BY <1>1, <1>5
    <2> QED BY <1>1, <1>5, <1>6, <2>1, <2>2 DEF StorageShapes
  <1>11. ArgumentsInv /\ AbortInv /\ WaiterInv /\ AcksInv
    BY <1>3 DEF ArgumentsInv, AbortInv, WaiterInv, AcksInv
  <1>12. NumbersInv BY <1>1, <1>2, <1>3, <1>4 DEF NumbersInv
  <1>13. StartInv BY <1>3, <1>7 DEF StartInv, Silent
  <1>14. StorageInv
    <2>1. 1 .. 0 = {} OBVIOUS
    <2>2. \A st \in Stores : disk[st].files \in Files(st) BY <1>5, <1>6, <2>1 DEF Files
    <2> QED BY <1>1, <1>5, <1>6, <2>2 DEF StorageInv
  <1>15. ParseInv BY <1>1, <1>4 DEF ParseInv, Waiting
  <1>16. EndInv BY <1>1, <1>3, <1>4, <1>5, <1>6 DEF EndInv, EndKnown, Finishing
  <1>17. WaitStartInv
    <2>1. \A st \in Stores : ~EndAcked(st) /\ ~TakenForLost(st)
      BY <1>1, <1>3, <1>5, <1>6 DEF EndAcked, TakenForLost
    <2> QED BY <1>1, <2>1 DEF WaitStartInv
  <1>18. RetiredIsSaved BY <1>1 DEF RetiredIsSaved
  <1> QED BY <1>8, <1>9, <1>10, <1>11, <1>12, <1>13, <1>14, <1>15, <1>16, <1>17, <1>18 DEF HostInv

LEMMA NextKeeps ==
  ASSUME HostInv, [HostNext]_hostVars
  PROVE  HostInv'
  <1>1. CASE UNCHANGED hostVars
    BY <1>1, KeepsUnchanged DEF hostVars, link
  <1>2. CASE Reconnect
    BY <1>2, KeepsUnchanged DEF Reconnect
  <1>3. CASE DeviceSends
    BY <1>3, KeepsStartSent, KeepsFragmentSent, KeepsEndSent, KeepsAbortSent DEF DeviceSends
  <1>4. CASE DeviceOpens \/ DeviceWorks \/ DeviceAborted \/ AckArrives
    BY <1>4, KeepsDeviceOpens, KeepsDeviceWorks, KeepsDeviceAborted, KeepsAckArrives
  <1>5. CASE FrameIgnored \/ TakeStart \/ TakeRecord \/ TakeEnd \/ TakeAbort
    BY <1>5, KeepsFrameIgnored, KeepsTakeStart, KeepsTakeRecord, KeepsTakeEnd, KeepsTakeAbort
  <1>6. CASE Cancelled \/ Started \/ Saved \/ StorageFailed \/ Drained
    BY <1>6, KeepsParseEnds, KeepsSaved, KeepsStorageFailed
  <1>7. CASE AckWritten \/ AckFails \/ NoteAck \/ Noted \/ Committed
    BY <1>7, KeepsAckWritten, KeepsAckFails, KeepsNoteAck, KeepsNoted, KeepsCommitted
  <1>8. CASE RetryMetadata \/ RetryFailed BY <1>8, KeepsRetry
  <1>9. CASE StorageNoOp \/ FileFails BY <1>9, KeepsStorageNoOp
  <1>10. CASE FileReplaced BY <1>10, KeepsFileReplaced
  <1>11. CASE MetadataWritten \/ MetadataFails \/ ReportFails BY <1>11, KeepsMetadata
  <1>12. CASE Overflow \/ WaitStart \/ ErrorState
    BY <1>12, KeepsOverflow, KeepsWaitStart, KeepsErrorState
  <1>13. CASE \E st \in Stores : AbortSettled(st) BY <1>13, KeepsAbortSettled
  <1>14. CASE DisconnectBegins \/ LinkGone \/ HostRestarts
    BY <1>14, KeepsDisconnectBegins, KeepsLinkGone, KeepsHostRestarts
  <1> QED BY <1>1, <1>2, <1>3, <1>4, <1>5, <1>6, <1>7, <1>8, <1>9, <1>10, <1>11, <1>12, <1>13,
             <1>14 DEF HostNext

\* HostInv is an invariant: what is on the air, held by the parse worker, queued
\* for the storage thread or acked is accounted for in the directories, whatever
\* ble_manager.py's callbacks, the link and the storage do in between.
THEOREM HostInvariant == HostSpec => []HostInv
  <1>1. HostInit => HostInv BY InitHolds
  <1>2. HostInv /\ [HostNext]_hostVars => HostInv' BY NextKeeps
  <1> QED BY <1>1, <1>2, PTL DEF HostSpec

\* Type correctness, and with it that _online_abort_tasks lets no second abort
\* of a session into the storage queue.
THEOREM HostTypeCorrect == HostSpec => []HostTypeOK
  <1>1. HostInv => HostTypeOK
    <2> SUFFICES ASSUME HostInv PROVE HostTypeOK
      OBVIOUS
    <2>1. hostSession \in 0 .. SessionLimit
      <3>1. session \in 0 .. SessionLimit /\ hostSession \in 0 .. session
        BY DEF HostInv, DeviceShapes, LoopShapes
      <3> QED BY <3>1, HostAssumption
    <2>2. store \in {NoStore, hostSession} /\ fault \in {"none", "drain", "stop"}
          /\ aborting \subseteq Stores
      BY DEF HostInv, LoopShapes
    <2>3. \A i \in DOMAIN queue : queue[i].st \in Stores
      BY QueueTypes DEF HostInv, Operations
    <2>4. ASSUME NEW st \in Stores
          PROVE  Cardinality({i \in DOMAIN queue : queue[i].op = "abort" /\ queue[i].st = st}) <= 1
      <3> DEFINE A == {i \in DOMAIN queue : queue[i].op = "abort" /\ queue[i].st = st}
      <3>1. \A i, j \in A : i = j BY DEF HostInv, AbortInv
      <3>2. CASE A = {}
        <4>1. Cardinality(A) = 0 BY <3>2, FS_EmptySet
        <4> QED BY <4>1
      <3>3. CASE A # {}
        <4>1. PICK i : i \in A BY <3>3
        <4>2. A = {i} BY <3>1, <4>1
        <4>3. Cardinality(A) = 1 BY <4>2, FS_Singleton
        <4> QED BY <4>3
      <3> QED BY <3>2, <3>3
    <2>5. \A st \in Stores : /\ disk[st].files \subseteq 1 .. Records
                             /\ disk[st].meta.status \in {"none", "active", "ending", "ended", "aborted"}
                             /\ ~disk[st].meta.dirty
      BY DEF HostInv, StorageShapes, Metas, Statuses
    <2> QED BY <2>1, <2>2, <2>3, <2>4, <2>5 DEF HostTypeOK
  <1> QED BY <1>1, HostInvariant, PTL

\* A record that the device may erase is saved: the host acks a record only when
\* save_record() of the session store has its file and its metadata on disk.
THEOREM RecordsAreSaved == HostSpec => []RetiredIsSaved
  <1>1. HostInv => RetiredIsSaved BY DEF HostInv
  <1> QED BY <1>1, HostInvariant, PTL

\* A session that commit_end() marked "ended" has every record that its END
\* spoke of, and nothing that is under way can change it any more.
THEOREM EndedSessionsAreComplete == HostSpec => []EndedIsComplete
  <1>1. HostInv => EndedIsComplete
    <2> SUFFICES ASSUME HostInv, NEW st \in Stores, disk[st].meta.status = "ended"
                 PROVE  /\ disk[st].meta.count = disk[st].meta.end
                        /\ disk[st].files = 1 .. disk[st].meta.end
                        /\ st = session /\ (phase = "ended" \/ st \in history.closed)
                             => disk[st].meta.end = committed
      BY DEF EndedIsComplete
    <2>1. PICK e \in 0 .. Records : e = disk[st].meta.end
      BY DEF HostInv, StorageShapes, Metas
    <2>2. EndKnown(st, e) BY <2>1 DEF EndKnown, Finishing
    <2>3. Complete(st, e) BY <2>2 DEF HostInv, EndInv
    <2> QED BY <2>1, <2>3 DEF Complete
  <1> QED BY <1>1, HostInvariant, PTL

\* The WAIT_START that follows the ACK of END is not held for the loss of the
\* session: _handle_online_state_notify() knows that END is being finalised.
THEOREM EndIsNotTakenForLoss == HostSpec => []WaitStartIsNoLoss
  <1>1. HostInv => WaitStartIsNoLoss
    BY DEF HostInv, WaitStartInv, TakenForLost, NotClosed, Excused, WaitStartIsNoLoss
  <1> QED BY <1>1, HostInvariant, PTL

\* A metadata write to a session that has ended, in which no operation failed,
\* leaves it ended, or is not the abort of a disconnect or of a restart.
LEMMA WriteKeepsEnded ==
  ASSUME HostInv, WritesMetadata, NEW st \in Stores, First.st = st,
         disk[st].meta.status = "ended", st \notin history.failed
  PROVE  /\ MetaAfter(First).status = "ended"
            \/ MetaAfter(First).source \notin {"host_disconnect", "host_restart"}
  <1>1. queue # << >> BY DEF WritesMetadata
  <1>2. First = queue[1] /\ 1 \in DOMAIN queue /\ First \in Operations /\ ~Gone(st)
    BY <1>1, FirstOperation DEF Gone
  <1>3. PICK m \in Metas : m = mem[st] BY DEF HostInv, StorageShapes
  <1>4. m.status = "ended" BY <1>2, <1>3 DEF HostInv, StorageInv
  <1>5. First.op # "start"
    <2>1. First.op = "start" => disk[st] = NoDir BY <1>2 DEF HostInv, StartInv
    <2> QED BY <2>1 DEF NoDir, NoMeta
  <1>6. CASE First.op = "save"
    <2>1. MetaAfter(First) = [m EXCEPT !.count = @ + 1] BY <1>3, <1>6 DEF MetaAfter
    <2> QED BY <1>3, <1>4, <2>1 DEF Metas
  <1>7. CASE First.op = "stage"
    <2>1. MetaAfter(First) = [m EXCEPT !.status = "ending", !.end = First.arg, !.source = "online_end"]
      BY <1>3, <1>7 DEF MetaAfter
    <2> QED BY <1>3, <2>1 DEF Metas
  <1>8. CASE First.op = "commit"
    <2>1. MetaAfter(First) = [m EXCEPT !.status = "ended", !.source = "online_end_ack"]
      BY <1>3, <1>8 DEF MetaAfter
    <2> QED BY <1>3, <2>1 DEF Metas
  <1>9. CASE First.op = "abort"
    <2>1. First.arg # "host_disconnect"
      BY <1>3, <1>4, <1>9 DEF WritesMetadata, Done, NothingToDo, Skipped
    <2>2. First.arg \in Aborts BY <1>2, <1>9 DEF HostInv, ArgumentsInv
    <2>3. MetaAfter(First) = [m EXCEPT !.status = "aborted", !.source = First.arg]
      BY <1>3, <1>9 DEF MetaAfter
    <2>4. MetaAfter(First).source = First.arg BY <1>3, <2>3 DEF Metas
    <2> QED BY <2>1, <2>2, <2>4 DEF Aborts
  <1>10. CASE First.op \notin {"start", "save", "stage", "commit", "abort"}
    <2>1. MetaAfter(First) = m BY <1>3, <1>10 DEF MetaAfter
    <2> QED BY <1>4, <2>1
  <1> QED BY <1>5, <1>6, <1>7, <1>8, <1>9, <1>10

\* Only these steps write to the directories.
LEMMA DiskWriters ==
  ASSUME [HostNext]_hostVars
  PROVE  disk' = disk \/ FileReplaced \/ MetadataWritten \/ ReportFails \/ HostRestarts
  <1>1. UNCHANGED hostVars => disk' = disk BY DEF hostVars, storage
  <1>2. DeviceOpens \/ DeviceSends \/ DeviceWorks \/ DeviceAborted \/ AckArrives => disk' = disk
    BY DEF DeviceOpens, DeviceSends, Notify, DeviceWorks, DeviceAborted, AckArrives, storage
  <1>3. FrameIgnored \/ TakeStart \/ TakeRecord \/ TakeEnd \/ TakeAbort => disk' = disk
    BY DEF FrameIgnored, TakeStart, TakeRecord, TakeEnd, TakeAbort, Takes, storage
  <1>4. Cancelled \/ Started \/ Saved \/ StorageFailed \/ AckWritten \/ AckFails => disk' = disk
    BY DEF Cancelled, Started, Saved, StorageFailed, Stays, AckWritten, AckFails, storage
  <1>5. NoteAck \/ Noted \/ Committed \/ Drained \/ RetryMetadata \/ RetryFailed => disk' = disk
    BY DEF NoteAck, Noted, Committed, Drained, Stays, RetryMetadata, RetryFailed, storage
  <1>6. StorageNoOp \/ FileFails \/ MetadataFails => disk' = disk
    BY DEF StorageNoOp, FileFails, MetadataFails
  <1>7. Overflow \/ WaitStart \/ ErrorState \/ (\E st \in Stores : AbortSettled(st)) => disk' = disk
    BY DEF Overflow, WaitStart, ErrorState, AbortSettled, storage
  <1>8. DisconnectBegins \/ LinkGone \/ Reconnect => disk' = disk
    BY DEF DisconnectBegins, LinkGone, Reconnect, storage
  <1> QED BY <1>1, <1>2, <1>3, <1>4, <1>5, <1>6, <1>7, <1>8 DEF HostNext

\* An END that was committed outlives the link and the program: the abort that
\* _clear_control_state() queues is skipped for a session that has ended by
\* then, and recover_sessions() aborts only what was active or ending.
THEOREM CommittedEndsStay == HostSpec => EndedOutlivesTheLink
  <1>1. HostInv /\ [HostNext]_hostVars =>
          \A st \in Stores :
            disk[st].meta.status = "ended" /\ st \notin history.failed =>
              \/ disk'[st].meta.status = "ended"
              \/ disk'[st].meta.source \notin {"host_disconnect", "host_restart"}
    <2> SUFFICES ASSUME HostInv, [HostNext]_hostVars, NEW st \in Stores,
                        disk[st].meta.status = "ended", st \notin history.failed
                 PROVE  \/ disk'[st].meta.status = "ended"
                        \/ disk'[st].meta.source \notin {"host_disconnect", "host_restart"}
      OBVIOUS
    <2>0. /\ disk \in [Stores -> [meta: Metas, files: SUBSET (1 .. Records)]]
          /\ disk[st] \in [meta: Metas, files: SUBSET (1 .. Records)]
      BY DEF HostInv, StorageShapes
    <2>1. CASE disk' = disk BY <2>1
    <2>2. CASE FileReplaced
      <3>1. PICK o : o = First OBVIOUS
      <3>2. disk' = [disk EXCEPT ![o.st].files = @ \cup {o.arg}] BY <2>2, <3>1 DEF FileReplaced
      <3>3. disk'[st].meta = disk[st].meta BY <2>0, <3>2
      <3> QED BY <3>3
    <2>3. CASE MetadataWritten \/ ReportFails
      <3>1. PICK o : o = First OBVIOUS
      <3>2. PICK meta : meta = MetaAfter(First) OBVIOUS
      <3>3. WritesMetadata /\ disk' = [disk EXCEPT ![o.st].meta = Clean(meta)]
        BY <2>3, <3>1, <3>2 DEF MetadataWritten, ReportFails
      <3>4. CASE o.st # st
        <4>1. disk'[st] = disk[st] BY <2>0, <3>3, <3>4
        <4> QED BY <4>1
      <3>5. CASE o.st = st
        <4>1. disk'[st].meta = Clean(meta) BY <2>0, <3>3, <3>5
        <4>2. meta \in Metas BY <3>1, <3>2, <3>3, MetaAfterFacts
        <4>3. Clean(meta).status = meta.status /\ Clean(meta).source = meta.source
          BY <4>2 DEF Clean, Metas
        <4>4. meta.status = "ended" \/ meta.source \notin {"host_disconnect", "host_restart"}
          BY <3>1, <3>2, <3>3, <3>5, WriteKeepsEnded
        <4> QED BY <4>1, <4>3, <4>4
      <3> QED BY <3>4, <3>5
    <2>4. CASE HostRestarts
      <3>1. disk'[st] = Recovered(disk[st]) BY <2>4 DEF HostRestarts
      <3>2. disk'[st] = disk[st] BY <3>1 DEF Recovered, Unsettled
      <3> QED BY <3>2
    <2> QED BY <2>1, <2>2, <2>3, <2>4, DiskWriters
  <1> QED BY <1>1, HostInvariant, PTL DEF HostSpec, EndedOutlivesTheLink
=============================================================================
