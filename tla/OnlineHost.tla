----------------------------- MODULE OnlineHost -----------------------------
(***************************************************************************)
(* The host's end of an online session: what ble_manager.py does with the   *)
(* frames of a session and with the results of its storage, the one storage *)
(* thread of online_storage_worker.py, and the session directories of       *)
(* online_store.py.  The other end is OnlineDevice, which the firmware's    *)
(* stream implements.                                                       *)
(*                                                                         *)
(* One asyncio task, the parse worker, handles the frames one by one, and   *)
(* waits for the storage and for the writes of its ACKs.  At every such     *)
(* wait the other callbacks may run: a disconnect, a state notification, a  *)
(* fault.  They revoke what is waited for (the epoch), queue an abort of    *)
(* the session, and the wait ends in a cancellation, which also ends the    *)
(* parse worker until the next notification starts it again.                *)
(*                                                                         *)
(* A session is stored in a directory, and its store goes by the number of  *)
(* the session.  A record is one frame.                                     *)
(***************************************************************************)
EXTENDS OnlineDevice, FiniteSets

CONSTANTS
  AirLimit,    \* bound: frames and ACKs between the device and the parse worker
  Faults       \* bound: what may go wrong, apart from the link and the device

ASSUME HostAssumption ==
  /\ Records \in Nat /\ SessionLimit \in Nat /\ AirLimit \in Nat \ {0}
  /\ Faults \subseteq {"disk", "report", "write", "overflow", "state", "restart"}

Stores  == 1 .. SessionLimit
NoStore == 0

VARIABLES
  air,        \* notifications on the link and in the queue of the parse worker
  acks,       \* ACK commands on their way to the device
  notice,     \* the device's WAIT_START notification is on its way
  lost,       \* the session of the device has lost its link
  client,     \* the host's connection: up, closing, or down
  hostActive,   \* _online_active
  hostSession,  \* _online_session_id, or 0
  store,      \* _online_store: that of a session, or one without a directory
  fault,      \* none, drain (everything was saved and acked), or stop
  parse,      \* what the parse worker waits for
  retry,      \* the retry of a metadata write: none, due, or flushing
  aborting,   \* the stores with an abort under way: _online_abort_tasks
  queue,      \* the operations submitted to the storage thread
  replaced,   \* the record file of the first of them is in place
  mem,        \* store.metadata, the storage thread's
  snap,       \* the snapshots the event loop sees of it
  disk,       \* the session directories
  history     \* of sessions: those the ACK of END closed, those where the
              \* write of an ACK failed or that the host itself left, and those
              \* where an operation of the storage failed


link     == << air, acks, notice, lost, client >>
loop     == << hostActive, hostSession, store, fault, retry, aborting >>
storage  == << replaced, mem, snap, disk >>
hostVars == << device, link, loop, parse, queue, storage, history >>

NoMeta == [status |-> "none", count |-> 0, end |-> 0, source |-> "none", dirty |-> FALSE]
NoDir  == [meta |-> NoMeta, files |-> {}]
NoAir  == [kind |-> "none", n |-> 0, session |-> 0]
Idle   == [pc |-> "idle", frame |-> NoAir, current |-> TRUE, result |-> "none"]
Dead   == [Idle EXCEPT !.pc = "dead"]
Unsettled == {"active", "ending"}

HostInit ==
  /\ DeviceInit
  /\ air = << >> /\ acks = << >> /\ notice = FALSE /\ lost = FALSE /\ client = "up"
  /\ hostActive = FALSE /\ hostSession = 0 /\ store = NoStore /\ fault = "none"
  /\ retry = "none" /\ aborting = {} /\ parse = Idle /\ queue = << >>
  /\ replaced = FALSE
  /\ mem = [st \in Stores |-> NoMeta] /\ snap = [st \in Stores |-> NoMeta]
  /\ disk = [st \in Stores |-> NoDir]
  /\ history = [closed |-> {}, broken |-> {}, failed |-> {}]

-----------------------------------------------------------------------------
(* The device and the link.                                                  *)

\* END carries the number of records of the session as its n.
OnAir(frame) ==
  [kind |-> frame.kind, session |-> session,
   n |-> IF frame.kind = "end" THEN committed ELSE frame.n]

\* A notification wakes a parse worker that was cancelled.
Woken == IF parse.pc = "dead" THEN Idle ELSE parse

Notify(send, frame) ==
  /\ client # "down" /\ ~lost /\ Len(air) + Len(acks) < AirLimit
  /\ send
  /\ air' = Append(air, OnAir(frame)) /\ parse' = Woken
  /\ UNCHANGED << acks, notice, lost, client, loop, queue, storage, history >>

\* The host asks for a session only on a device that waits for one.
DeviceOpens ==
  /\ client = "up" /\ ~notice /\ Open
  /\ lost' = FALSE
  /\ UNCHANGED << air, acks, notice, client, loop, parse, queue, storage, history >>

DeviceSends ==
  \/ Notify(SendStart, StartFrame)
  \/ Notify(SendFragment, NextFragment)
  \/ Notify(Straggler, NextFragment)
  \/ Notify(SendEnd, EndFrame)
  \/ Notify(SendAbort, AbortFrame)

DeviceWorks ==
  /\ Commit \/ Fail
  /\ UNCHANGED << link, loop, parse, queue, storage, history >>

DeviceAborted ==
  /\ phase = "aborting" /\ Close
  /\ notice' = (client # "down" /\ ~lost)
  /\ UNCHANGED << air, acks, lost, client, loop, parse, queue, storage, history >>

IsOldest(ack) == ack.n # 0 /\ inFlight # << >> /\ Head(inFlight) = ack.n

\* Mistake: an ACK is known by the number of its record alone.
AnyAck(ack) == ~lost

AckIsMine(ack) == ack.session = session /\ ~lost

\* An ACK that is late, repeated or of another session changes nothing; one
\* that was being handled when the session failed may still retire its record.
AckArrives ==
  /\ acks # << >> /\ acks' = Tail(acks)
  /\ LET ack == Head(acks)
         mine == AckIsMine(ack)
     IN  CASE mine /\ phase = "open" /\ IsOldest(ack) -> AckRecord /\ UNCHANGED << notice, history >>
           [] mine /\ phase = "aborting" /\ IsOldest(ack) ->
                (AckRecord \/ UNCHANGED device) /\ UNCHANGED << notice, history >>
           [] mine /\ phase = "ended" /\ ack.n = 0 ->
                /\ Close /\ notice' = TRUE
                /\ history' = [history EXCEPT !.closed = @ \cup {session}]
           [] OTHER -> UNCHANGED << device, notice, history >>
  /\ UNCHANGED << air, lost, client, loop, parse, queue, storage >>

-----------------------------------------------------------------------------
(* Aborts, errors and faults of the host.                                    *)

Op(op, st, arg, waiter) == [op |-> op, st |-> st, arg |-> arg, waiter |-> waiter]

\* The operations stay in the queue; who is no longer there does not wait.
Without(waiters, ops) ==
  [i \in DOMAIN ops |-> IF ops[i].waiter \in waiters
                        THEN [ops[i] EXCEPT !.waiter = "nobody"] ELSE ops[i]]

\* Mistake: an abort is queued whether or not one is under way.
AbortAgain(st, source, ops) ==
  IF st = NoStore THEN queue' = ops /\ UNCHANGED aborting
  ELSE queue' = Append(ops, Op("abort", st, source, "nobody"))
       /\ aborting' = aborting \cup {st}

\* One abort of a store at a time; a store without a directory has none.
AbortAs(st, source, ops) ==
  IF st = NoStore \/ st \in aborting THEN queue' = ops /\ UNCHANGED aborting
  ELSE queue' = Append(ops, Op("abort", st, source, "nobody"))
       /\ aborting' = aborting \cup {st}

AfterEpoch == IF retry = "flushing" THEN "none" ELSE retry

\* _handle_online_error() begins a new epoch: who waits, waits in vain.
HandleError(source) ==
  /\ hostActive' = FALSE /\ retry' = AfterEpoch
  /\ AbortAs(store, source, Without({"retry"}, queue))

Revoked(p) == [p EXCEPT !.current = FALSE]

\* _begin_online_fault(), for all but a metadata write that failed three times.
BeginFault ==
  /\ fault' = "stop"
  /\ IF fault = "none" THEN HandleError("host_online_fault")
                       ELSE UNCHANGED << hostActive, retry, queue, aborting >>

FaultOf(p) == IF fault = "none" THEN Revoked(p) ELSE p

\* The notification queue of the host is full.
Overflow ==
  /\ "overflow" \in Faults /\ client # "down"
  /\ air # << >> /\ (hostActive \/ hostSession # 0)
  /\ air' = Front(air) /\ BeginFault /\ parse' = FaultOf(parse)
  /\ UNCHANGED << device, acks, notice, lost, client, hostSession, store,
                  storage, history >>

\* Mistake: WAIT_START while END is being finalised is taken for a loss.
NeverFinalizing == FALSE

\* END was acked, or is about to be: WAIT_START is what is expected then.
Finalizing ==
  /\ parse.pc \in {"acking", "acked", "noting", "committing"}
  /\ parse.frame.kind = "end" /\ parse.current

\* _handle_online_state_notify() of WAIT_START.  A session lasts longer than
\* its START is queued.
WaitStart ==
  /\ notice /\ client # "down" /\ \A i \in DOMAIN air : air[i].kind # "start"
  /\ notice' = FALSE
  /\ IF hostActive /\ ~Finalizing
     THEN HandleError("wait_start") /\ parse' = Revoked(parse)
     ELSE UNCHANGED << hostActive, retry, queue, aborting, parse >>
  /\ UNCHANGED << device, air, acks, lost, client, hostSession, store, fault,
                  storage, history >>

\* The same of an error state.
ErrorState ==
  /\ "state" \in Faults /\ client # "down" /\ hostActive
  /\ HandleError("device_state") /\ parse' = Revoked(parse)
  /\ UNCHANGED << device, link, hostSession, store, fault, storage, history >>

AbortSettled(st) ==
  /\ st \in aborting /\ \A i \in DOMAIN queue : ~(queue[i].op = "abort" /\ queue[i].st = st)
  /\ aborting' = aborting \ {st}
  /\ UNCHANGED << device, link, hostActive, hostSession, store, fault, retry, parse,
                  queue, storage, history >>

-----------------------------------------------------------------------------
(* The link goes down: _safe_disconnect() and _handle_disconnected().        *)

Ack(frame) == [session |-> frame.session, n |-> IF frame.kind = "end" THEN 0 ELSE frame.n]

\* A write that was started may have reached the device or not.
Attempted ==
  {acks} \cup IF parse.pc = "acking" /\ parse.current
             THEN {Append(acks, Ack(parse.frame))} ELSE {}

\* A disconnect of the user, or of a fault that was not answered in time.
DisconnectBegins ==
  /\ client = "up" /\ client' = "closing"
  /\ history' = [history EXCEPT !.broken = @ \cup {hostSession}]
  /\ acks' \in Attempted
  /\ parse' = Dead /\ retry' = AfterEpoch /\ queue' = Without({"parse", "retry"}, queue)
  /\ UNCHANGED << device, air, notice, lost, hostActive, hostSession, store, fault,
                  aborting, storage >>

\* Mistake: whether a session is open is read from its metadata, which its
\* START may not have reached yet.
OpenInMetadata == store # NoStore /\ snap[store].status \in Unsettled

SessionIsOpen == hostActive \/ OpenInMetadata

\* _clear_control_state(): the session, if one is open, is aborted.
LinkGone ==
  /\ client # "down" /\ client' = "down"
  /\ air' = << >> /\ acks' = << >> /\ notice' = FALSE
  /\ lost' = (lost \/ phase # "idle")
  /\ IF SessionIsOpen
     THEN AbortAs(store, "host_disconnect", Without({"parse", "retry"}, queue))
     ELSE queue' = Without({"parse", "retry"}, queue) /\ UNCHANGED aborting
  /\ hostActive' = FALSE /\ hostSession' = 0 /\ store' = NoStore
  /\ fault' = "none" /\ retry' = "none" /\ parse' = Idle
  /\ UNCHANGED << device, storage, history >>

\* The device has heard of it, and its session says no more.
Reconnect ==
  /\ client = "down" /\ client' = "up"
  /\ phase \in {"idle", "aborting"}
  /\ UNCHANGED << device, air, acks, notice, lost, loop, parse, queue, storage, history >>

Recovered(dir) ==
  IF dir.meta.status \in Unsettled
  THEN [dir EXCEPT !.meta.status = "aborted", !.meta.source = "host_restart"] ELSE dir

\* The program stops at any point and is started again.
HostRestarts ==
  /\ "restart" \in Faults
  /\ disk' = [st \in Stores |-> Recovered(disk[st])]
  /\ mem' = [st \in Stores |-> NoMeta] /\ snap' = mem' /\ replaced' = FALSE
  /\ client' = "down" /\ air' = << >> /\ acks' = << >> /\ notice' = FALSE
  /\ lost' = (lost \/ phase # "idle")
  /\ hostActive' = FALSE /\ hostSession' = 0 /\ store' = NoStore /\ fault' = "none"
  /\ retry' = "none" /\ aborting' = {} /\ parse' = Idle /\ queue' = << >>
  /\ UNCHANGED << device, history >>

-----------------------------------------------------------------------------
(* The parse worker: _process_online_notification() and _event().            *)

StatusOf(st) == IF st = NoStore THEN "none" ELSE snap[st].status

Submit(op, arg) == queue' = Append(queue, Op(op, store, arg, "parse"))
Waits(pc, frame) == parse' = [pc |-> pc, frame |-> frame, current |-> TRUE, result |-> "none"]

\* Late frames of a session that is over, and all but ABORT after a fault.
Ignored(frame) ==
  \/ ~hostActive /\ frame.kind = "record"
  \/ ~hostActive /\ frame.kind = "end" /\ StatusOf(store) \notin {"ending", "ended"}
  \/ fault # "none" /\ frame.kind = "start"
  \/ fault = "stop" /\ frame.kind # "abort"

Takes(kind) ==
  /\ parse.pc = "idle" /\ air # << >> /\ Head(air).kind = kind /\ air' = Tail(air)
  /\ UNCHANGED << device, acks, notice, lost, client, storage, history >>

FrameIgnored ==
  \E kind \in {"start", "record", "end"} :
    Takes(kind) /\ Ignored(Head(air)) /\ UNCHANGED << loop, parse, queue >>

TakeStart ==
  /\ Takes("start") /\ ~Ignored(Head(air))
  /\ LET begun == Op("start", Head(air).session, 0, "parse")
     IN  IF StatusOf(store) \in Unsettled /\ store \notin aborting
         THEN /\ queue' = queue \o << Op("abort", store, "host_online_fault", "nobody"), begun >>
              /\ aborting' = aborting \cup {store}
         ELSE queue' = Append(queue, begun) /\ UNCHANGED aborting
  /\ store' = Head(air).session /\ hostSession' = Head(air).session
  /\ hostActive' = TRUE /\ fault' = "none" /\ retry' = "none"
  /\ Waits("starting", Head(air))

TakeRecord ==
  /\ Takes("record") /\ ~Ignored(Head(air))
  /\ UNCHANGED << hostSession, store >>
  /\ IF Head(air).session = hostSession
     THEN /\ Submit("save", Head(air).n) /\ Waits("saving", Head(air))
          /\ UNCHANGED << hostActive, fault, retry, aborting >>
     ELSE BeginFault /\ UNCHANGED parse

\* An END that is known is acked again.
TakeEnd ==
  /\ Takes("end") /\ ~Ignored(Head(air))
  /\ UNCHANGED << hostSession, store >>
  /\ CASE Head(air).session # hostSession -> BeginFault /\ UNCHANGED parse
       [] Head(air).session = hostSession /\ StatusOf(store) \in {"ending", "ended"} ->
            /\ Waits("acking", Head(air))
            /\ UNCHANGED << hostActive, fault, retry, aborting, queue >>
       [] OTHER ->
            /\ Submit("stage", Head(air).n) /\ Waits("staging", Head(air))
            /\ UNCHANGED << hostActive, fault, retry, aborting >>

TakeAbort ==
  /\ Takes("abort")
  /\ UNCHANGED << hostSession, store >>
  /\ CASE fault # "none" ->
            HandleError("host_online_fault") /\ Waits("draining", Head(air)) /\ UNCHANGED fault
       [] fault = "none" /\ Head(air).session = hostSession ->
            HandleError("online_abort") /\ UNCHANGED << fault, parse >>
       [] OTHER -> BeginFault /\ UNCHANGED parse

\* What was waited for is there.
Resumes(pc, result) == parse.pc = pc /\ parse.current /\ parse.result = result

Stays == UNCHANGED << device, link, hostSession, store, storage >>

Cancelled ==
  /\ parse.result # "none" /\ ~parse.current
  /\ parse' = Dead
  /\ UNCHANGED << device, link, loop, queue, storage, history >>

Started ==
  /\ Resumes("starting", "ok") /\ parse' = Idle
  /\ UNCHANGED << device, link, loop, queue, storage, history >>

\* Mistake: the ACK does not wait for the answer of the storage.
AckedUnsaved == {"ok", "error"}

\* The results of the storage after which a record, or END, is acked.
AckedAfter == {"ok"}

Saved ==
  /\ parse.pc \in {"saving", "staging"} /\ parse.current /\ parse.result \in AckedAfter
  /\ Waits("acking", parse.frame)
  /\ UNCHANGED << device, link, loop, queue, storage, history >>

StorageFailed ==
  /\ parse.pc \in {"starting", "saving", "staging", "committing"}
  /\ parse.current /\ parse.result = "error"
  /\ parse' = Idle /\ BeginFault
  /\ UNCHANGED history /\ Stays

AckWritten ==
  /\ parse.pc = "acking" /\ parse.current /\ client # "down"
  /\ acks' = Append(acks, Ack(parse.frame)) /\ parse' = [parse EXCEPT !.pc = "acked"]
  /\ UNCHANGED << device, air, notice, lost, client, loop, queue, storage, history >>

\* The guard of the write refuses it, or the write fails.
AckFails ==
  /\ parse.pc = "acking" /\ ("write" \in Faults \/ ~parse.current)
  /\ parse' = Idle
  /\ acks' \in Attempted
  /\ history' = [history EXCEPT !.broken = @ \cup {parse.frame.session}]
  /\ UNCHANGED << device, air, notice, lost, client, loop, queue, storage >>

NoteAck ==
  /\ parse.pc = "acked"
  /\ IF parse.current THEN Submit("note", 0) /\ Waits("noting", parse.frame)
                      ELSE parse' = Idle /\ UNCHANGED queue
  /\ UNCHANGED << device, link, loop, storage, history >>

Noted ==
  /\ parse.pc = "noting" /\ parse.current /\ parse.result # "none"
  /\ retry' = IF parse.result = "error" /\ retry = "none" THEN "due" ELSE retry
  /\ IF parse.frame.kind = "end"
     THEN Submit("commit", 0) /\ Waits("committing", parse.frame)
     ELSE parse' = Idle /\ UNCHANGED queue
  /\ UNCHANGED << device, link, hostActive, hostSession, store, fault, aborting,
                  storage, history >>

Committed ==
  /\ Resumes("committing", "ok")
  /\ IF fault = "none"
     THEN hostActive' = FALSE /\ parse' = Idle /\ UNCHANGED << retry, aborting, queue >>
     ELSE HandleError("host_online_fault") /\ Waits("draining", parse.frame)
  /\ UNCHANGED << fault, history >> /\ Stays

\* The terminal frame of a faulted session was taken and all is written.
Drained ==
  /\ parse.pc = "draining" /\ queue = << >> /\ aborting = {}
  /\ parse' = Idle /\ fault' = "none"
  /\ UNCHANGED << hostActive, retry, aborting, queue, history >> /\ Stays

\* _retry_online_metadata()
RetryMetadata ==
  /\ retry = "due"
  /\ IF store # NoStore /\ fault = "none" /\ snap[store].dirty
     THEN queue' = Append(queue, Op("flush", store, 0, "retry")) /\ retry' = "flushing"
     ELSE retry' = "none" /\ UNCHANGED queue
  /\ UNCHANGED << device, link, hostActive, hostSession, store, fault, aborting, parse,
                  storage, history >>

\* The third time it is a fault, but END is still waited for.
RetryFailed ==
  /\ retry = "failed"
  /\ \/ retry' = "due" /\ UNCHANGED << fault, queue, aborting >>
     \/ /\ retry' = "none"
        /\ IF fault = "none"
           THEN fault' = "drain" /\ AbortAs(store, "host_online_fault", queue)
           ELSE UNCHANGED << fault, queue, aborting >>
  /\ UNCHANGED << device, link, hostActive, hostSession, store, parse, storage, history >>

-----------------------------------------------------------------------------
(* The storage thread.                                                       *)

\* The operation ends: the snapshot is published and the waiter has a result.
Ends(op, result, meta) ==
  /\ queue' = Tail(queue) /\ replaced' = FALSE
  /\ mem' = [mem EXCEPT ![op.st] = meta] /\ snap' = [snap EXCEPT ![op.st] = meta]
  /\ parse' = IF op.waiter = "parse" THEN [parse EXCEPT !.result = result] ELSE parse
  /\ retry' = CASE op.waiter = "retry" /\ result = "ok"    -> "none"
                 [] op.waiter = "retry" /\ result = "error" -> "failed"
                 [] OTHER                                   -> retry
  /\ history' = IF result = "ok" THEN history ELSE [history EXCEPT !.failed = @ \cup {op.st}]
  /\ UNCHANGED << device, link, hostActive, hostSession, store, fault, aborting >>

\* Mistake: a disconnect aborts its session, whatever was committed since the
\* abort was queued.
NothingSkipped(op) == FALSE

\* A disconnect does not abort a session that has ended by then.
Skipped(op) ==
  op.op = "abort" /\ op.arg = "host_disconnect" /\ mem[op.st].status = "ended"

WasStaged(st) == mem[st].status \in {"ending", "ended"}

Refused(op) ==
  \/ op.op = "save" /\ op.arg # mem[op.st].count + 1
  \/ op.op = "commit" /\ ~WasStaged(op.st)

NothingToDo(op) == Skipped(op) \/ (op.op = "flush" /\ ~mem[op.st].dirty)

MetaAfter(op) ==
  LET meta == mem[op.st]
  IN  CASE op.op = "start"  -> [NoMeta EXCEPT !.status = "active"]
        [] op.op = "save"   -> [meta EXCEPT !.count = @ + 1]
        [] op.op = "stage"  -> [meta EXCEPT !.status = "ending", !.end = op.arg,
                                            !.source = "online_end"]
        [] op.op = "commit" -> [meta EXCEPT !.status = "ended", !.source = "online_end_ack"]
        [] op.op = "abort"  -> [meta EXCEPT !.status = "aborted", !.source = op.arg]
        [] OTHER            -> meta

First == Head(queue)
Done  == Refused(First) \/ NothingToDo(First)

StorageNoOp ==
  /\ queue # << >> /\ Done /\ ~replaced
  /\ Ends(First, IF Refused(First) THEN "error" ELSE "ok", mem[First.st])
  /\ UNCHANGED disk

\* A record is stored in two steps: its file, then the metadata.
FileReplaced ==
  /\ queue # << >> /\ First.op = "save" /\ ~Done /\ ~replaced
  /\ replaced' = TRUE
  /\ disk' = [disk EXCEPT ![First.st].files = @ \cup {First.arg}]
  /\ UNCHANGED << device, link, loop, parse, queue, mem, snap, history >>

\* The file of the record, or the header file that is written behind it.
FileFails ==
  /\ "disk" \in Faults
  /\ queue # << >> /\ First.op = "save" /\ ~Done
  /\ Ends(First, "error", mem[First.st])
  /\ UNCHANGED disk

WritesMetadata ==
  queue # << >> /\ IF First.op = "save" THEN replaced ELSE ~Done

Clean(meta) == [meta EXCEPT !.dirty = FALSE]

MetadataWritten ==
  /\ WritesMetadata
  /\ Ends(First, "ok", Clean(MetaAfter(First)))
  /\ disk' = [disk EXCEPT ![First.st].meta = Clean(MetaAfter(First))]

MetadataFails ==
  /\ "disk" \in Faults /\ WritesMetadata
  /\ Ends(First, "error", [MetaAfter(First) EXCEPT !.dirty = TRUE])
  /\ UNCHANGED disk

\* The metadata of the terminal state is written, the report after it is not.
ReportFails ==
  /\ "report" \in Faults /\ WritesMetadata /\ First.op \in {"commit", "abort"}
  /\ Ends(First, "error", Clean(MetaAfter(First)))
  /\ disk' = [disk EXCEPT ![First.st].meta = Clean(MetaAfter(First))]

-----------------------------------------------------------------------------
ParseStep ==
  \/ FrameIgnored \/ TakeStart \/ TakeRecord \/ TakeEnd \/ TakeAbort
  \/ Cancelled \/ Started \/ Saved \/ StorageFailed
  \/ AckWritten \/ AckFails \/ NoteAck \/ Noted \/ Committed \/ Drained

StorageStep ==
  \/ StorageNoOp \/ FileReplaced \/ FileFails
  \/ MetadataWritten \/ MetadataFails \/ ReportFails

HostNext ==
  \/ DeviceOpens \/ DeviceSends \/ DeviceWorks \/ DeviceAborted \/ AckArrives
  \/ FrameIgnored \/ TakeStart \/ TakeRecord \/ TakeEnd \/ TakeAbort
  \/ Cancelled \/ Started \/ Saved \/ StorageFailed
  \/ AckWritten \/ AckFails \/ NoteAck \/ Noted \/ Committed \/ Drained
  \/ RetryMetadata \/ RetryFailed
  \/ StorageNoOp \/ FileReplaced \/ FileFails
  \/ MetadataWritten \/ MetadataFails \/ ReportFails
  \/ Overflow \/ WaitStart \/ ErrorState
  \/ \E st \in Stores : AbortSettled(st)
  \/ DisconnectBegins \/ LinkGone \/ Reconnect \/ HostRestarts

HostSpec == HostInit /\ [][HostNext]_hostVars

\* The storage thread and the parse worker go on, a notification that was sent
\* is delivered while the link is up, and a disconnect that was begun is done.
HostFairSpec ==
  /\ HostSpec
  /\ WF_hostVars(StorageStep) /\ WF_hostVars(ParseStep) /\ WF_hostVars(WaitStart)
  /\ WF_hostVars(\E st \in Stores : AbortSettled(st))
  /\ WF_hostVars(client = "closing" /\ LinkGone)

-----------------------------------------------------------------------------
(* Properties.                                                               *)

\* The event loop, the storage queue (one abort of a session at a time) and the
\* directories stay in their ranges; what is on disk is never marked dirty.
HostTypeOK ==
  /\ hostSession \in 0 .. SessionLimit /\ store \in {NoStore, hostSession}
  /\ fault \in {"none", "drain", "stop"}
  /\ \A i \in DOMAIN queue : queue[i].st \in Stores
  /\ \A st \in Stores :
       Cardinality({i \in DOMAIN queue : queue[i].op = "abort" /\ queue[i].st = st}) <= 1
  /\ aborting \subseteq Stores
  /\ \A st \in Stores :
       /\ disk[st].files \subseteq 1 .. Records
       /\ disk[st].meta.status \in {"none", "active", "ending", "ended", "aborted"}
       /\ ~disk[st].meta.dirty

Retired == (1 .. committed) \ (ToSet(backlog) \cup ToSet(inFlight))

\* A record that the device may erase is in a directory of its session, in
\* its file and in the metadata.
RetiredIsSaved ==
  phase # "idle" =>
    \A n \in Retired : n \in disk[session].files /\ n <= disk[session].meta.count

\* A session that is "ended" on disk has every record that its END spoke of,
\* which is all that a device produced that did not fail after that END.
EndedIsComplete ==
  \A st \in Stores :
    disk[st].meta.status = "ended" =>
      /\ disk[st].meta.count = disk[st].meta.end
      /\ disk[st].files = 1 .. disk[st].meta.end
      /\ st = session /\ (phase = "ended" \/ st \in history.closed)
           => disk[st].meta.end = committed

\* A disconnect or a restart of the program never takes back an END that was
\* committed, even when its abort was queued before the commit was done, as
\* long as the storage did not fail in that session.
EndedOutlivesTheLink ==
  [][\A st \in Stores :
       disk[st].meta.status = "ended" /\ st \notin history.failed =>
         \/ disk'[st].meta.status = "ended"
         \/ disk'[st].meta.source \notin {"host_disconnect", "host_restart"}]_hostVars

\* The WAIT_START of a device that took the ACK of END is not held for a lost
\* session, unless the host took that ACK for failed, could not store the
\* session, or was leaving it.
WaitStartIsNoLoss ==
  \A st \in Stores :
    disk[st].meta.source = "wait_start" =>
      st \notin history.closed \/ st \in history.broken \cup history.failed

\* The directory of a session that is over on the device does not stay open:
\* it is ended or aborted, by its END, by the WAIT_START or by the disconnect.
SettlesOnDisk ==
  \A st \in Stores :
    (disk[st].meta.status \in Unsettled /\ (st # session \/ phase = "idle"))
      ~> disk[st].meta.status \in {"ended", "aborted"}
=============================================================================
