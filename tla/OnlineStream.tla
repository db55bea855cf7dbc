---------------------------- MODULE OnlineStream ----------------------------
(***************************************************************************)
(* The stream of an online session: zy100_online_stream_v2.c, and the App   *)
(* task and the capture task that drive it.                                 *)
(*                                                                         *)
(* Frames are built in the buffers (slots) of a small ring.  The capture    *)
(* task stages fragments of committed records: it looks at the spool, takes *)
(* a slot, reads Flash into it and publishes it; it blocks on the Flash, so *)
(* staging is three steps.  The App task, of a lower priority, handles one  *)
(* event at a time: it picks a ready slot and hands it to the BLE stack,    *)
(* retires it when the stack reports it sent, takes ACKs, and ends the      *)
(* session.  The capture task may run between any two of its steps, and may *)
(* abort the session there.  Once the capture is over the App task stages   *)
(* what is left itself.                                                     *)
(*                                                                         *)
(* A record is its number, a position in it the count of its fragments.     *)
(* Timers are abstract: a timeout may come whenever what it times is        *)
(* pending.  There is one link at a time, so connection ids are left out.   *)
(***************************************************************************)
EXTENDS Integers, Sequences, FiniteSets, SequencesExt

CONSTANTS
  SlotCount,     \* ZY100_ONLINE_V2_TX_WINDOW_SLOTS
  Window,        \* ZY100_ONLINE_RECORD_IN_FLIGHT_MAX
  Records,       \* bound: records of a session
  Fragments,     \* frames of a record
  SessionLimit,  \* bound: sessions that are opened
  Faults,        \* bound: what may fail by itself, apart from the link and the peer
  StressStatus   \* whether status frames are sent: ZY100_ONLINE_STRESS_TEST_ENABLE

ASSUME StreamAssumption ==
  /\ SlotCount \in Nat \ {0} /\ Window \in Nat \ {0}
  /\ Records \in Nat /\ Fragments \in Nat \ {0} /\ SessionLimit \in Nat
  /\ Faults \subseteq {"flash", "capture", "app", "transport", "sending", "battery"}
  /\ StressStatus \in BOOLEAN

Slots   == 1 .. SlotCount
NoSlot  == 0
Reasons == {"host_stop", "low_battery", "fault"}

VARIABLES
  active, readyLatched,
  startSent, endReq, endWait, endAcked,            \* end_requested, ...
  abortReq, cleanupReady, abortAccepted, discard,  \* abort_requested, ...
  linkDown,        \* link_disconnected
  stopReason,
  stopReport,      \* stop_complete_reason and _timeout of the last session
  generation,      \* session_generation
  tx,              \* the record being sent: none (0), and the two positions in it
  ring,            \* tx_ring
  ready,           \* the READY slots by ready_order
  selected,        \* tx_selected_slot, tx_view_pending
  completions,     \* tx_complete_slots; its length is tx_in_flight too
  ackWait,         \* the records and the END (0) that wait for their ACK
  workspace,       \* the buffers are ours (workspace_token)
  app,             \* what the App task is in the middle of
  stager,          \* the same of the stager
  capturing,       \* the capture task runs
  dropped,         \* a produced record was not committed
  overtaken,       \* history: a stop was named over the fault of an abort
  session, committed, backlog, inFlight,   \* the spool, as RecordLog has it
  wire,            \* history: the frames the stack took in this session
  link, connected, \* external: the link, and whether App knows it is up
  stack, sentBack  \* external: slots the stack holds, and reported sent to App

ending   == << endReq, endWait, endAcked >>
aborting == << abortReq, abortAccepted, discard >>
stopping == << ending, aborting, cleanupReady >>
sending  == << tx, ackWait >>
outcome  == << stopReason, stopReport >>
slots    == << ring, ready, selected, completions >>
spool    == << committed, backlog, inFlight >>
capture  == << capturing, dropped, overtaken >>
external == << link, connected, stack, sentBack >>
opening  == << active, readyLatched, startSent, session, workspace >>
vars == << opening, stopping, outcome, generation, linkDown, sending, slots,
           spool, app, stager, capture, wire, external >>

Log == INSTANCE RecordLog WITH Records <- 1 .. Records

Frame(kind, n, f) == [kind |-> kind, n |-> n, f |-> f]
NoFrame == Frame("none", 0, 0)
FreeSlot == [state |-> "FREE", frame |-> NoFrame, gen |-> 0, pending |-> FALSE]
NoTx     == [n |-> 0, sent |-> 0, staged |-> 0]
NoStage  == [pc |-> "idle", n |-> 0, f |-> 0, gen |-> 0, slot |-> NoSlot]
AppIdle  == [pc |-> "idle", what |-> "none", slot |-> NoSlot, n |-> 0]
NoReport == [reason |-> "none", timeout |-> FALSE]

StreamInit ==
  /\ active = FALSE /\ readyLatched = FALSE
  /\ startSent = FALSE /\ endReq = FALSE /\ endWait = FALSE /\ endAcked = FALSE
  /\ abortReq = FALSE /\ cleanupReady = FALSE /\ abortAccepted = FALSE
  /\ discard = FALSE /\ linkDown = FALSE
  /\ stopReason = "none" /\ stopReport = NoReport /\ generation = 0
  /\ tx = NoTx /\ ring = [s \in Slots |-> FreeSlot]
  /\ ready = << >> /\ selected = NoSlot /\ completions = << >> /\ workspace = FALSE
  /\ ackWait = << >> /\ app = AppIdle /\ stager = NoStage
  /\ capturing = FALSE /\ dropped = FALSE /\ overtaken = FALSE
  /\ session = 0 /\ committed = 0 /\ Log!LogInit /\ wire = << >>
  /\ link = "up" /\ connected = TRUE /\ stack = << >> /\ sentBack = << >>

-----------------------------------------------------------------------------
(* The slots.                                                                *)

ReuseSafe ==
  /\ selected = NoSlot /\ completions = << >>
  /\ \A s \in Slots : ring[s].state = "FREE"

\* The queue without the members of S, in its order.
Less(q, S) ==
  LET kept  == { i \in DOMAIN q : q[i] \notin S }
      at(k) == CHOOSE i \in kept : Cardinality({ j \in kept : j <= i }) = k
  IN  [k \in 1 .. Cardinality(kept) |-> q[at(k)]]

FreeSlots == { s \in Slots : ring[s].state = "FREE" }
FirstFree == CHOOSE s \in FreeSlots : \A t \in FreeSlots : s <= t

Building(frame) ==
  [state |-> "BUILDING", frame |-> frame, gen |-> generation, pending |-> FALSE]

\* online_v2_tx_publish_slot(): a slot of an older generation is given back.
Publishes(s) == ring[s].state = "BUILDING" /\ active /\ ring[s].gen = generation
Publish(s) ==
  IF Publishes(s)
  THEN ring' = [ring EXCEPT ![s].state = "READY"] /\ ready' = Append(ready, s)
  ELSE ring' = [ring EXCEPT ![s] = FreeSlot] /\ UNCHANGED ready

ReleaseBuilder(s) == ring' = [ring EXCEPT ![s] = FreeSlot] /\ UNCHANGED ready

\* Mistake: the slot that is being handed over is taken for unsent.
CancelledIgnoringSelected(s) ==
  CASE ring[s].state \in {"BUILDING", "IN_FLIGHT"} -> [ring[s] EXCEPT !.state = "QUARANTINED"]
    [] ring[s].state = "READY" -> FreeSlot
    [] OTHER -> ring[s]

\* online_v2_tx_cancel_unsent(), one slot.
Cancelled(s) ==
  CASE ring[s].state \in {"BUILDING", "IN_FLIGHT"} -> [ring[s] EXCEPT !.state = "QUARANTINED"]
    [] ring[s].state = "READY" /\ selected = s     -> [ring[s] EXCEPT !.state = "QUARANTINED"]
    [] ring[s].state = "READY" /\ selected # s     -> FreeSlot
    [] OTHER -> ring[s]

CancelUnsent == ring' = [s \in Slots |-> Cancelled(s)] /\ ready' = << >>

\* online_v2_tx_release_disconnected(), one slot after the cancel: the stack
\* has let go of every buffer, the builder has not.
AfterTeardown(s) ==
  IF Cancelled(s).state = "QUARANTINED" /\ ~Cancelled(s).pending /\ selected # s
  THEN Cancelled(s) ELSE FreeSlot

\* Mistake: the completions that will never come are still expected.
CompletionsKept == completions

CompletionsAfterTeardown == << >>

-----------------------------------------------------------------------------
(* How a session fails and finishes.                                         *)

\* Mistake: every failure of a session starts a new generation.
AdvancedAlways == generation + 1

\* A session starts its abort, and a new generation, once.
Advanced == IF abortReq THEN generation ELSE generation + 1

\* Mistake: the reason of a stop stands when the session fails after it.
FirstReason == IF stopReason = "none" THEN "fault" ELSE stopReason

ReasonOnFailure ==
  IF stopReason \in {"none", "host_stop"} THEN "fault" ELSE stopReason

\* What request_failure() and request_abort_ex() assign after the generation.
AbortFlags ==
  /\ endReq' = FALSE /\ endWait' = FALSE /\ endAcked' = FALSE
  /\ abortReq' = TRUE /\ abortAccepted' = FALSE /\ discard' = TRUE
  /\ tx' = NoTx /\ ackWait' = << >>
  /\ UNCHANGED cleanupReady

\* All of it at once: the App task does not run while the capture task does.
FailsAtOnce(latched) ==
  /\ generation' = Advanced /\ stopReason' = ReasonOnFailure
  /\ AbortFlags
  /\ readyLatched' = latched
  /\ UNCHANGED << active, startSent, session, workspace, stopReport, linkDown >>

\* The capture task may run in the middle of the App task's: after the
\* generation, and before the slots are cancelled.
AppFails(what) ==
  /\ generation' = Advanced /\ stopReason' = ReasonOnFailure
  /\ app' = [AppIdle EXCEPT !.pc = "failing", !.what = what]
  /\ UNCHANGED stopReport

\* finish_abort() and finish_end().
Finish(timeout) ==
  /\ active' = FALSE
  /\ workspace' = (workspace /\ ~ReuseSafe')
  /\ endReq' = FALSE /\ endWait' = FALSE /\ endAcked' = FALSE
  /\ abortReq' = FALSE /\ abortAccepted' = FALSE /\ discard' = FALSE
  /\ cleanupReady' = FALSE
  /\ tx' = NoTx /\ ackWait' = << >>
  /\ stopReport' = [reason |-> stopReason, timeout |-> timeout]
  /\ Log!DropAll
  /\ UNCHANGED << readyLatched, startSent, session, stopReason, committed, app >>

GoesOn == UNCHANGED << opening, stopping, outcome, sending, spool, app >>

-----------------------------------------------------------------------------
(* The stager: zy100_online_stream_stage_record_fragment().  The capture     *)
(* task calls it while it runs, then the App task.                           *)

StagerMayRun == capturing \/ app.pc = "idle"
AppMayRun    == app.pc = "idle" /\ (capturing \/ stager.pc = "idle")

StagingAllowed ==
  /\ active /\ startSent /\ ~endWait /\ ~abortReq /\ Len(ackWait) < Window
  /\ endReq => cleanupReady /\ ~discard

\* The spool has a record to send, unless one is being sent.
StageGate ==
  /\ stager.pc = "idle" /\ StagerMayRun /\ (capturing \/ connected)
  /\ StagingAllowed
  /\ \A s \in Slots : ring[s].state # "BUILDING"
  /\ FreeSlots # {}
  /\ IF tx.n # 0 THEN stager' = [NoStage EXCEPT !.pc = "peeked"]
     ELSE /\ backlog # << >> /\ Len(inFlight) < Window
          /\ stager' = [NoStage EXCEPT !.pc = "peeked", !.n = Head(backlog)]
  /\ UNCHANGED << opening, stopping, outcome, generation, linkDown, sending,
                  slots, spool, app, capture, wire, external >>

StagePeekFails ==
  /\ "flash" \in Faults
  /\ stager.pc = "peeked" /\ stager.n # 0
  /\ stager' = NoStage
  /\ IF active THEN FailsAtOnce(FALSE) /\ CancelUnsent
     ELSE UNCHANGED << opening, stopping, outcome, generation, linkDown,
                       sending, ring, ready >>
  /\ UNCHANGED << selected, completions, spool, app, capture, wire, external >>

\* The gate again, after the peek; a fragment is taken when a slot is left.
StageTake ==
  /\ stager.pc = "peeked"
  /\ LET now == IF tx.n # 0 THEN tx ELSE [NoTx EXCEPT !.n = stager.n]
     IN  IF ~StagingAllowed \/ now.n = 0
         THEN stager' = NoStage /\ UNCHANGED << tx, ring >>
         ELSE /\ tx' = now
              /\ IF now.staged = Fragments \/ FreeSlots = {}
                 THEN stager' = NoStage /\ UNCHANGED ring
                 ELSE /\ ring' = [ring EXCEPT ![FirstFree] =
                                    Building(Frame("record", now.n, now.staged + 1))]
                      /\ stager' = [pc |-> "reading", n |-> now.n, f |-> now.staged + 1,
                                    gen |-> generation, slot |-> FirstFree]
  /\ UNCHANGED << opening, stopping, outcome, generation, linkDown, ackWait,
                  ready, selected, completions, spool, app, capture, wire, external >>

StillStaging ==
  /\ active /\ generation = stager.gen
  /\ tx.n = stager.n /\ tx.staged = stager.f - 1

\* Mistake: the position moves only when the frame has been handed over.
NotAdvanced == tx

StageAdvanced == [tx EXCEPT !.staged = @ + 1]

\* The read is done: publish, unless the session moved on meanwhile.
StagePublish ==
  /\ stager.pc = "reading"
  /\ stager' = NoStage
  /\ IF StillStaging
     THEN /\ Publish(stager.slot)
          /\ tx' = IF Publishes(stager.slot) THEN StageAdvanced ELSE tx
     ELSE ReleaseBuilder(stager.slot) /\ UNCHANGED tx
  /\ UNCHANGED << opening, stopping, outcome, generation, linkDown, ackWait,
                  selected, completions, spool, app, capture, wire, external >>

\* The Flash was busy.
StageReadBusy ==
  /\ stager.pc = "reading"
  /\ stager' = NoStage
  /\ ReleaseBuilder(stager.slot)
  /\ UNCHANGED << opening, stopping, outcome, generation, linkDown, sending,
                  selected, completions, spool, app, capture, wire, external >>

StageReadFails ==
  /\ "flash" \in Faults
  /\ stager.pc = "reading"
  /\ stager' = NoStage
  /\ IF active
     THEN /\ FailsAtOnce(FALSE)
          /\ ring' = [s \in Slots |-> IF s = stager.slot THEN FreeSlot ELSE Cancelled(s)]
          /\ ready' = << >>
     ELSE /\ ReleaseBuilder(stager.slot)
          /\ UNCHANGED << opening, stopping, outcome, generation, linkDown, sending >>
  /\ UNCHANGED << selected, completions, spool, app, capture, wire, external >>

-----------------------------------------------------------------------------
(* The capture task.                                                         *)

Commit ==
  /\ capturing /\ stager.pc = "idle" /\ committed < Records
  /\ committed' = committed + 1
  /\ Log!CommitRecord(committed + 1)
  /\ UNCHANGED << opening, stopping, outcome, generation, linkDown, sending,
                  slots, app, stager, capture, wire, external >>

CaptureAborts ==
  /\ "capture" \in Faults
  /\ capturing /\ stager.pc = "idle" /\ active
  /\ FailsAtOnce(readyLatched) /\ CancelUnsent
  /\ UNCHANGED << selected, completions, spool, app, stager, capture, wire, external >>

\* The capture was told to stop, and its finish may give up a tail.
CaptureDone ==
  /\ capturing /\ stager.pc = "idle" /\ (endReq \/ abortReq)
  /\ capturing' = FALSE
  /\ dropped' \in {dropped, TRUE}
  /\ UNCHANGED << overtaken, opening, stopping, outcome, generation, linkDown, sending,
                  slots, spool, app, stager, wire, external >>
-----------------------------------------------------------------------------
(* The App task: sessions.                                                   *)

HandleReady ==
  /\ AppMayRun /\ connected /\ ~active /\ ReuseSafe
  /\ readyLatched' \in BOOLEAN
  /\ UNCHANGED << active, startSent, session, workspace, stopping, outcome, generation,
                  linkDown, sending, slots, spool, app, stager, capture, wire, external >>

Begin ==
  /\ AppMayRun /\ connected /\ ~capturing
  /\ ~active /\ readyLatched /\ ReuseSafe /\ ~workspace
  /\ session < SessionLimit /\ session' = session + 1
  /\ workspace' = TRUE /\ generation' = generation + 1
  /\ active' = TRUE /\ startSent' = FALSE
  /\ endReq' = FALSE /\ endWait' = FALSE /\ endAcked' = FALSE
  /\ abortReq' = FALSE /\ cleanupReady' = FALSE /\ abortAccepted' = FALSE
  /\ linkDown' = FALSE /\ discard' = FALSE
  /\ stopReason' = "none" /\ stopReport' = NoReport
  /\ tx' = NoTx /\ ackWait' = << >>
  /\ ring' = [s \in Slots |-> FreeSlot] /\ ready' = << >>
  /\ selected' = NoSlot /\ completions' = << >>
  /\ committed' = 0 /\ Log!DropAll /\ wire' = << >>
  /\ capturing' = TRUE /\ dropped' = FALSE /\ overtaken' = FALSE
  /\ UNCHANGED << readyLatched, app, stager, external >>

\* request_stop() tests and stores without the lock: the capture task may abort
\* the session between any two of these steps.
RequestStop(reason) ==
  /\ reason = "low_battery" => "battery" \in Faults
  /\ AppMayRun /\ active /\ ~abortReq
  /\ app' = [AppIdle EXCEPT !.pc = "asked", !.what = reason]
  /\ UNCHANGED << opening, stopping, outcome, generation, linkDown, sending, slots,
                  spool, stager, capture, wire, external >>

\* The battery overrides the host until END waits for its ACK.
StopChecksBattery ==
  LET overrides == app.what = "low_battery" /\ stopReason = "host_stop" /\ ~endWait
  IN  /\ app.pc = "asked"
      /\ app' = [app EXCEPT !.pc = IF overrides THEN "overriding" ELSE "noted"]
      /\ UNCHANGED << opening, stopping, outcome, generation, linkDown, sending, slots,
                      spool, stager, capture, wire, external >>

StopOverrides ==
  /\ app.pc = "overriding" /\ app' = [app EXCEPT !.pc = "noted"]
  /\ stopReason' = "low_battery"
  /\ UNCHANGED << opening, stopping, stopReport, generation, linkDown, sending, slots,
                  spool, stager, capture, wire, external >>

\* A stop that is under way is not asked for again.
StopChecksEnd ==
  /\ app.pc = "noted"
  /\ app' = IF endReq \/ endWait THEN AppIdle
            ELSE [app EXCEPT !.pc = IF stopReason = "none" THEN "naming" ELSE "ending"]
  /\ UNCHANGED << opening, stopping, outcome, generation, linkDown, sending, slots,
                  spool, stager, capture, wire, external >>

StopNames ==
  /\ app.pc = "naming" /\ app' = [app EXCEPT !.pc = "ending"]
  /\ stopReason' = app.what
  /\ overtaken' = (overtaken \/ abortReq)
  /\ UNCHANGED << opening, stopping, stopReport, generation, linkDown, sending, slots,
                  spool, stager, capturing, dropped, wire, external >>

StopRequestsEnd ==
  /\ app.pc = "ending" /\ app' = [app EXCEPT !.pc = "clearing"]
  /\ endReq' = TRUE
  /\ UNCHANGED << opening, endWait, endAcked, aborting, cleanupReady, outcome, generation,
                  linkDown, sending, slots, spool, stager, capture, wire, external >>

StopClears ==
  /\ app.pc = "clearing" /\ app' = AppIdle
  /\ endAcked' = FALSE /\ cleanupReady' = FALSE /\ discard' = FALSE
  /\ UNCHANGED << opening, endReq, endWait, abortReq, abortAccepted, outcome, generation,
                  linkDown, sending, slots, spool, stager, capture, wire, external >>

StopGoesOn ==
  \/ StopChecksBattery \/ StopOverrides \/ StopChecksEnd
  \/ StopNames \/ StopRequestsEnd \/ StopClears

\* An abort by the App task: shutdown, capture done unasked, failed resume.
AppAborts ==
  /\ "app" \in Faults
  /\ AppMayRun /\ active
  /\ AppFails("abort")
  /\ UNCHANGED << opening, stopping, linkDown, sending, slots, spool, stager,
                  capture, wire, external >>

FailFlags ==
  /\ app.pc = "failing" /\ app' = [app EXCEPT !.pc = "cancelling"]
  /\ AbortFlags
  /\ readyLatched' = (readyLatched /\ app.what = "abort")
  /\ UNCHANGED << active, startSent, session, workspace, outcome, generation,
                  linkDown, slots, spool, stager, capture, wire, external >>

FailCancels ==
  /\ app.pc = "cancelling" /\ app' = AppIdle
  /\ IF app.what = "disconnect"
     THEN /\ linkDown' = TRUE
          /\ ring' = [s \in Slots |-> AfterTeardown(s)] /\ ready' = << >>
          /\ selected' = IF selected # NoSlot /\ ring'[selected].state = "FREE"
                         THEN NoSlot ELSE selected
          /\ completions' = CompletionsAfterTeardown
     ELSE /\ linkDown' = (linkDown /\ app.what # "transport")
          /\ CancelUnsent
          /\ UNCHANGED << selected, completions >>
  /\ UNCHANGED << opening, stopping, outcome, generation, sending, spool,
                  stager, capture, wire, external >>

\* abort_cleanup_ready(): the capture is over, the rest may be sent.
CleanupReady ==
  /\ AppMayRun /\ ~capturing /\ (abortReq \/ endReq) /\ ~cleanupReady
  /\ cleanupReady' = TRUE
  /\ UNCHANGED << opening, ending, aborting, outcome, generation, linkDown,
                  sending, slots, spool, app, stager, capture, wire, external >>

-----------------------------------------------------------------------------
(* The App task: sending.                                                    *)

\* Mistake: END does not wait for the ACKs.
ClosedWhenSent == ~discard /\ ~dropped /\ backlog = << >>

EndDeliveryClosed == ~discard /\ ~dropped /\ backlog = << >> /\ inFlight = << >>

EndDue == ~abortReq /\ startSent /\ endReq /\ cleanupReady /\ ReuseSafe

\* The frames that select_notify() may build: one, or none.
FrameDue ==
  IF endWait \/ (abortReq /\ ~cleanupReady) THEN {}
  ELSE IF abortReq  THEN IF ~linkDown /\ ReuseSafe THEN {"abort"} ELSE {}
  ELSE IF ~startSent THEN {"start"}
  ELSE IF EndDue THEN IF EndDeliveryClosed THEN {"end"} ELSE {}
  ELSE IF ~endReq /\ StressStatus THEN {"stress"}
  ELSE {}

MaySend == AppMayRun /\ connected /\ active /\ Len(completions) < SlotCount

SelectReady ==
  /\ MaySend /\ ready # << >>
  /\ selected' = Head(ready)
  /\ app' = [AppIdle EXCEPT !.pc = "selected"]
  /\ UNCHANGED << opening, stopping, outcome, generation, linkDown, sending, ring,
                  ready, completions, spool, stager, capture, wire, external >>

DecideFrame ==
  /\ MaySend /\ ready = << >>
  /\ \E kind \in FrameDue : app' = [AppIdle EXCEPT !.pc = "claim", !.what = kind]
  /\ UNCHANGED << opening, stopping, outcome, generation, linkDown, sending,
                  slots, spool, stager, capture, wire, external >>

\* Everything was acked, but not everything that was produced is in it.
EndCannotClose ==
  /\ MaySend /\ ready = << >> /\ ~endWait
  /\ EndDue /\ ~EndDeliveryClosed
  /\ discard \/ (backlog = << >> /\ inFlight = << >>)
  /\ AppFails("failure")
  /\ UNCHANGED << opening, stopping, linkDown, sending, slots, spool, stager,
                  capture, wire, external >>

ClaimFrame ==
  /\ app.pc = "claim"
  /\ IF FreeSlots = {} THEN app' = AppIdle /\ UNCHANGED ring
     ELSE /\ ring' = [ring EXCEPT ![FirstFree] = Building(Frame(app.what, 0, 0))]
          /\ app' = [app EXCEPT !.pc = "publish", !.slot = FirstFree]
  /\ UNCHANGED << opening, stopping, outcome, generation, linkDown, sending, ready,
                  selected, completions, spool, stager, capture, wire, external >>

PublishFrame ==
  /\ app.pc = "publish"
  /\ Publish(app.slot)
  /\ IF Publishes(app.slot)
     THEN selected' = Head(ready') /\ app' = [AppIdle EXCEPT !.pc = "selected"]
     ELSE UNCHANGED selected /\ app' = AppIdle
  /\ UNCHANGED << opening, stopping, outcome, generation, linkDown, sending,
                  completions, spool, stager, capture, wire, external >>

-----------------------------------------------------------------------------
(* The App task: the answer of the stack, note_notify_result().              *)

StillValid(slot) == slot.state = "READY" /\ active /\ slot.gen = generation

FitsTx(frame) == tx.n = frame.n /\ tx.sent = frame.f - 1

LastOfRecord(frame) == frame.kind = "record" /\ frame.f = Fragments

\* mark_tx_sent() and the push of the ACK wait both take the record.
BookedAsSent(frame) ==
  /\ backlog # << >> /\ Head(backlog) = frame.n /\ Len(inFlight) < Window
  /\ Len(ackWait) < Window

QueueError(frame) ==
  frame.kind = "record" /\
    (~FitsTx(frame) \/ (LastOfRecord(frame) /\ ~BookedAsSent(frame)))

NoteFrame(frame) ==
  CASE frame.kind = "start" ->
         startSent' = TRUE /\ UNCHANGED << sending, spool, endWait, abortAccepted >>
    [] frame.kind = "abort" ->
         abortAccepted' = TRUE /\ UNCHANGED << sending, spool, endWait, startSent >>
    [] frame.kind = "end" ->
         /\ endWait' = TRUE /\ ackWait' = Append(ackWait, 0)
         /\ UNCHANGED << tx, spool, abortAccepted, startSent >>
    [] LastOfRecord(frame) /\ ~QueueError(frame) ->
         /\ Log!SendOldest /\ ackWait' = Append(ackWait, frame.n) /\ tx' = NoTx
         /\ UNCHANGED << committed, endWait, abortAccepted, startSent >>
    [] frame.kind = "record" /\ ~LastOfRecord(frame) /\ ~QueueError(frame) ->
         /\ tx' = [tx EXCEPT !.sent = @ + 1]
         /\ UNCHANGED << ackWait, spool, endWait, abortAccepted, startSent >>
    [] OTHER -> UNCHANGED << sending, spool, endWait, abortAccepted, startSent >>

\* A terminal frame that is sent again is the same frame.
WireWith(frame) ==
  IF frame.kind = "stress" \/ (wire # << >> /\ Last(wire) = frame) THEN wire
  ELSE Append(wire, frame)

\* A slot that is not selected any more when the answer comes is left alone.
Owned(slot) == slot.state \in {"READY", "QUARANTINED"}

NotifyAccepted ==
  /\ app.pc = "selected" /\ link = "up"
  /\ selected' = NoSlot
  /\ stack' = Append(stack, selected) /\ wire' = WireWith(ring[selected].frame)
  /\ LET slot == ring[selected]
         valid == StillValid(slot)
     IN  /\ IF Owned(slot)
            THEN /\ ring' = [ring EXCEPT ![selected].pending = TRUE,
                               ![selected].state = IF valid THEN "IN_FLIGHT" ELSE "QUARANTINED"]
                 /\ completions' = Append(completions, selected)
            ELSE UNCHANGED << ring, completions >>
         /\ ready' = Less(ready, {selected})
         /\ IF valid THEN NoteFrame(slot.frame)
            ELSE UNCHANGED << sending, spool, endWait, abortAccepted, startSent >>
         /\ IF valid /\ QueueError(slot.frame) THEN AppFails("failure")
            ELSE app' = AppIdle /\ UNCHANGED << outcome, generation >>
  /\ UNCHANGED << active, readyLatched, session, workspace, endReq, endAcked, abortReq,
                  discard, cleanupReady, linkDown, stager, capture,
                  link, connected, sentBack >>

\* Kept READY for another try, unless it was cancelled or is a mere status.
NotifyRefused ==
  /\ app.pc = "selected"
  /\ LET gone == ring[selected].state = "QUARANTINED" \/ ring[selected].frame.kind = "stress"
     IN  IF gone THEN /\ ring' = [ring EXCEPT ![selected] = FreeSlot]
                      /\ ready' = Less(ready, {selected})
                 ELSE UNCHANGED << ring, ready >>
  /\ selected' = NoSlot /\ app' = AppIdle
  /\ UNCHANGED << opening, stopping, outcome, generation, linkDown, sending,
                  completions, spool, stager, capture, wire, external >>

\* note_send_complete(): the oldest completion owns the oldest slot handed over.
SendComplete ==
  /\ AppMayRun /\ sentBack # << >> /\ sentBack' = Tail(sentBack)
  /\ UNCHANGED << link, connected, stack, wire, ready, selected, generation, linkDown,
                  stager, capture >>
  /\ IF ~active \/ completions = << >> \/ ~ring[Head(completions)].pending
     THEN GoesOn /\ UNCHANGED << ring, completions >>
     ELSE LET slot == ring[Head(completions)] IN
          /\ ring' = [ring EXCEPT ![Head(completions)] = FreeSlot]
          /\ completions' = Tail(completions)
          /\ IF /\ slot.gen = generation /\ ReuseSafe'
                /\ \/ slot.frame.kind = "abort" /\ abortReq /\ abortAccepted
                   \/ endAcked
             THEN Finish(FALSE) ELSE GoesOn

SendCompleteFails ==
  /\ "sending" \in Faults
  /\ AppMayRun /\ sentBack # << >> /\ sentBack' = Tail(sentBack)
  /\ active /\ completions # << >> /\ ring[Head(completions)].pending
  /\ ring' = [ring EXCEPT ![Head(completions)] = FreeSlot]
  /\ completions' = Tail(completions)
  /\ AppFails("failure")
  /\ UNCHANGED << opening, stopping, linkDown, sending, spool, ready, selected,
                  stager, capture, wire, link, connected, stack >>
-----------------------------------------------------------------------------
(* The App task: ACKs and polls.                                             *)

\* handle_record_ack(): a late, repeated or early ACK matches nothing.  The
\* queue is looked at before the lock, the record is retired under it.
RecordAck(n) ==
  /\ AppMayRun /\ connected /\ active /\ ~abortReq
  /\ ackWait # << >> /\ Head(ackWait) = n /\ n # 0
  /\ app' = [AppIdle EXCEPT !.pc = "acking", !.n = n]
  /\ UNCHANGED << opening, stopping, outcome, generation, linkDown, sending, slots,
                  spool, stager, capture, wire, external >>

\* The queue is empty if the session was aborted meanwhile; nothing is popped.
AckRetires ==
  /\ app.pc = "acking"
  /\ IF inFlight # << >> /\ Head(inFlight) = app.n
     THEN /\ Log!AckOldest
          /\ ackWait' = IF ackWait = << >> THEN << >> ELSE Tail(ackWait)
          /\ app' = AppIdle
          /\ UNCHANGED << committed, generation, outcome >>
     ELSE AppFails("failure") /\ UNCHANGED << ackWait, spool >>
  /\ UNCHANGED << opening, stopping, linkDown, tx, slots, stager, capture, wire, external >>

EndAck ==
  /\ AppMayRun /\ connected /\ active /\ ~abortReq /\ endWait
  /\ UNCHANGED << generation, linkDown, slots, stager, capture, wire, external >>
  /\ IF ReuseSafe THEN Finish(FALSE)
     ELSE /\ endWait' = FALSE /\ endAcked' = TRUE /\ ackWait' = << >>
          /\ UNCHANGED << opening, endReq, aborting, cleanupReady, outcome, tx, spool, app >>

\* The END was acked while its buffer was still out.
EndMayRepeat == endReq /\ endWait /\ ~linkDown

\* check_ack_timeout(): END is sent again, once its buffer is back; a record
\* without its ACK fails the session.
AckTimeout ==
  /\ AppMayRun /\ active /\ ackWait # << >>
  /\ IF Head(ackWait) = 0 /\ EndMayRepeat
     THEN /\ ReuseSafe
          /\ endWait' = FALSE /\ ackWait' = << >>
          /\ UNCHANGED << endReq, endAcked, outcome, generation, app >>
     ELSE AppFails("failure") /\ UNCHANGED << ending, ackWait >>
  /\ UNCHANGED << opening, aborting, cleanupReady, linkDown, tx, slots, spool,
                  stager, capture, wire, external >>

\* check_tx_progress_timeout()
TxStall ==
  /\ AppMayRun /\ active /\ ~abortReq
  /\ tx.n # 0 \/ completions # << >> \/ ready # << >>
  /\ AppFails("failure")
  /\ UNCHANGED << opening, stopping, linkDown, sending, slots, spool, stager,
                  capture, wire, external >>

AbortOverLink ==
  /\ AppMayRun /\ abortReq /\ cleanupReady /\ linkDown /\ ReuseSafe
  /\ UNCHANGED << generation, linkDown, slots, stager, capture, wire, external >>
  /\ Finish(FALSE)

\* Mistake: an ABORT that nobody takes is kept.
UnsentTerminalKept == {}

UnsentTerminal ==
  { s \in Slots : ring[s].state = "READY" /\ ring[s].frame.kind = "abort" /\ selected # s }

AbortTimeout ==
  /\ AppMayRun /\ abortReq /\ cleanupReady /\ ~(linkDown /\ ReuseSafe)
  /\ ring' = [s \in Slots |-> IF s \in UnsentTerminal THEN FreeSlot ELSE ring[s]]
  /\ ready' = Less(ready, UnsentTerminal)
  /\ UNCHANGED << generation, linkDown, selected, completions, stager, capture, wire, external >>
  /\ IF ReuseSafe' THEN Finish(TRUE) ELSE GoesOn

-----------------------------------------------------------------------------
(* The link and the BLE stack.                                               *)

\* Notifications off, or the like, on a link that is up.
TransportUnavailable ==
  /\ "transport" \in Faults
  /\ AppMayRun /\ connected
  /\ IF active
     THEN AppFails("transport") /\ UNCHANGED opening
     ELSE /\ readyLatched' = FALSE
          /\ UNCHANGED << active, startSent, session, workspace, outcome, generation, app >>
  /\ UNCHANGED << stopping, linkDown, sending, slots, spool, stager, capture, wire, external >>

\* The message of the disconnect comes after those of the completions.
HandleDisconnect ==
  /\ AppMayRun /\ connected /\ link = "down" /\ sentBack = << >>
  /\ connected' = FALSE
  /\ IF active
     THEN AppFails("disconnect") /\ UNCHANGED opening
     ELSE /\ readyLatched' = FALSE
          /\ UNCHANGED << active, startSent, session, workspace, outcome, generation, app >>
  /\ UNCHANGED << stopping, linkDown, sending, slots, spool, stager, capture, wire,
                  link, stack, sentBack >>

StackSends ==
  /\ stack # << >>
  /\ sentBack' = Append(sentBack, Head(stack)) /\ stack' = Tail(stack)
  /\ UNCHANGED << opening, stopping, outcome, generation, linkDown, sending, slots,
                  spool, app, stager, capture, wire, link, connected >>

\* The stack lets go of the buffers it has not sent.
LinkDrop ==
  /\ link = "up" /\ link' = "down" /\ stack' = << >>
  /\ UNCHANGED << opening, stopping, outcome, generation, linkDown, sending, slots,
                  spool, app, stager, capture, wire, connected, sentBack >>

Reconnect ==
  /\ AppMayRun /\ ~connected
  /\ link' = "up" /\ connected' = TRUE
  /\ UNCHANGED << opening, stopping, outcome, generation, linkDown, sending, slots,
                  spool, app, stager, capture, wire, stack, sentBack >>

-----------------------------------------------------------------------------
StreamNext ==
  \/ StageGate \/ StagePeekFails \/ StageTake
  \/ StagePublish \/ StageReadBusy \/ StageReadFails
  \/ Commit \/ CaptureAborts \/ CaptureDone
  \/ HandleReady \/ Begin
  \/ \E reason \in {"host_stop", "low_battery"} : RequestStop(reason)
  \/ StopGoesOn
  \/ AppAborts \/ FailFlags \/ FailCancels \/ CleanupReady
  \/ SelectReady \/ DecideFrame \/ EndCannotClose \/ ClaimFrame \/ PublishFrame
  \/ NotifyAccepted \/ NotifyRefused
  \/ SendComplete \/ SendCompleteFails
  \/ \E n \in 1 .. Records : RecordAck(n)
  \/ AckRetires \/ EndAck \/ AckTimeout \/ TxStall \/ AbortOverLink \/ AbortTimeout
  \/ TransportUnavailable \/ HandleDisconnect \/ StackSends \/ LinkDrop \/ Reconnect

StreamSpec == StreamInit /\ [][StreamNext]_vars

-----------------------------------------------------------------------------
(* Properties.                                                               *)

\* The cursors, the slots and the two queues of the stream stay in their ranges.
StreamTypeOK ==
  /\ session \in 0 .. SessionLimit /\ committed \in 0 .. Records
  /\ generation \in 0 .. 3 * session   \* begun, and aborted from both tasks
  /\ stopReason \in Reasons \cup {"none"}
  /\ tx \in [n : 0 .. Records, sent : 0 .. Fragments, staged : 0 .. Fragments]
  /\ tx.sent <= tx.staged
  /\ \A s \in Slots :
       ring[s].state \in {"FREE", "BUILDING", "READY", "IN_FLIGHT", "QUARANTINED"}
  /\ selected \in Slots \cup {NoSlot}
  /\ Len(completions) <= SlotCount /\ Len(ackWait) <= Window

\* The buffers that the stack has to send, and the one that a task is writing,
\* are neither free nor ready, and the workspace they are in is still ours.
HeldBuffersKept ==
  /\ \A i \in DOMAIN stack :
       /\ ring[stack[i]].state \in {"IN_FLIGHT", "QUARANTINED"} /\ ring[stack[i]].pending
       /\ stager.pc = "reading" => stager.slot # stack[i]
  /\ stager.pc = "reading" => ring[stager.slot].state \in {"BUILDING", "QUARANTINED"}
  /\ app.pc = "publish" => ring[app.slot].state \in {"BUILDING", "QUARANTINED"}
  /\ (stack # << >> \/ stager.pc = "reading") => workspace

\* The completions that App expects are those that were sent back and those
\* the stack still holds, in that order: each retires the slot it is about.
\* So an END that was acked early is finished by a completion, and the poll,
\* which would finish it too, never has to.
CompletionsMatchStack ==
  /\ IF link = "up" THEN completions = sentBack \o stack
                    ELSE IsPrefix(sentBack, completions)
  /\ endAcked /\ app.pc = "idle" => ~ReuseSafe

\* Between failures, the READY fragments are the staged ones not handed over
\* yet, in their order; records are sent and acked as the spool has it.
StagedInOrder ==
  active /\ ~abortReq /\ app.pc # "failing" =>
    LET frame(i) == ring[ready[i]].frame
        staged == { i \in DOMAIN ready : frame(i).kind = "record" }
    IN  /\ \A i \in staged : frame(i).n = tx.n /\ frame(i).f \in tx.sent + 1 .. tx.staged
        /\ \A i, j \in staged : i < j => frame(i).f < frame(j).f
        /\ \A f \in tx.sent + 1 .. tx.staged : \E i \in staged : frame(i).f = f
        /\ ackWait = inFlight \/ (ackWait = << 0 >> /\ inFlight = << >>)
        /\ tx.n # 0 => backlog # << >> /\ tx.n = Head(backlog)

\* A session that is reported as stopped by the host, in time, ended by the
\* ACK of its END, and everything it produced was committed and acked: no fault
\* is reported as a stop.  The one exception is a stop that was being named
\* when the capture task aborted: request_stop() then stores the reason of the
\* host over that of the fault, in a session that is over all the same.
StopReportIsTrue ==
  [][active /\ ~active' /\ stopReport'.reason = "host_stop" /\ ~overtaken =>
       /\ ~stopReport'.timeout /\ ~abortReq /\ ~dropped
       /\ backlog = << >> /\ inFlight = << >>
       /\ wire # << >> /\ Last(wire).kind = "end"]_vars

\* The stream keeps the promise of OnlineDevice to the other end of the link.
Phase ==
  CASE ~active -> "idle"
    [] active /\ abortReq -> "aborting"
    [] active /\ ~abortReq /\ wire # << >> /\ Last(wire).kind = "end" -> "ended"
    [] OTHER -> "open"

Device == INSTANCE OnlineDevice WITH phase <- Phase
ImplementsDevice == Device!DeviceSpec

(* What the tasks and the link owe: the App task goes on with what it is in *)
(* the middle of, and comes round to sending and to its poll again and      *)
(* again (SF: it is busy in between); the stager is called in a loop; the   *)
(* stack sends what it holds, or the link breaks and App hears of it; the   *)
(* peer acks an END that is repeated for ever.  Nothing is owed by the peer *)
(* for a record, by the Flash, or by the stack for a frame it refuses: the  *)
(* timeouts are for those.  One frame they miss: a START that was chosen    *)
(* before the abort and claimed after it is not an unsent ABORT, so the     *)
(* stack is assumed to take a START at some time.                           *)
SendStep == SelectReady \/ DecideFrame \/ EndCannotClose
Poll     == AckTimeout \/ TxStall \/ AbortOverLink \/ AbortTimeout

TakesStart == selected # NoSlot /\ ring[selected].frame.kind = "start" /\ NotifyAccepted

StreamFairness ==
  /\ WF_vars(FailFlags \/ FailCancels \/ StopGoesOn \/ AckRetires
               \/ ClaimFrame \/ PublishFrame \/ NotifyAccepted \/ NotifyRefused)
  /\ WF_vars(StageTake \/ StagePublish \/ StageReadBusy \/ StageReadFails)
  /\ WF_vars(StackSends) /\ SF_vars(SendComplete \/ SendCompleteFails)
  /\ SF_vars(CaptureDone) /\ SF_vars(CleanupReady) /\ SF_vars(HandleDisconnect)
  /\ SF_vars(StageGate)
  /\ SF_vars(SendStep) /\ SF_vars(Poll) /\ SF_vars(EndAck)
  /\ SF_vars(TakesStart)

FairStreamSpec == StreamSpec /\ StreamFairness

\* A session that was told to stop, or that fails, is over at some time: END
\* or ABORT is never waited for in vain, whatever happens to the link.
StopsForGood == (active /\ (endReq \/ abortReq)) ~> ~active
=============================================================================
