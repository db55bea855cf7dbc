# A TLA+ model of the ZY100 online stress test

The repository holds the firmware of the ZY100 wearable (`src/firmware/zy100-app`)
and a Python host for Windows (`src/host`).  Its purpose, and the subject of these
modules, is the *online link stress test*: the device generates load at a fixed
rate, stores it in external Flash as records, streams the records over BLE, and
keeps each one until the host, having saved it, acknowledges it.

```
 stress source  ->  record writer  ->  online spool  ->  online stream  ~BLE~>  host receiver
 (RAM ring,4 KiB)   (write_step)       (1 MiB Flash ring)  (8 TX slots,          (store, worker)
                                            ^               window of 4)             |
                                            +--------------  record ACK  <-----------+
```

Away from the phone the device records *offline*: the events of a session go to
another part of the same Flash, with a journal that makes their release survive a
loss of power.  That store is the second subject.

All paths below are relative to `src/`; `ST/` is `firmware/zy100-app/online_stress_test/`,
`BP/` is `firmware/zy100-app/src/sample/ble_peripheral/`, `SV/` is `BP/service/`.

## 1. Inventory

### Device, online path

| Component | State | Operations | Correct when |
|---|---|---|---|
| stress source `ST/src/zy100_stress_source.c` | byte ring, `generated/expected/consumed`, delay table, error, frozen | begin, tick, freeze, copy, consume, header | the load is never reduced silently; the ring is the stream; a header describes the blocks it carries |
| record writer `ST/src/zy100_online_stress.c` | phase, page buffer, record cursors, committed | tick, freeze, write_step, pending, release; handshake query / arm / negotiate / session; status snapshot | committed records are the stream; RAM is released only for what Flash is known to hold; finish ends |
| online spool `SV/zy100_online_spool.c` | four positions, wrap gap, reservation, sent queue, three sector bitmaps, erase latch, retry flag | begin, reserve, write/read reserved page, commit, peek, mark sent, ack, erase forward, idle erase, abort, cleanups | unacked records survive; order is kept; the writer gets room; a stopped session drains |
| raw capture `SV/zy100_online_raw_capture.c` | record state, refill latch, error | pump (one bounded step), service, finish | one owner of the reservation at a time; finish drains or discards |
| online stream `SV/zy100_online_stream_v2.c` | TX slots, ACK wait queue, END and abort flags | stage fragment, select notify, notify result, send complete, record ACK, maintenance, disconnect | records are sent in order inside the window; END only after everything is acked |
| offline store `BP/storage/zy100_offline_v2_storage.c`, `_journal.c` | session directory, active session, two journal banks, purge, reclaim; all but the Flash lost at a reset | mount, recovery, begin, append, checkpoint, finalize, confirm, purge, pause/release/resume, poll of one job at a time | what was verified survives any loss of power; only blank pages are written; the directory is what a boot rebuilds; identities are not reused |
| mode workspace `SV/zy100_mode_workspace.c` | owner and range of the shared RAM | acquire, release | one owner at a time |

Two tasks share this state.  The capture task runs the pump, whose last step stages
one fragment of a record, and the finish loop; the App task has lower priority and
handles BLE events: send results, ACKs, commands.  The Flash answers *busy* for as
long as a program or an erase lasts, and both tasks poll it.

### Device, other parts (not modelled)

The detector that feeds the offline store and the transfer of its sessions; final-edge stores and export;
calibration; training sessions; BLE connection, power and pairing policy; DFU;
clock, reset trace and factory services; the SPI scheduler and Flash driver; numeric
algorithms; the vendor SDK.  `PROJECT.json` lists each with its files and the reason.

### Host

| Component | State | Correct when |
|---|---|---|
| online store and storage worker `host/ble/online_store.py`, `online_storage_worker.py` | session metadata, record files, bounded queue of file operations | a record is acked only after it is saved; a session is "ended" only after its END; a restart never makes one look complete |
| stress controller `host/ble/online_stress_controller.py` | pending request token, config, timer | an ACK answers the request it belongs to; a session starts only with the device configured |
| GATT queue `host/ble/gatt_operation_queue.py` | heap of operations, active one, connection token | one operation at a time, none for a connection that is gone |
| connection coordinator, recovery, lifecycle | connection token, stage, operation id | callbacks of old connections are ignored; nothing is unpaired without a live confirmation |
| UI mailbox `host/ui/mailbox.py` | bounded queues, one progress slot | progress is not shown past a terminal event |
| offline sync, export, OTA, calibration, windows | | not on the online path |

### What is hard here

Interleavings of the pump with sends and ACKs; three positions that cross the wrap
gap each in its own call; erases of whole blocks next to live records; bitmaps that
lag behind the Flash; errors between two pages of a record; a finish loop that must
end; timeouts that race late answers; buffers that the BLE stack still holds when their
session is gone; a host that awaits storage and writes while disconnects and
notifications come in between; losses of power in the middle of a page, an erase, a
change of journal banks, or the recovery from an earlier one.  `PROJECT.json` "hazards" names each at its
line with the properties that cover it, or the reason none does yet.

## 2. Modules

| Module | What it is |
|---|---|
| `StressSource` | the stress source, alone, with a consumer that takes any number of bytes |
| `DivModLemmas`, `StressSource_proofs` | lemmas about quotient and remainder; the theorems about the source |
| `StressWriter` | extends `StressSource`: the record writer and the finish around it, over a spool that may give any answer |
| `RecordLog` | the abstract log that the spool promises to the stream |
| `OnlineSpool` | the spool with its Flash; it implements `RecordLog` |
| `StressWriter_proofs`, `OnlineSpool_proofs`, `OnlineStream_proofs`, `OnlineHost_proofs`, `OfflineStorage_proofs`, `OfflineSafety_proofs` | the theorems about the writer, the spool, the stream, the host and the offline store: its shape, then what it does to the result area and what it keeps |
| `OnlineDevice` | an online session as the link sees it: what the stream promises and the host relies on |
| `OnlineStream` | the stream with its two tasks, over `RecordLog`; it implements `OnlineDevice` |
| `OnlineHost` | extends `OnlineDevice`: parse worker, storage thread and session directories of the host, with the device and the link |
| `OfflineFlash` | the Flash of the offline store, what an operation cut short leaves, and how a session is read back |
| `OfflineStorage` | extends `OfflineFlash`: the offline store |
| `MC...` | instances for TLC |

The online path is a chain of promises: `OnlineSpool` implements `RecordLog`;
`OnlineStream` takes its records from `RecordLog` and implements `OnlineDevice`;
`OnlineHost` is composed with `OnlineDevice`.  Each module is checked against the
promise of the one below instead of its whole state.

### StressSource

The variables have the names of the fields of `zy100_stress_source_t`; `sourceError`
is `error`.  `Tick(t)` is `zy100_stress_source_tick` at the true time `t` since the start, of
which the code has `elapsed_ms`, that is `t % TimeWord` (`ElapsedMs`): the loop that
writes whole blocks until the debt is paid or one does not fit is `BlocksThatFit`,
with the closed form of its effect on the ring (`RingAfter`) and on the delay table
(`DelaysAfter`).  `Freeze(t)` is a last tick and the latch.  A byte of the pattern is
represented by its stream offset, from which, with the seed, the code computes it, so
`RingHoldsStream` compares what `copy()` returns with what was generated.  A delay
slot also carries the block that wrote it, which the code does not store: that is
what `HeaderDescribesItsBlocks` is about.  Limits are constants: `CountLimit` is
`UINT32_MAX`, `TimeLimit` is `0x80000000`, and `TimeWord` is 2^32, at which the clock wraps.
What is due is computed in 64 bits (`Due`) and stored in 32 (`Expected`).  The code tells a
wrapped clock by its upper half, which works if the source is ticked at least once in 2^31 ms,
or 24 days (`Later`): the capture worker does so all the time, and `LoadFollowsClock` rests on it.

### StressWriter

One call of `write_step` is one action: `StartRecord` (with the first page when the
reservation is granted, since the code falls through), `ContinuePage`, `VerifyPage`,
`CommitRecord`, `CommitFails`.  A call that gets BUSY is a step that only builds the
page.  The answers of the spool are nondeterministic: reserve refused or failed, program
busy or failed, readback good, corrupted or failed, commit done or failed.  `StressTick`
comes between any two calls.  `FinishBegin`, `FinishTimeout` and `Release` are the parts
of `zy100_online_raw_capture_finish` around the loop that calls the pump; the timeout may come
at any time in that loop, also when the writer has nothing left and another ring keeps it going.
`VerifyPage` leaves out the `fail(OWNER)` of a `consume` that refuses
(`ST/src/zy100_online_stress.c:283`): the bytes of a verified page are in the ring, which
`ReleasedBytesAreStored` and the type of `used` say.  A commit that fails right after the last page
(294-295) is `CommitFails`, as an action of its own.
`CaptureError` is an error of another part of the capture, after which the pump no longer
calls the writer.  `log` and `verified` are history: what a reader of the Flash finds.

### OnlineSpool

A position counts *pages* since the start of the session where the code counts bytes:
all positions are multiples of a page.  `pending` lists the committed and unacked
records, of which the code keeps only the count.  `erasing` is `erase_wip` with the
sectors of the operation.  `flash` and `busy` are the device: programming a page
that is not blank, or a program that fails, leaves it `Bad`; an erase makes its sectors
unreadable until it ends.  `DeviceDone` ends what the device was doing; the bitmaps
change only in `PollErase`, as in `spool_poll_erase_wip`.

| Action | Code |
|---|---|
| `Reserve` | `spool_build_reserve_plan`, `spool_provider_reserve` |
| `WritePage`, `ReadBack` | `write_reserved_page`, `read_reserved` with the writer's `memcmp`, `commit_with_crc` |
| `HeaderProgram`, `HeaderVerify` | the last two states of `commit_pump_once` |
| `PeekTx`, `MarkTxSent`, `Ack` | the functions of those names |
| `EraseForward`, `PollErase`, `EraseIdle` | `spool_erase_forward_block32_step`, `spool_poll_erase_wip`, start preparation and cleanup erases |
| `FlashError` | any error status of the Flash driver in a session |
| `Begin`, `StopCapture`, `DiscardTail`, `PostSessionCleanup`, `AbortCleanup` | session begin, the two ends of `finish`, the two cleanups |

The guard `PumpRuns` is the order of the pump: while an erase is in progress it goes
straight to its tail, so the writer is not served.  A call that finds the Flash or the
bus busy and changes nothing is a stutter; those that do change something
(`HeaderProgram` moves `commit_pos` over the gap even when the bus then refuses;
`PeekTx` moves `send_pos`) are steps.  `Reserve` leaves out the errors for a capture segment of
number zero, which `Begin` never gives, and for a record id or token that wraps after 2^32
records.

### OnlineStream

Two tasks.  The capture task has the higher priority, so what it does is atomic up to
where it blocks on the Flash: staging a fragment is `StageGate` (look at the spool),
`StageTake` (take a slot), `StagePublish` / `StageReadBusy` / `StageReadFails`.  The App
task can be preempted anywhere; where it reads shared state and uses it later its
handler is split: `SelectReady`, `DecideFrame`, `ClaimFrame`, `PublishFrame`,
`NotifyAccepted` / `NotifyRefused` is the sending of one frame; `AppAborts`, `FailFlags`,
`FailCancels` is an abort; `RequestStop` and the `Stop...` actions are a stop, one per test or
store of `request_stop`; `RecordAck`, `AckRetires` is an ACK, tested without the lock and retired
under it.  `app` and `stager` say what each is in the middle of.
`ring` is `tx_ring`, `ready` the READY slots by `ready_order`, `completions` is
`tx_complete_slots`.  `stack`, `sentBack` and `link` are the BLE stack and the link.
When the capture is over the App task stages the rest itself, as the code does.

| Action | Code (`SV/zy100_online_stream_v2.c`, `app_task_online_stream_poll`) |
|---|---|
| `SendComplete`, `SendCompleteFails` | the callback of the stack, with a slot or a failure |
| `RequestStop`, `StopChecksBattery`, `StopOverrides`, `StopChecksEnd`, `StopNames`, `StopRequestsEnd`, `StopClears` | `zy100_online_stream_request_stop` |
| `RecordAck`, `AckRetires`, `EndAck` | `zy100_online_stream_handle_record_ack` and the ACK of END |
| `AckTimeout`, `TxStall`, `AbortOverLink`, `AbortTimeout` | the branches of the maintenance |
| `TransportUnavailable`, `HandleDisconnect` | the link seen from App |
| `CaptureAborts`, `CaptureDone`, `CleanupReady` | what the capture task reports |

Kept as the code has them: `request_abort_ex` does not clear `ready_latched` though
`request_failure` does; the generation may advance twice in one abort;
`drop_unsent_terminal` drops only an ABORT.  Hence one corner: a START chosen before an
abort of the capture task and claimed after it is READY in the new generation, and if
the stack refused it for ever the abort timeout could not finish.

What the split of these two handlers shows:
- A stop that is being named while the capture task aborts overwrites the reason of the fault:
  `request_stop` tests `stop_reason` at line 2221 and stores it at 2223, and then sets
  `end_requested` and clears `discard_tail_on_cleanup` with `abort_requested` standing.  The session
  still ends by ABORT, or by its timeout, but what is reported is an ordinary host stop without a
  timeout.  The history variable `overtaken` marks just this, and
  `StopReportIsTrue` excepts it; no doc of the repository denies it, so it is an observation and
  not a finding.
- An ACK under way while the capture task aborts still retires its record.  It does no harm: the
  host acks only what is on its disk, and `OnlineHost` is checked and proved with a device that
  does so (`AckArrives`).

The other handlers that test and store without the lock stay single actions because nothing of the
capture task tells the difference: `TxStall`, the ACK timeout of a record, `SendCompleteFails` and
the errors of `NoteFrame` end in `AppFails`, whose own stores are split, so that an abort in between
is the one in the middle of `AppFails`; `EndAck`, the ACK timeout of END, `AbortOverLink`,
`AbortTimeout`, `EndCannotClose`, `CleanupReady`, `Begin` and `Finish` need a capture that is
over, or has not begun, and then the capture task does not touch the session.

Left out of the stream:
- `request_stop_discard` (2314-2322) has no caller, so the branch of `CleanupReady` for it (2305-2311)
  is never taken;
- completions that App handles after the disconnect they preceded, which the code tells apart by the
  connection id (around 3202): the model has App handle a callback before the disconnect that
  followed it, the order in which the stack posts them;
- a frame that cannot be built because the MTU is smaller than it (2972): the slot is given back, and
  the next call tries again for as long as the link keeps that MTU.

### OnlineHost

The parse worker handles one frame at a time and waits for a completion of the storage
thread or of a GATT write; `parse` is what it waits for.  `Take...` actions are the
handler up to its first `await`; `Started`, `Saved`, `AckWritten`, `NoteAck`, `Noted`,
`Committed`, `Drained` go on from there.  `Cancelled` is a completion whose epoch was
revoked in the meantime: it ends the worker (`dead`) until the next notification.
`WaitStart`, `ErrorState`, `Overflow`, `DisconnectBegins`, `LinkGone` are the callbacks
that may come at any wait.  The storage thread takes the head of `queue`; a record is
written in two steps, its file (`FileReplaced`) and the metadata (`MetadataWritten`).
A restart of the program keeps only `disk`, and `Recovered` is what
`recover_incomplete_sessions` makes of it.  `history` names the sessions whose END was
acked, and those where a write, the storage or the host itself failed: the properties
exempt those only where the code cannot know better.

Left out: the `await` of the status notes before an ABORT of a stress session is taken
(`host/ble/ble_manager.py:8169-8173`), so that `TakeAbort` goes on at once: the notes change nothing
of what is modelled, their failure is only logged, and a wait that is cancelled ends the worker as
in `Cancelled`.  `Committed` is exact in this respect: `_restore_export_high_speed` (6337-6347), which
it awaits at 8149, has no `await` of its own and gives control to nobody.  `FileFails` is a failure
of the record's file or of the header file behind it, which may leave a file that the metadata do
not name.

Met while modelling, and contradicted by nothing the repository says: in the host's own
disconnect a WAIT_START turns a committed session into "aborted"; so do a report that
fails after the commit and an ABORT or overflow after "ended"; after a failed write the
in-memory session may overwrite an "ended" directory at the disconnect.

### OfflineFlash and OfflineStorage

Addresses count pages.  A page is what was meant to be in it and whether its CRC and
commit word hold.  `Interrupted` is what a program or an erase may leave when the power
goes: nothing done, all done, a legible head without commit word, or (of an erase) blank,
old or unreadable pages, the first page apart from the others.  `Walk` and `ReadSession`
are the jobs `RECOVERY_SCAN_*`: which layouts are accepted, which sessions are found,
which END or which erase is the repair.

`store` is `s_storage`, all of it lost with the power.  A job has one Flash operation in
flight; the states WAIT and VERIFY of a job are one action, `OperationDone`, which reads
back and goes on (`BeginDone` ... `HeaderDone` are the cases of `storage_poll_runtime`).
`Journal` is `storage_program_journal_entry` with the rotation to the other bank.  `Mount`
replays the journal (`Replay`), `Recover` scans the result area up to its first repair.
The code first passes over the area without writing and then repairs in a second pass;
nothing is written in between, so one step per repair is enough.  Session id and
generation are one number: the code advances them together.

Coarser than the code: `Verified` takes every erase and every program as read back whole, but the
erase of the other bank in a rotation (`JOURNAL_ROTATE_ERASE_WAIT`, 2425-2431) has no read-back, and
that of an event (`COMMIT_VERIFY`, 2550-2557) reads the commit word only: a Flash that reports
success and did something else there is outside the model.  `ConfirmSession` is of the user's latest
session that is ready, the one the sync selects; the function itself (3497-3541) takes any
unconfirmed session of that user whose CRC matches, and does not look at the mode.

| Action | Code (`zy100_offline_v2_storage_...`) |
|---|---|
| `Mount`, `Recover` | `init_with_policy` / `recover_begin` with the marker READY, `storage_poll_recovery_step` |
| `BeginSession`, `AppendEvent`, `Checkpoint`, `FinalizeSession` | the functions of those names |
| `ConfirmSession`, `PurgeRequest` | `confirm_session` (of the session the sync selects: the user's latest), `foreign_purge_request` |
| `PauseReclaim`, `ReleaseReclaim`, `ResumeReclaim` | the functions of those names |
| `OperationDone` | `poll`, when the Flash is idle again |
| `PowerLoss`, `FlashFault` | power; an operation or read-back that fails |

Observations that no property calls wrong:
- DISCARD_INTENT of a session whose erase was paused is journaled with the old progress, but
  the erase restarts at the session's beginning.  Cut short there, it is not resumed: the
  next boot goes on from the journaled sector.  That is harmless as long as an
  interrupted erase of an already blank sector leaves it blank, which the runs assume
  (`Tears` without `"spoiled"`; with it `OnlyBlankIsWritten` fails).
- `storage_start_reclaim` entered from recovery with nothing left to erase leaves the state
  RECOVERING; the next poll finds a job it does not know and goes to ERROR until the
  next boot (modelled: `RecoveryStep`).
- A BEGIN page torn beyond recognition, or an interrupted repair erase, makes recovery
  refuse the whole area: it fails closed (`Tears` has `"garbled"` for it).
- After a torn END the repair writes the next page of the END sector, while
  `offline_sync_read_session_pages` reads the first.

## 3. Runs

| Run | Question | Bounds |
|---|---|---|
| `stress_source` | is the ring the stream, is nothing dropped silently | ring of 8 bytes, blocks of 0, 2 and 3 bytes, four delay slots, clock 0..33 with a time limit of 16 and a time word of 32; the count limit, the time limit and the wrap of both words are within reach |
| `stress_writer` | do committed records equal the stream under every answer of the spool | ring of 8 bytes, pages of 3 with a header of 1, blocks of 0, 2 and 3 bytes: records of one to three pages, partly filled last pages, odd last blocks, a full ring |
| `online_spool` | do records survive erase, wrap, send and ACK in any order; is the log implemented; is the writer served | two blocks of two sectors of two pages, records of 2 and 3 pages (so records start inside sectors and leave wrap gaps), window 2, two sessions, two passes over the region |
| `spool_erase_ahead` | the same for three blocks with a high erase mark above the low one | 12 pages, one session |
| `online_stream` | are buffers and completions kept apart over aborts and lost links; is `OnlineDevice` implemented | two slots, window 2, two records of two fragments, two sessions, every failure and a low battery |
| `online_stream_live` | is a stop or an abort ever waited for in vain | one record, one session, one failing capture |
| `online_host` | is anything retired that is not on disk; is "ended" complete; is a finished session held for lost | two records, one session, three messages on the way, failing disk, report and writes |
| `online_host_sessions` | do two sessions, disconnects and restarts keep apart | one record each, two messages on the way |
| `online_host_live` | does every directory settle | one record, one session, overflow and error states |
| `offline_storage` | does what was saved survive two mishaps at any instant | four sectors of four pages, journal banks of five pages, two users, directory of two, two sessions of one event, two mishaps |
| `offline_replay` | can the journal always be replayed | the same, one mishap |
| `spool_gap` | is `ack_pos <= send_pos` at all times | as `online_spool`, window 1 |

The bounds are small but each hazard happens in them: every action fires, the ring and
the region wrap, gaps of one and two pages appear, sectors are shared between records,
errors come at every phase.  Two passes over the region (`MaxGeneration` = 1) are enough
for a page to hold a header of the previous pass, and the end of the generations is
reached as well.  Two sessions let the second start on what the first left behind.
Writer and spool may stop for good (released, or sessions used up), so their runs do
not look for deadlocks; `stress_source` does.

In `offline_storage` the bounds make everything tight: the journal rotates every few
entries (four of them after the header), the directory and the area hold exactly two
sessions, the last identity is used, and the second mishap may hit the recovery from the
first.  A loss of power and a failed operation share the bound `Mishaps`, since both end in
the next `Mount`.  A program cut short leaves nothing, the whole page or
a legible head, an erase the old page, a blank or an illegible one; `"garbled"` (a head that
cannot be read) and `"spoiled"` (an erase that disturbs a blank page) are left out of the
runs: section 2 says what they lead to.  In the stream and
host runs the first session is what the second has to be kept apart from; larger windows only
lengthen queues.  These systems rest when their bounds are used up, so their runs do not
look for deadlocks.

`spool_gap` and `offline_replay` are the runs that fail, and they should.  `spool_gap`: the repository's own assertion
`zy100_online_spool_invariant_code` (`SV/zy100_online_spool.c:2526`) demands
`ack_pos <= send_pos`, and `zy100_online_spool_ack` breaks it.  The last record before a
wrap gap is sent and waits for its ACK with the window full, so that staging does not call
`peek_tx`; the first record behind the gap is committed; the ACK then skips the gap
(line 2157) and releases it while `send_pos` still stands at its start.  Nothing can
move `send_pos` over a gap that is gone: the next peek looks for a header in the gap and
the session ends with FLASH_IO.  With the real window of 4 the trace needs the four ACKs
to be handled between two passes of the capture task.  The other runs keep the model as
the code is; `BookkeepingNeverFails` therefore leaves "peek" out and says so.

`offline_replay`: a purge journals DISCARD_INTENT from the directory entry
(`storage_foreign_purge_start_next`, `BP/storage/zy100_offline_v2_storage.c:1228`).  After a
reboot the entry was rebuilt by `storage_add_recovered_session`, which leaves
`reclaim_next` at 0, and `storage_journal_session_info` (572-574) refuses an entry whose
progress lies before its session.  While that page is in the current bank no boot mounts
the store; only a session at address 0 escapes.  `BP/service/zy100_offline_v2_capture.c:1003`
counts on the recovery of the next boot, and `host/ble/ble_manager.py:5415` tells the user
that the device keeps the purge and to reconnect.  `DirectoryIsDurable` therefore speaks of
journals that can be replayed; the others hold all the same, since a store that does not
mount fails closed.

### Fairness

`stress_writer`: `write_step` and `release` are weakly fair, because the finish loop calls
the pump until nothing is pending.  A stop, a timeout or an error is never forced, and a
BUSY answer is not granted for ever: the Flash ends an operation.  `FinishEnds` thus says
that the loop ends by itself, without its timeout.

`online_spool`: the device finishes; each call the two tasks repeat is weakly fair by
itself (each is one branch of the pump, of staging, or of the ACK handler).  A record that
is sent is acked; when the host does not answer, the ACK timeout fails the session, which
the model's errors include.  Starting or stopping a session is not fair.  The background
erase target `EraseHigh` is not fair either: it runs only when the source is nearly empty.

`online_stream_live`: each task goes on with what it began and comes round again (strong
fairness where it is busy in between); the stack sends or the link breaks; an END that is
repeated for ever is acked.  Nothing is owed by the peer for a record, nor by the Flash.
The stack is assumed to take a START at some time, for the corner named above.

`online_host_live`: the storage thread, the parse worker, the delivery of WAIT_START, the
abort tasks and a disconnect that was begun are weakly fair.  It is not claimed with failing
writes: a WAIT_START that arrives while the ACK of END is being written is ignored, and if
that write then fails the session stays "ending" until the next START, disconnect or
restart.  The offline store has no liveness run: its jobs are driven by one poll whose next
step is always determined.

## 4. Proofs

`StressSource_proofs` proves, for every ring size, delay table, period, set of rates,
limits and clock satisfying `SourceAssumption`:

- `SourceInvariant`: `Spec => []SourceInv`;
- from it `SourceTypeCorrect`, `LoadIsNeverReducedSilently`, `RingIsFaithful`,
  `HeadersDescribeTheirBlocks` and `LoadFollowsTheClock`.

The properties are not inductive as they stand.  `RingHoldsStream` reads the ring from
`head`; a step of a tick knows only where it writes.  The invariant therefore relates both
to the stream: `CursorsAgree` (`used = generated - consumed`, `head = consumed % RingBytes`)
and `RingCells` (the byte at stream offset `x`, while unconsumed, is in cell
`x % RingBytes`).  A tick writes offsets `generated ..` and cannot hit an unconsumed cell
because two offsets less than `RingBytes` apart have different remainders, a lemma of
`DivModLemmas`.  The same argument with block numbers gives `DelaysKept`: the latest
`DelaySlots` blocks own their slots, and a record at the tail of the ring is among them
because the ring holds fewer than `DelaySlots + 1` blocks, which is the last conjunct of
`SourceAssumption`; it holds for the constants of the code: 4096 bytes, 16 slots, and 320
bytes for a block of the lowest rate, 16000 bytes a second.  `WholeBlocks` says
that production is by whole blocks and, until an error is latched, that the debt is that of the
latest tick, whose true time is below `TimeLimit`: the tick that would first pass `TimeLimit` comes
less than `TimeWord` late, so that its remainder still says so.

`StressWriter_proofs` proves, over any page, header and record size that satisfies the
module's assumptions and every answer of the spool:

- `WriterInvariant`: `WriterSpec => []WriterInv`;
- from it `WriterTypeCorrect`, `CommittedRecordsAreTheStream`, `OnlyStoredBytesAreReleased`
  and `CleanReleaseStoresAll`.

`LogIsStream` is about the committed records only.  What makes it inductive is what the
code relies on without saying so: the cursor of the record stands at a page boundary, the
page buffer holds the bytes of the stream at that cursor, the verified pages those before
it, and a record begins at a block boundary that is the consumed position of the ring.  The
proof reuses the invariant of the source, since every `write_step` reads the ring with
`copy()` and `StressTick` is a step of the source.

`OnlineSpool_proofs` proves, for every region, sector, block and record size, window,
generation limit and erase mark that satisfy `SpoolAssumption`:

- `SpoolInvariant`: `SpoolSpec => []SpoolInv`;
- from it the six safety properties that the run checks: `SpoolTypeCorrect`,
  `CommittedRecordsStay`, `ReservedRoomStaysErased`, `RecordsAlwaysFillTheRing`,
  `RetryIsAlwaysReported`, `BookkeepingIsSound`;
- `SpoolImplementsRecordLog`: the spool implements `RecordLog`; every step is a commit, a
  send, an ACK, a drop or a stutter of the log.

`SpoolInv` is at the end of `OnlineSpool`.  None of the properties is inductive alone: that no
erase hits a live record needs `RecordsFillTheRing` (live pages lie between the cursors) and
`ErasedInv` (which sectors are blank, and no record is in one that is believed erased); that
the right header is found when the next record is peeked needs `HeadersInv` (a header stands at
its address and none of this session is ahead of the writer).  `SendInv` has the one exception
that makes the run `spool_gap` fail: after an ACK has released the gap the send position may
stand where it began, and there no header of this session is found, so that the peek fails
instead of sending something else.  The arguments that carry it: two positions less than
`RegionPages` apart are on different pages (`PageOnce`), a reservation never straddles the end of
the region, and an ACK or a commit skips the gap exactly once (`SkipGapTwice`).  The bound on
`gapPages` and the type of the Flash contents were added to `SpoolTypeOK` for these proofs.

`OnlineStream_proofs` proves, for every number of slots, window, records, fragments, sessions and
set of failures that satisfy `StreamAssumption`, and every preemption of the App task:

- `StreamInvariant`: `StreamSpec => []StreamInv`;
- from it all that the runs check of the stream but liveness: `StreamTypes`,
  `StreamKeepsHeldBuffers`, `StreamCompletesInOrder`, `StreamStagesInOrder`, and
  `StreamReportsStopsTruly`, an action property, with the one exception of section 2;
- `StreamImplementsDevice`: the stream implements `OnlineDevice`, which is the device that the
  host is composed with.

`StreamInv` is built in four layers, each proved over those before it.  *Control* is who may do
what: in which states of a session each handler can be under way, and how far a slot or a
generation that a handler remembers may be behind.  *Slot* is who holds which slot: one builder,
the stack or nobody, and that `completions` is what the stack was given, in its order, with what
it sent but did not report yet in front; this is what makes a completion retire the slot it is
about.  *Frame* is which frames are out: a terminal frame is alone, END comes last and its ACK or
its completion is still to come, the queue of READY slots holds the staged fragments in order and
the ACKs awaited are those of the log's sent records.  The queue loses members in the middle when
a slot is selected or an ABORT is dropped, so that its order needs a lemma about `Less`
(`LessKeeps`).  *Wire* relates all this to what was sent: START goes out once, the wire ends
where `tx.sent` stands in the record being sent, and after an abort at most one straggler may go
out, a fragment that a preempted App task had already handed over, and that one is the next.  Two parts
are for the ACK that is split: the record being retired is the oldest in flight, aborted or not
(`AckingInv`), and while it is, nothing but START and records has gone out (`AckedInv`), so that the
device may take it in the aborting phase too.  The
refinement takes the acceptance of a frame by the stack to a send of the device (`DeviceHears`)
and a commit, an ACK, a failure, the start and the end of a session to the device's own; every other
step is a stutter.

`OnlineHost_proofs` proves, for every number of records and sessions, every window and every
bound on the link and the queue (`HostAssumption`), with every loss, failed
write, disconnect and restart of the model:

- `HostInvariant`: `HostSpec => []HostInv`;
- from it all that the runs check of the host but liveness: `HostTypeCorrect`, `RecordsAreSaved`,
  `EndedSessionsAreComplete`, `EndIsNotTakenForLoss`, and `CommittedEndsStay`, an action property.

`HostInv` follows a record or an END through everything it can be in on its way: a frame on the
air, the frame that the parse worker holds over an `await`, an operation in the queue of the
storage thread, the metadata in memory and on disk, an ACK on its way back.  `AcksInv` and
`ParseInv` say that an ACK that is written or about to be written speaks of a record on disk, also
when its session has been replaced in the meantime.  `StorageInv` relates file, metadata and
memory over the two steps of a write, where one file more than the metadata name may lie in the
directory (`Files`, which `NumbersInv` bounds by what was committed on the device); it exempts
sessions that a write failed for, and `Gone` ones, of which no operation can come any more.  `EndInv` carries `EndedIsComplete`: wherever an END with
`e` records is under way, the directory holds `e` records and nothing under way can add one.
`WaitStartInv` says who may still answer the WAIT_START that follows the ACK of END: the worker
that waits for the commit, or nobody.  `StartInv` is what keeps sessions apart: until its START is
taken there is no trace of a session anywhere.  The proof has a lemma for a step of the event loop
(`LoopKeeps`), one for a step of the device or the link (`LinkKeeps`) and one for an operation
that ends (`EndsKeeps`), and one per action that shows its hypotheses.  The proof composes the
host with `OnlineDevice`, the promise that `StreamImplementsDevice` shows the stream to keep.

`OfflineStorage_proofs` proves, for every area, sector, bank and directory size, every set of
users and every way of tearing a page that satisfy `FlashAssumption` and `StorageAssumption`, and
any number of losses of power and faults:

- `StoreInvariant`: `Spec => []StoreInv`;
- from it `StorageTypeCorrect`.

`StorageTypeOK` says that the directory neither overflows nor overlaps and that an operation is in
flight exactly while a job runs; it is far from inductive, because the next boot builds all of it
from whatever a cut left on the Flash.  `StoreInv` has a part about the Flash alone and one about
the store over it.  `FlashOK` says that one bank (`JournalOK`) is the one that a boot will choose: its header is
newer than the other's, what follows its entries and one page after them is blank, and a progress
entry, the one kind that names a session and that a replay does not count for the next identity,
names one that the header or an earlier entry exceeds or names (`Recalled`).  `Base` and `JobOK`
say what each job may be writing where; `ExtentsOK` whose the extents are: the session being
recorded lies behind all others and fits, the one that goes is in the directory or its place is
free.  `CursorOK` says that the write position in RAM is where a replay would stop, or the bank's end,
and `RotationOK` that a rotation writes only to the bank that does not count.  The proof has a lemma for
each operation that a loss of power may cut (`CutEntry`, `CutArea`, `CutSnapshot`, `CutHeader`: what is
left satisfies `FlashOK`, so that no power loss and no interrupted recovery needs a further
argument), one for each job's next step (`BeginGoes` ... `HeaderGoes`) and one for each call
(`BeginStarts` ...).  `Replay` and `Walk` are recursive functions; that they have the values their
definitions give is shown first (`AfterUnfolds`, `WalksUnfold`) by a least counterexample, and by the
same argument every replay and every walk yields a store in order or fails closed (`ReplayGoes`,
`WalkGoes`, `RecoveryGoes`).

`OfflineSafety_proofs` goes on from there to what the area holds:

- `AreaInvariant`: `Spec => []AreaInv`;
- from it `OnlyBlankWritten`, for every `Tears` without `"spoiled"`;
- `KeptInvariant`: `Spec => []KeptInv`, and from it `SavedKept`;
- `ShownInvariant`: `Spec => []ShownInv`, and from it `IdentityNotReused`.

That a page is blank when the store writes it depends on every boot before: on what recovery took
for free, on what was erased for whom, and on the journal entries that say how far an erase went.
`AreaInv` says it in three steps.  `AreaOK`: every page of the area is blank, or lies in a
session of the directory, or before the first page that the recording has not reached; the part
of a session that is said to be erased is blank.  `NoteOK` and `PurgeOK`: what each job erases is
confirmed or belongs to the purge, what the entry under way says of it, and that a discarded
session never outlives the purge that named it.  `LedgerOK` and `AgreesOK`: what a boot would be
told at this instant (`Told`, a replay of the journal as it stands) claims no page that is not
cleared as it says and names as released nothing that RAM does not; during recovery RAM *is* what was told
(`RecoverySafe`).  One lemma per operation shows what a cut leaves of `Told` (`ToldGrows` for
an entry, `RotationTold` and `HeaderTold` for a change of banks, `ToldKept` for the area), one per
job what its next step makes of the rest (`BeginRuns` ... `HeaderRuns`, collected in `StepSafe`),
one per call (`BeginSafe` ... `ResumeSafe`); `WalkSays`, again by a least counterexample, says that
the walk of a recovery accounts for every page of the area: blank, claimed, part of a session
found, or under repair.  `AreaInv` holds for every `Tears`; `OnlyBlankWritten` needs that
an erase which is cut short does not spoil a page that was blank, for the reason in section 2.

`KeptInv` adds to it what `SavedSurvives` needs of each session that is to be kept: where it
stands on Flash (`Remembered`: its BEGIN page and every verified event; it does not begin right
behind the first page of an event, and the event after the next is not there), that no entry a boot would replay
names it and no purge that a boot would resume is after it (`Unlisted`), and where a running store
has it in RAM (`KeptInRam`).  That a session is recovered as it was is not in the invariant of a
store that has stopped: it follows when the store scans (`FoundAgain`).  The walk looks at every
sector whose first page is a BEGIN page and that lies in nothing it has found before; what it has
found before cannot contain the session (`FoundPages`: inside what is read back as one session a
BEGIN page stands right behind the first page of an event that was cut short, or nowhere), and what is read back is the verified
events and at most the one that was on its way.  `CutRemembers` says that no operation, cut
anywhere, touches any of it: what is programmed was blank, what is erased is confirmed, discarded
or torn.  `Carries` is what every job but three does with the directory: it lets go only of what
it has an entry for (`Leaving`), and what is kept is not that (`LeavingGoes`).

`ShownInv` is about identities: each that the directory has shown is below the next identity that
a boot would be told (`Told`), or its session stands on Flash and RAM, if it is running,
lists it (`ShownThere`).  The one gap is between: a session that was found by a scan because its
opening or final entry never reached the journal, or was lost with the bank, is protected by
its pages only, until the entry that releases it names it, before the first page is erased
(`LeavingTold`); a new bank carries the next identity of RAM, which exceeds all that were shown
(`ShownCut`).

Model-checked only: liveness (`FinishEnds`, `WriterGetsRoom`, `StoppedSessionDrains`,
`StopsForGood`, `SettlesOnDisk`), which needs ENABLED and fairness; and of the offline store
`DirectoryIsDurable`: that a scan finds *no more* than RAM lists, with nothing to repair, needs
every page of every session on Flash, its END included, and the progress of what is being erased
to be in the invariant exactly as `ReadSession` and `Replay` would read them, where the theorems
above need only that what is kept is there.  Nothing known puts it out of the provers' reach:
that invariant is not written yet, and until it is the run `offline_storage` is the evidence for it.

## 5. Not modelled, and why

- Bytes, CRCs and the layout of headers: a page is its kind, session, position and
  index; a CRC is the comparison it stands for.
- Counters, traces and logs: nothing depends on them.
- Records of the IMU and magnetometer: they go through the same calls of the spool as the
  stress records, one reservation at a time.
- A power failure during a session: the online spool keeps nothing over a restart;
  `ready_begin` forgets the bitmaps, which is the initial state of the model.
- Two concurrent calls of the spool: the callers serialise them (the capture task runs at
  the higher priority and the send and ACK paths lock), so a call is one step.
- Of the stream: start preparation, pause and resume of the capture, the counters in END,
  `chunk_seq` and connection ids (there is one link at a time); timers are a timeout that
  may come whenever what it times is pending; a repeated terminal frame is one on the wire.
- Of the host: reassembly of fragments, status notes, the batching of summary ACKs, the limit
  of the storage queue, reports beyond their failure, deletion and ZIP export.  It is
  assumed that no START is in the air when WAIT_START is handled.
- Of the offline store: marker, migration, clear-all, factory handoff; sequence numbers,
  batch tokens, transfer ids and progress counters; `LOCKED_5_PERCENT` (READY without room);
  when a checkpoint is due; the detector, whose event is gone from RAM once an append is
  accepted, before it is durable; the transfer of a session to the phone.
- The stress handshake (query, arm, negotiate; `host/ble/online_stress_controller.py`), the
  host's GATT queue, connection coordination, offline sync, OTA and windows: nothing in the
  modelled parts depends on more of them than the inputs the models leave open.

## 6. Plan

1. Done: source, writer, spool, stream, host, offline store; theorems of all six.
2. Proofs next: `DirectoryIsDurable`, the one safety property that is only model-checked.
3. If room is left: the stress handshake of both sides, an erase of a blank sector that may
   spoil it, the marker and clear-all of the offline store.
