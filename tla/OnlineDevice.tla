---------------------------- MODULE OnlineDevice ----------------------------
(***************************************************************************)
(* What an online session looks like from the link: the device opens a      *)
(* session, announces it, sends the fragments of its records once each and  *)
(* in the order of their commits, and closes it with END, after every       *)
(* record has been acked, or with ABORT.  A session that fails may still    *)
(* let out the one frame that was being handed over, or retire the record   *)
(* whose ACK was being handled, and says nothing more but ABORT.  The       *)
(* terminal frame may be sent again; wire keeps one copy.                   *)
(***************************************************************************)
EXTENDS Integers, Sequences, SequencesExt

CONSTANTS
  Records,     \* bound: records of a session
  Fragments,   \* frames of a record
  Window,      \* ZY100_ONLINE_RECORD_IN_FLIGHT_MAX
  SessionLimit \* bound: sessions that are opened

VARIABLES
  session,     \* the number of the last session opened
  phase,       \* of that session
  committed,   \* its records so far
  backlog, inFlight,
  wire         \* its frames so far

device == << session, phase, committed, backlog, inFlight, wire >>

Log == INSTANCE RecordLog WITH Records <- 1 .. Records

Frame(kind, n, f) == [kind |-> kind, n |-> n, f |-> f]
StartFrame == Frame("start", 0, 0)
EndFrame   == Frame("end", 0, 0)
AbortFrame == Frame("abort", 0, 0)

Put(frames, frame) ==
  IF frames # << >> /\ Last(frames) = frame THEN frames ELSE Append(frames, frame)

\* The frame after the last one on the wire, of the oldest unsent record.
NextFragment ==
  LET n == Head(backlog)
  IN  IF Last(wire).n = n THEN Frame("record", n, Last(wire).f + 1)
                          ELSE Frame("record", n, 1)

DeviceInit ==
  /\ session = 0 /\ phase = "idle" /\ committed = 0 /\ wire = << >>
  /\ Log!LogInit

Open ==
  /\ phase = "idle" /\ session < SessionLimit
  /\ session' = session + 1 /\ phase' = "open" /\ committed' = 0 /\ wire' = << >>
  /\ UNCHANGED << backlog, inFlight >>

\* The capture goes on for a while after a failure.
Commit ==
  /\ phase \in {"open", "aborting"} /\ committed < Records
  /\ committed' = committed + 1
  /\ Log!CommitRecord(committed + 1)
  /\ UNCHANGED << session, phase, wire >>

SendStart ==
  /\ phase \in {"open", "aborting"} /\ wire = << >>
  /\ wire' = << StartFrame >>
  /\ UNCHANGED << session, phase, committed, backlog, inFlight >>

SendFragment ==
  /\ phase = "open" /\ wire # << >> /\ backlog # << >>
  /\ NextFragment.f <= Fragments
  /\ wire' = Append(wire, NextFragment)
  /\ IF NextFragment.f = Fragments THEN Log!SendOldest
                                   ELSE UNCHANGED << backlog, inFlight >>
  /\ UNCHANGED << session, phase, committed >>

\* The frame that was being handed over when the session failed.
Straggler ==
  /\ phase = "aborting" /\ backlog # << >>
  /\ wire # << >> /\ Last(wire).kind \in {"start", "record"}
  /\ NextFragment.f <= Fragments
  /\ wire' = Append(wire, NextFragment)
  /\ UNCHANGED << session, phase, committed, backlog, inFlight >>

\* An ACK that was being handled when the session failed still retires.
AckRecord ==
  /\ phase \in {"open", "aborting"}
  /\ wire # << >> /\ Last(wire).kind \in {"start", "record"}
  /\ Log!AckOldest
  /\ UNCHANGED << session, phase, committed, wire >>

SendEnd ==
  /\ phase \in {"open", "ended"} /\ wire # << >>
  /\ backlog = << >> /\ inFlight = << >>
  /\ phase' = "ended" /\ wire' = Put(wire, EndFrame)
  /\ UNCHANGED << session, committed, backlog, inFlight >>

Fail ==
  /\ phase \in {"open", "ended"}
  /\ phase' = "aborting"
  /\ UNCHANGED << session, committed, backlog, inFlight, wire >>

SendAbort ==
  /\ phase = "aborting"
  /\ wire' = Put(wire, AbortFrame)
  /\ UNCHANGED << session, phase, committed, backlog, inFlight >>

\* After the ACK of END, or when the abort is over.
Close ==
  /\ phase \in {"ended", "aborting"}
  /\ phase' = "idle"
  /\ Log!DropAll
  /\ UNCHANGED << session, committed, wire >>

DeviceNext ==
  \/ Open \/ Commit \/ SendStart \/ SendFragment \/ Straggler \/ AckRecord
  \/ SendEnd \/ Fail \/ SendAbort \/ Close

DeviceSpec == DeviceInit /\ [][DeviceNext]_device
=============================================================================
