----------------------------- MODULE RecordLog -----------------------------
(***************************************************************************)
(* What the online spool promises to the stream: the records of a session   *)
(* come out once each and in the order in which they were committed, at     *)
(* most Window of them wait for their ACK at a time, and ACKs retire the    *)
(* oldest first.  Ending a session drops whatever is left.                  *)
(***************************************************************************)
EXTENDS Integers, Sequences

CONSTANTS
  Records,   \* the records there can be
  Window     \* ZY100_ONLINE_RECORD_IN_FLIGHT_MAX

VARIABLES
  backlog,   \* committed, not yet sent
  inFlight   \* sent, waiting for the ACK

LogInit == backlog = << >> /\ inFlight = << >>

\* A record is committed once: it is not in the log already.
CommitRecord(r) ==
  /\ \A i \in DOMAIN backlog  : backlog[i]  # r
  /\ \A i \in DOMAIN inFlight : inFlight[i] # r
  /\ backlog' = Append(backlog, r)
  /\ UNCHANGED inFlight

SendOldest ==
  /\ backlog # << >>
  /\ Len(inFlight) < Window
  /\ inFlight' = Append(inFlight, Head(backlog))
  /\ backlog' = Tail(backlog)

AckOldest ==
  /\ inFlight # << >>
  /\ inFlight' = Tail(inFlight)
  /\ UNCHANGED backlog

DropAll == backlog' = << >> /\ inFlight' = << >>

LogNext ==
  \/ \E r \in Records : CommitRecord(r)
  \/ SendOldest
  \/ AckOldest
  \/ DropAll

LogSpec == LogInit /\ [][LogNext]_<< backlog, inFlight >>
=============================================================================
