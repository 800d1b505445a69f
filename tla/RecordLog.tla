------------------------------ MODULE RecordLog ------------------------------
(***************************************************************************)
(* What a capture expects of its sink: an append-only log.  Records 1, 2 .. *)
(* are accepted while the log is open; those that readers see are a prefix  *)
(* of them that only grows, also over a crash; and a close that has begun   *)
(* ends, successfully only when readers see every accepted record.          *)
(***************************************************************************)
EXTENDS Naturals, Sequences

CONSTANT MaxUnseen    \* accepted records a crash may lose

VARIABLES accepted,   \* how many records were accepted
          seen,       \* the records readers see
          state

logVars == <<accepted, seen, state>>

FirstRecords(n) == [i \in 1 .. n |-> i]

LogInit == accepted = 0 /\ seen = <<>> /\ state = "open"

Accept == /\ state = "open"
          /\ accepted < Len(seen) + MaxUnseen
          /\ accepted' = accepted + 1
          /\ UNCHANGED <<seen, state>>

Show == /\ state \in {"open", "closing"}
        /\ \E n \in Len(seen) + 1 .. accepted : seen' = FirstRecords(n)
        /\ UNCHANGED <<accepted, state>>

BeginClose == state = "open" /\ state' = "closing" /\ UNCHANGED <<accepted, seen>>

EndClose == /\ state = "closing"
            /\ \/ state' = "closed" /\ seen = FirstRecords(accepted)
               \/ state' = "failed"
            /\ UNCHANGED <<accepted, seen>>

Crash == state # "crashed" /\ state' = "crashed" /\ UNCHANGED <<accepted, seen>>

LogNext == Accept \/ Show \/ BeginClose \/ EndClose \/ Crash

SafeLogSpec == LogInit /\ [][LogNext]_logVars

LogSpec == SafeLogSpec /\ WF_logVars(EndClose)
=============================================================================
