------------------------------ MODULE PaperRun ------------------------------
(***************************************************************************)
(* The life of one create-only PAPER run on disk: RunStore                 *)
(* (paper_engine/ledger.py) driven by PaperEngine's constructor, _persist, *)
(* _fail_closed and close (paper_engine/engine.py).                        *)
(*                                                                         *)
(* What an event does to the trading state is PaperEngine's subject; here  *)
(* it only produces ledger lines, numbered in the order they are produced. *)
(* Every write to disk is a step of its own, so that it can fail and the   *)
(* process can crash, or the machine lose power, on either side of it.     *)
(***************************************************************************)
EXTENDS Naturals, Sequences

CONSTANTS
    None,
    Durable,          \* durable_ledger
    MaxLines,         \* bound: ledger lines one event may append
    MaxProduced       \* bound: ledger lines of the whole run

ASSUME RunAssumption ==
    /\ Durable \in BOOLEAN
    /\ MaxLines \in Nat
    /\ MaxProduced \in Nat
    /\ None \notin Nat

VARIABLES
    pc,               \* the engine's next disk operation; "idle" between calls
    produced,         \* ledger lines appended so far
    uncommitted,      \* RunStore._pending
    writeFailed,      \* RunStore._write_failed
    engineFailed,     \* PaperEngine._failed
    closed,           \* PaperEngine._closed
    dir,              \* the run directory exists
    claim,            \* run-claim.json: "none", "written" or "durable"
    ledger,           \* ledger.jsonl as the file system shows it
    synced,           \* how much of it is fsynced
    state,            \* state.json: the number of lines it reflects
    runHealth,        \* health.json: status, lines reflected, ledger_write_failed
    old               \* every earlier content of state.json and health.json

runMemory == <<produced, uncommitted, writeFailed, engineFailed, closed>>
runDisk   == <<dir, claim, ledger, synced, state, runHealth, old>>
runVars   == <<pc, runMemory, runDisk>>

(* The lines from..to in the order they were appended. *)
Lines(from, to) == [i \in 1..(to - from + 1) |-> from + i - 1]

-----------------------------------------------------------------------------
(* RunStore.__init__ claims the run directory: mkdir with exist_ok=False.  *)
(* A second attempt finds the directory and changes nothing.               *)
Open ==
    /\ pc \in {"absent", "dead"}
    /\ ~dir
    /\ dir' = TRUE
    /\ pc' = "claim"
    /\ produced' = 0 /\ uncommitted' = <<>>
    /\ writeFailed' = FALSE /\ engineFailed' = FALSE /\ closed' = FALSE
    /\ UNCHANGED <<claim, ledger, synced, state, runHealth, old>>

(* write_claim: the claim, then the directory entries, fsynced if durable. *)
WriteClaim ==
    /\ pc = "claim"
    /\ claim' = IF Durable THEN "durable" ELSE "written"
    /\ pc' = "commit"
    /\ UNCHANGED <<runMemory, dir, ledger, synced, state, runHealth, old>>

(* A write that raises inside the constructor leaves no engine behind. *)
ConstructorFails ==
    /\ pc = "claim" \/ (pc \in {"commit", "state", "health"} /\ runHealth = None)
    /\ pc' = "dead"
    /\ UNCHANGED <<runMemory, runDisk>>

-----------------------------------------------------------------------------
(* _persist: commit, then state.json, then health.json. *)

RunStatus == IF engineFailed THEN "FAILED" ELSE IF closed THEN "COMPLETED" ELSE "RUNNING"

HealthNow == [status |-> RunStatus, lines |-> produced, ledgerWriteFailed |-> writeFailed]

(* on_event or on_clock applied in memory; the strategy may raise half way. *)
Advance ==
    /\ pc = "idle" /\ ~engineFailed /\ ~closed
    /\ \E n \in 0..MaxLines, raises \in BOOLEAN :
         /\ produced + n <= MaxProduced
         /\ produced' = produced + n
         /\ uncommitted' = uncommitted \o Lines(produced + 1, produced + n)
         /\ engineFailed' = raises
         /\ pc' = IF raises THEN "fail_commit" ELSE "commit"
    /\ UNCHANGED <<writeFailed, closed, runDisk>>

(* Where an exception in _persist takes the caller: through _fail_closed,  *)
(* or out of close().                                                      *)
AfterError == IF closed THEN "idle" ELSE "fail_commit"

(* Mutant: the append is not fsynced. *)
AppendUnsynced(next) ==
    /\ ledger' = ledger \o uncommitted
    /\ uncommitted' = <<>>
    /\ pc' = next
    /\ UNCHANGED <<produced, writeFailed, engineFailed, closed, dir, claim, synced, state, runHealth, old>>

(* RunStore.commit writes the buffered lines in one append. *)
AppendBatch(next) ==
    /\ ledger' = ledger \o uncommitted
    /\ synced' = IF Durable /\ uncommitted # <<>> THEN Len(ledger) + Len(uncommitted) ELSE synced
    /\ uncommitted' = <<>>
    /\ pc' = next
    /\ UNCHANGED <<produced, writeFailed, engineFailed, closed, dir, claim, state, runHealth, old>>

(* The append raises after writing part of the batch, or in its fsync. *)
AppendFails(next) ==
    /\ uncommitted # <<>>
    /\ \E k \in 0..Len(uncommitted) : ledger' = ledger \o SubSeq(uncommitted, 1, k)
    /\ writeFailed' = TRUE
    /\ engineFailed' = ~closed
    /\ pc' = next
    /\ UNCHANGED <<produced, uncommitted, closed, dir, claim, synced, state, runHealth, old>>

CommitLines == pc = "commit" /\ ~writeFailed /\ AppendBatch("state")

CommitFails == pc = "commit" /\ ~writeFailed /\ runHealth # None /\ AppendFails(AfterError)

(* _write_json: a temporary file and an atomic replace, never fsynced. *)
ReplaceState(next) ==
    /\ state' = produced
    /\ old' = [old EXCEPT !.state = @ \cup {state}]
    /\ pc' = next
    /\ UNCHANGED <<runMemory, dir, claim, ledger, synced, runHealth>>

ReplaceHealth(next) ==
    /\ runHealth' = HealthNow
    /\ old' = [old EXCEPT !.health = @ \cup {runHealth}]
    /\ pc' = next
    /\ UNCHANGED <<runMemory, dir, claim, ledger, synced, state>>

WriteState == pc = "state" /\ ReplaceState("health")

WriteHealth == pc = "health" /\ ReplaceHealth("idle")

ProjectionFails ==
    /\ pc \in {"state", "health"} /\ runHealth # None
    /\ engineFailed' = ~closed
    /\ pc' = AfterError
    /\ UNCHANGED <<produced, uncommitted, writeFailed, closed, runDisk>>

-----------------------------------------------------------------------------
(* _fail_closed: commit what is buffered, then health.json before          *)
(* state.json; every error on the way is suppressed.                       *)

(* Mutant: the store forgets that an append failed. *)
FailCommitAgain == pc = "fail_commit" /\ (AppendBatch("fail_health") \/ AppendFails("fail_health"))

FailCommit ==
    /\ pc = "fail_commit"
    /\ \/ ~writeFailed /\ AppendBatch("fail_health")
       \/ ~writeFailed /\ AppendFails("fail_health")
       \/ writeFailed /\ pc' = "fail_health" /\ UNCHANGED <<runMemory, runDisk>>

FailHealth ==
    /\ pc = "fail_health"
    /\ \/ ReplaceHealth("fail_state")
       \/ pc' = "fail_state" /\ UNCHANGED <<runMemory, runDisk>>

FailState ==
    /\ pc = "fail_state"
    /\ \/ ReplaceState("idle")
       \/ pc' = "idle" /\ UNCHANGED <<runMemory, runDisk>>

-----------------------------------------------------------------------------
(* close: a failed run rewrites its projections directly, health first,    *)
(* and an error reaches the caller.                                        *)

(* Mutant: close persists a failed run like any other. *)
CloseForgets ==
    /\ pc = "idle" /\ ~closed
    /\ closed' = TRUE
    /\ engineFailed' = FALSE
    /\ pc' = "state"
    /\ UNCHANGED <<produced, uncommitted, writeFailed, runDisk>>

CloseRun ==
    /\ pc = "idle" /\ ~closed
    /\ closed' = TRUE
    /\ pc' = IF engineFailed THEN "close_health" ELSE "commit"
    /\ UNCHANGED <<produced, uncommitted, writeFailed, engineFailed, runDisk>>

CloseHealth ==
    /\ pc = "close_health"
    /\ \/ ReplaceHealth("close_state")
       \/ pc' = "idle" /\ UNCHANGED <<runMemory, runDisk>>

CloseState ==
    /\ pc = "close_state"
    /\ \/ ReplaceState("idle")
       \/ pc' = "idle" /\ UNCHANGED <<runMemory, runDisk>>

-----------------------------------------------------------------------------
(* The process dies: its memory is gone, the files stay as they are. *)
Crash ==
    /\ pc \notin {"absent", "dead"}
    /\ pc' = "dead"
    /\ UNCHANGED <<runMemory, runDisk>>

(* The machine loses power: what was not fsynced may be lost.  Only a      *)
(* durable claim pins the directory entries.                               *)
PowerLoss ==
    /\ pc # "absent"
    /\ pc' = "dead"
    /\ \/ /\ claim # "durable"
          /\ dir' = FALSE /\ claim' = "none" /\ ledger' = <<>> /\ synced' = 0
          /\ state' = None /\ runHealth' = None
          /\ old' = [state |-> {}, health |-> {}]
       \/ /\ \E k \in synced..Len(ledger) : ledger' = SubSeq(ledger, 1, k)
          /\ state' \in old.state \cup {state}
          /\ runHealth' \in old.health \cup {runHealth}
          /\ UNCHANGED <<dir, claim, synced, old>>
    /\ UNCHANGED runMemory

RunInit ==
    /\ pc = "absent"
    /\ produced = 0 /\ uncommitted = <<>>
    /\ writeFailed = FALSE /\ engineFailed = FALSE /\ closed = FALSE
    /\ dir = FALSE /\ claim = "none" /\ ledger = <<>> /\ synced = 0
    /\ state = None /\ runHealth = None
    /\ old = [state |-> {}, health |-> {}]

RunNext ==
    \/ Open \/ WriteClaim \/ ConstructorFails
    \/ Advance \/ CommitLines \/ CommitFails \/ WriteState \/ WriteHealth \/ ProjectionFails
    \/ FailCommit \/ FailHealth \/ FailState
    \/ CloseRun \/ CloseHealth \/ CloseState
    \/ Crash \/ PowerLoss

RunSpec == RunInit /\ [][RunNext]_runVars

-----------------------------------------------------------------------------
(* Properties. *)

Steps == {"absent", "claim", "commit", "state", "health", "idle", "fail_commit",
          "fail_health", "fail_state", "close_health", "close_state", "dead"}
MaybeNat == Nat \cup {None}
MaybeHealth == [status : {"FAILED", "COMPLETED", "RUNNING"}, lines : Nat,
                ledgerWriteFailed : BOOLEAN] \cup {None}

(* Types, and what is fsynced is part of the file. *)
RunTypeOK ==
    /\ pc \in Steps
    /\ produced \in Nat /\ uncommitted \in Seq(Nat)
    /\ writeFailed \in BOOLEAN /\ engineFailed \in BOOLEAN /\ closed \in BOOLEAN
    /\ dir \in BOOLEAN /\ claim \in {"none", "written", "durable"}
    /\ ledger \in Seq(Nat) /\ synced \in 0..Len(ledger)
    /\ state \in MaybeNat /\ runHealth \in MaybeHealth
    /\ old \in [state : SUBSET MaybeNat, health : SUBSET MaybeHealth]

(* The ledger is a complete audit trail without duplicates: whatever fails *)
(* or crashes on the way, the file holds the lines in the order they were  *)
(* appended, each one once and none skipped.  _fail_closed commits again   *)
(* after a failed commit, so this rests on RunStore refusing that one.     *)
LedgerExactlyOnce == \A i \in DOMAIN ledger : ledger[i] = i

(* What a projection says is in the ledger.  Every health.json a healthy   *)
(* run ever published reflects only lines the ledger holds, for a durable  *)
(* run even after losing power; state.json may run ahead only in a run     *)
(* whose ledger write failed.  (_persist's order, and commit's fsync.)     *)
ProjectionBacked ==
    Durable =>
        /\ \A h \in (old.health \cup {runHealth}) \ {None} :
             h.status # "FAILED" => h.lines <= Len(ledger)
        /\ \A s \in (old.state \cup {state}) \ {None} :
             s > Len(ledger) => writeFailed

(* A run reported FAILED stays FAILED: neither close() nor a later write   *)
(* turns the report back.  Losing power may, health.json is not fsynced.   *)
FailedStatusSticks ==
    [][runHealth # None /\ runHealth.status = "FAILED" /\ pc' # "dead"
         => runHealth'.status = "FAILED"]_runVars
=============================================================================
