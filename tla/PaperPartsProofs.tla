------------------------- MODULE PaperPartsProofs -------------------------
(***************************************************************************)
(* Two parts of PAPER around its engine.  The run directory, for every      *)
(* bound and both values of durable_ledger: RunInv is the inductive         *)
(* invariant; the ledger and the buffer together are the lines 1..produced  *)
(* as long as no append failed, and each disk operation is only reached     *)
(* with the flags it relies on.  The price grid, for any number of figures  *)
(* and decimals and every price: the rule in figures and decimals is        *)
(* divisibility by a power of ten, and everything follows from how those    *)
(* divide each other.                                                       *)
(***************************************************************************)
EXTENDS PaperRun, PricePrecision, WellFoundedInduction, TLAPS

-----------------------------------------------------------------------------
(* The run directory.                                                       *)

Alive == pc \notin {"absent", "dead"}

(* The file, then the buffer, are the appended lines in order.             *)
Numbered ==
    /\ \A i \in 1..Len(ledger) : ledger[i] = i
    /\ Alive /\ ~writeFailed =>
         /\ Len(ledger) + Len(uncommitted) = produced
         /\ \A i \in 1..Len(uncommitted) : uncommitted[i] = Len(ledger) + i

(* What the engine knows at each of its disk operations. *)
Control ==
    /\ pc \in {"claim", "commit", "state", "health"} => ~engineFailed /\ ~writeFailed
    /\ pc \in {"fail_commit", "fail_health", "fail_state"} => engineFailed /\ ~closed
    /\ pc \in {"close_health", "close_state"} => engineFailed /\ closed
    /\ pc = "idle" /\ writeFailed => engineFailed \/ closed
    /\ pc \in {"state", "health", "idle", "fail_health", "fail_state", "close_health", "close_state"}
         /\ ~writeFailed => uncommitted = <<>>

(* Nothing is on disk before the directory is, and no engine runs.         *)
EmptyDisk ==
    /\ Alive => dir
    /\ ~dir => /\ ledger = <<>> /\ synced = 0 /\ state = None /\ runHealth = None
               /\ old = [state |-> {}, health |-> {}]

(* The fsynced part of the ledger backs the projections. *)
SyncedBacks ==
    Durable =>
        /\ Alive /\ ~writeFailed => synced = Len(ledger)
        /\ \A h \in (old.health \cup {runHealth}) \ {None} :
             h.status # "FAILED" => h.lines <= synced
        /\ \A s \in (old.state \cup {state}) \ {None} : s > synced => writeFailed

(* A FAILED report is the report of a failed engine. *)
FailedReported ==
    Alive /\ runHealth # None /\ runHealth.status = "FAILED" => engineFailed

RunInv ==
    /\ RunTypeOK
    /\ Numbered
    /\ Control
    /\ EmptyDisk
    /\ SyncedBacks
    /\ FailedReported

-----------------------------------------------------------------------------
(* Appending the numbered buffer to the numbered ledger numbers the whole. *)
LEMMA AppendNumbered ==
    ASSUME NEW s \in Seq(Nat), NEW t \in Seq(Nat),
           \A i \in 1..Len(s) : s[i] = i,
           \A i \in 1..Len(t) : t[i] = Len(s) + i
    PROVE  /\ s \o t \in Seq(Nat)
           /\ Len(s \o t) = Len(s) + Len(t)
           /\ \A i \in 1..Len(s \o t) : (s \o t)[i] = i
    OBVIOUS

(* So does appending a prefix of it: a torn append. *)
LEMMA PrefixNumbered ==
    ASSUME NEW t \in Seq(Nat), NEW n \in Nat, NEW k \in 0..Len(t),
           \A i \in 1..Len(t) : t[i] = n + i
    PROVE  /\ SubSeq(t, 1, k) \in Seq(Nat)
           /\ Len(SubSeq(t, 1, k)) = k
           /\ \A i \in 1..k : SubSeq(t, 1, k)[i] = n + i
    OBVIOUS

(* Lines(from, to) is what Advance adds to the buffer. *)
LEMMA LinesNumbered ==
    ASSUME NEW p \in Nat, NEW n \in Nat
    PROVE  /\ Lines(p + 1, p + n) \in Seq(Nat)
           /\ Len(Lines(p + 1, p + n)) = n
           /\ \A i \in 1..n : Lines(p + 1, p + n)[i] = p + i
    BY DEF Lines

(* The empty sequence is a sequence. *)
LEMMA EmptySeq == <<>> \in Seq(Nat) /\ Len(<<>>) = 0
    OBVIOUS

(* A directory without projections. *)
LEMMA NothingOld ==
    [state |-> {}, health |-> {}] \in [state : SUBSET MaybeNat, health : SUBSET MaybeHealth]
    OBVIOUS

(* Losing the tail of a file leaves a prefix of it. *)
LEMMA PrefixSeq ==
    ASSUME NEW s \in Seq(Nat), NEW k \in 0..Len(s)
    PROVE  SubSeq(s, 1, k) \in Seq(Nat) /\ Len(SubSeq(s, 1, k)) = k
    OBVIOUS

(* The initial state satisfies the inductive invariant. *)
LEMMA RunInvInit == RunInit => RunInv
<1> SUFFICES ASSUME RunInit PROVE RunInv
    OBVIOUS
<1> USE RunAssumption DEF RunInit
<1>1. RunTypeOK
  <2>1. pc \in Steps /\ uncommitted \in Seq(Nat) /\ ledger \in Seq(Nat) /\ synced \in 0..Len(ledger)
    BY EmptySeq DEF Steps
  <2>2. old \in [state : SUBSET MaybeNat, health : SUBSET MaybeHealth]
    BY NothingOld
  <2> QED
    BY <2>1, <2>2 DEF RunTypeOK, MaybeNat, MaybeHealth
<1>2. Numbered /\ Control /\ EmptyDisk /\ FailedReported
    BY DEF Numbered, Control, EmptyDisk, FailedReported, Alive
<1>3. SyncedBacks
    BY DEF SyncedBacks, Alive
<1> QED
    BY <1>1, <1>2, <1>3 DEF RunInv

(* Every step of the run keeps it. *)
LEMMA RunInvStep == RunInv /\ [RunNext]_runVars => RunInv'
<1> SUFFICES ASSUME RunInv, [RunNext]_runVars PROVE RunInv'
    OBVIOUS
<1> USE RunAssumption DEF RunInv, RunTypeOK, Steps, MaybeNat, MaybeHealth, runMemory, runDisk
<1>1. CASE Open
  <2>1. RunTypeOK'
    BY <1>1, EmptySeq DEF Open, Numbered, Control, Alive
  <2>2. Numbered'
    BY <1>1 DEF Open, Numbered, Control, EmptyDisk, Alive
  <2>3. Control'
    BY <1>1 DEF Open, Numbered, Control, EmptyDisk, Alive
  <2>4. EmptyDisk'
    BY <1>1 DEF Open, EmptyDisk, Alive
  <2>5. SyncedBacks'
    BY <1>1 DEF Open, Numbered, Control, EmptyDisk, SyncedBacks, Alive
  <2>6. FailedReported'
    BY <1>1 DEF Open, Control, EmptyDisk, FailedReported, Alive
  <2> QED
    BY <2>1, <2>2, <2>3, <2>4, <2>5, <2>6
<1>2. CASE WriteClaim
    BY <1>2 DEF WriteClaim, Numbered, Control, EmptyDisk, SyncedBacks, FailedReported, Alive
<1>3. CASE ConstructorFails
    BY <1>3 DEF ConstructorFails, Numbered, Control, EmptyDisk, SyncedBacks, FailedReported, Alive
<1>4. CASE Advance
  <2>a. PICK n \in 0..MaxLines : /\ produced' = produced + n
                                /\ uncommitted' = uncommitted \o Lines(produced + 1, produced + n)
    BY <1>4 DEF Advance
  <2>b. ~writeFailed /\ uncommitted = <<>> /\ Len(ledger) = produced
    BY <1>4 DEF Advance, Numbered, Control, Alive
  <2>c. uncommitted' = Lines(produced + 1, produced + n)
    BY <2>a, <2>b, LinesNumbered
  <2>d. /\ n \in Nat /\ uncommitted' \in Seq(Nat) /\ Len(uncommitted') = n
        /\ \A i \in 1..n : uncommitted'[i] = produced + i
    <3>1. n \in Nat /\ produced \in Nat
      OBVIOUS
    <3> HIDE DEF RunInv, RunTypeOK
    <3> QED
      BY <2>c, <3>1, LinesNumbered
  <2>e. UNCHANGED <<writeFailed, closed, runDisk>> /\ engineFailed' \in BOOLEAN /\ pc' \in Steps
    BY <1>4 DEF Advance
  <2>1. RunTypeOK'
    BY <2>a, <2>d, <2>e
  <2>2. Numbered'
    BY <2>a, <2>b, <2>d, <2>e DEF Numbered
  <2>3. Control'
    BY <1>4 DEF Advance, Numbered, Control, EmptyDisk, Alive
  <2>4. EmptyDisk'
    BY <1>4 DEF Advance, EmptyDisk, Alive
  <2>5. SyncedBacks'
    BY <1>4 DEF Advance, Numbered, Control, EmptyDisk, SyncedBacks, Alive
  <2>6. FailedReported'
    BY <1>4 DEF Advance, Control, EmptyDisk, FailedReported, Alive
  <2> QED
    BY <2>1, <2>2, <2>3, <2>4, <2>5, <2>6
<1>5. CASE CommitLines
  <2>1. RunTypeOK'
    BY <1>5 DEF CommitLines, AppendBatch, Numbered, Control, Alive
  <2>2. Numbered'
    BY <1>5, AppendNumbered DEF CommitLines, AppendBatch, Numbered, Control, EmptyDisk, Alive
  <2>3. Control'
    BY <1>5 DEF CommitLines, AppendBatch, Numbered, Control, EmptyDisk, Alive
  <2>4. EmptyDisk'
    BY <1>5 DEF CommitLines, AppendBatch, EmptyDisk, Alive
  <2>5. SyncedBacks'
    BY <1>5 DEF CommitLines, AppendBatch, Numbered, Control, EmptyDisk, SyncedBacks, Alive
  <2>6. FailedReported'
    BY <1>5 DEF CommitLines, AppendBatch, Control, EmptyDisk, FailedReported, Alive
  <2> QED
    BY <2>1, <2>2, <2>3, <2>4, <2>5, <2>6
<1>6. CASE CommitFails
  <2>1. RunTypeOK'
    BY <1>6 DEF CommitFails, AppendFails, AfterError, Numbered, Control, Alive
  <2>2. Numbered'
    BY <1>6 DEF CommitFails, AppendFails, AfterError, Numbered, Control, EmptyDisk, Alive
  <2>3. Control'
    BY <1>6 DEF CommitFails, AppendFails, AfterError, Numbered, Control, EmptyDisk, Alive
  <2>4. EmptyDisk'
    BY <1>6 DEF CommitFails, AppendFails, AfterError, EmptyDisk, Alive
  <2>5. SyncedBacks'
    BY <1>6 DEF CommitFails, AppendFails, AfterError, Numbered, Control, EmptyDisk, SyncedBacks, Alive
  <2>6. FailedReported'
    BY <1>6 DEF CommitFails, AppendFails, AfterError, Control, EmptyDisk, FailedReported, Alive
  <2> QED
    BY <2>1, <2>2, <2>3, <2>4, <2>5, <2>6
<1>7. CASE WriteState
  <2>1. RunTypeOK'
    BY <1>7 DEF WriteState, ReplaceState, Numbered, Control, Alive
  <2>2. Numbered'
    BY <1>7 DEF WriteState, ReplaceState, Numbered, Control, EmptyDisk, Alive
  <2>3. Control'
    BY <1>7 DEF WriteState, ReplaceState, Numbered, Control, EmptyDisk, Alive
  <2>4. EmptyDisk'
    BY <1>7 DEF WriteState, ReplaceState, EmptyDisk, Alive
  <2>5. SyncedBacks'
    BY <1>7 DEF WriteState, ReplaceState, Numbered, Control, EmptyDisk, SyncedBacks, Alive
  <2>6. FailedReported'
    BY <1>7 DEF WriteState, ReplaceState, Control, EmptyDisk, FailedReported, Alive
  <2> QED
    BY <2>1, <2>2, <2>3, <2>4, <2>5, <2>6
<1>8. CASE WriteHealth
  <2>1. RunTypeOK'
    BY <1>8 DEF WriteHealth, ReplaceHealth, HealthNow, RunStatus, Numbered, Control, Alive
  <2>2. Numbered'
    BY <1>8 DEF WriteHealth, ReplaceHealth, HealthNow, RunStatus, Numbered, Control, EmptyDisk, Alive
  <2>3. Control'
    BY <1>8 DEF WriteHealth, ReplaceHealth, HealthNow, RunStatus, Numbered, Control, EmptyDisk, Alive
  <2>4. EmptyDisk'
    BY <1>8 DEF WriteHealth, ReplaceHealth, HealthNow, RunStatus, EmptyDisk, Alive
  <2>5. SyncedBacks'
    BY <1>8 DEF WriteHealth, ReplaceHealth, HealthNow, RunStatus, Numbered, Control, EmptyDisk, SyncedBacks, Alive
  <2>6. FailedReported'
    BY <1>8 DEF WriteHealth, ReplaceHealth, HealthNow, RunStatus, Control, EmptyDisk, FailedReported, Alive
  <2> QED
    BY <2>1, <2>2, <2>3, <2>4, <2>5, <2>6
<1>9. CASE ProjectionFails
  <2>1. RunTypeOK'
    BY <1>9 DEF ProjectionFails, AfterError, Numbered, Control, Alive
  <2>2. Numbered'
    BY <1>9 DEF ProjectionFails, AfterError, Numbered, Control, EmptyDisk, Alive
  <2>3. Control'
    BY <1>9 DEF ProjectionFails, AfterError, Numbered, Control, EmptyDisk, Alive
  <2>4. EmptyDisk'
    BY <1>9 DEF ProjectionFails, AfterError, EmptyDisk, Alive
  <2>5. SyncedBacks'
    BY <1>9 DEF ProjectionFails, AfterError, Numbered, Control, EmptyDisk, SyncedBacks, Alive
  <2>6. FailedReported'
    BY <1>9 DEF ProjectionFails, AfterError, Control, EmptyDisk, FailedReported, Alive
  <2> QED
    BY <2>1, <2>2, <2>3, <2>4, <2>5, <2>6
<1>10. CASE FailCommit
  <2>1. CASE ~writeFailed /\ AppendBatch("fail_health")
    <3>1. RunTypeOK'
      BY <1>10, <2>1 DEF FailCommit, AppendBatch, Numbered, Control, Alive
    <3>2. Numbered'
      BY <1>10, <2>1 DEF FailCommit, AppendBatch, Numbered, Control, EmptyDisk, Alive
    <3>3. Control'
      BY <1>10, <2>1 DEF FailCommit, AppendBatch, Numbered, Control, EmptyDisk, Alive
    <3>4. EmptyDisk'
      BY <1>10, <2>1 DEF FailCommit, AppendBatch, EmptyDisk, Alive
    <3>5. SyncedBacks'
      BY <1>10, <2>1 DEF FailCommit, AppendBatch, Numbered, Control, EmptyDisk, SyncedBacks, Alive
    <3>6. FailedReported'
      BY <1>10, <2>1 DEF FailCommit, AppendBatch, Control, EmptyDisk, FailedReported, Alive
    <3> QED
      BY <3>1, <3>2, <3>3, <3>4, <3>5, <3>6
  <2>2. CASE ~writeFailed /\ AppendFails("fail_health")
    <3>1. RunTypeOK'
      BY <1>10, <2>2 DEF FailCommit, AppendFails, Numbered, Control, Alive
    <3>2. Numbered'
      BY <1>10, <2>2 DEF FailCommit, AppendFails, Numbered, Control, EmptyDisk, Alive
    <3>3. Control'
      BY <1>10, <2>2 DEF FailCommit, AppendFails, Numbered, Control, EmptyDisk, Alive
    <3>4. EmptyDisk'
      BY <1>10, <2>2 DEF FailCommit, AppendFails, EmptyDisk, Alive
    <3>5. SyncedBacks'
      BY <1>10, <2>2 DEF FailCommit, AppendFails, Numbered, Control, EmptyDisk, SyncedBacks, Alive
    <3>6. FailedReported'
      BY <1>10, <2>2 DEF FailCommit, AppendFails, Control, EmptyDisk, FailedReported, Alive
    <3> QED
      BY <3>1, <3>2, <3>3, <3>4, <3>5, <3>6
  <2>3. CASE writeFailed /\ pc' = "fail_health" /\ UNCHANGED <<runMemory, runDisk>>
    BY <1>10, <2>3 DEF FailCommit, Numbered, Control, EmptyDisk, SyncedBacks, FailedReported, Alive
  <2> QED
    BY <1>10, <2>1, <2>2, <2>3 DEF FailCommit
<1>11. CASE FailHealth
  <2>1. CASE ReplaceHealth("fail_state")
    <3>1. RunTypeOK'
      BY <1>11, <2>1 DEF FailHealth, ReplaceHealth, HealthNow, RunStatus, Numbered, Control, Alive
    <3>2. Numbered'
      BY <1>11, <2>1 DEF FailHealth, ReplaceHealth, HealthNow, RunStatus, Numbered, Control, EmptyDisk, Alive
    <3>3. Control'
      BY <1>11, <2>1 DEF FailHealth, ReplaceHealth, HealthNow, RunStatus, Numbered, Control, EmptyDisk, Alive
    <3>4. EmptyDisk'
      BY <1>11, <2>1 DEF FailHealth, ReplaceHealth, HealthNow, RunStatus, EmptyDisk, Alive
    <3>5. SyncedBacks'
      BY <1>11, <2>1 DEF FailHealth, ReplaceHealth, HealthNow, RunStatus, Numbered, Control, EmptyDisk, SyncedBacks, Alive
    <3>6. FailedReported'
      BY <1>11, <2>1 DEF FailHealth, ReplaceHealth, HealthNow, RunStatus, Control, EmptyDisk, FailedReported, Alive
    <3> QED
      BY <3>1, <3>2, <3>3, <3>4, <3>5, <3>6
  <2>2. CASE pc' = "fail_state" /\ UNCHANGED <<runMemory, runDisk>>
    BY <1>11, <2>2 DEF FailHealth, Numbered, Control, EmptyDisk, SyncedBacks, FailedReported, Alive
  <2> QED
    BY <1>11, <2>1, <2>2 DEF FailHealth
<1>12. CASE FailState
  <2>1. CASE ReplaceState("idle")
    <3>1. RunTypeOK'
      BY <1>12, <2>1 DEF FailState, ReplaceState, Numbered, Control, Alive
    <3>2. Numbered'
      BY <1>12, <2>1 DEF FailState, ReplaceState, Numbered, Control, EmptyDisk, Alive
    <3>3. Control'
      BY <1>12, <2>1 DEF FailState, ReplaceState, Numbered, Control, EmptyDisk, Alive
    <3>4. EmptyDisk'
      BY <1>12, <2>1 DEF FailState, ReplaceState, EmptyDisk, Alive
    <3>5. SyncedBacks'
      BY <1>12, <2>1 DEF FailState, ReplaceState, Numbered, Control, EmptyDisk, SyncedBacks, Alive
    <3>6. FailedReported'
      BY <1>12, <2>1 DEF FailState, ReplaceState, Control, EmptyDisk, FailedReported, Alive
    <3> QED
      BY <3>1, <3>2, <3>3, <3>4, <3>5, <3>6
  <2>2. CASE pc' = "idle" /\ UNCHANGED <<runMemory, runDisk>>
    BY <1>12, <2>2 DEF FailState, Numbered, Control, EmptyDisk, SyncedBacks, FailedReported, Alive
  <2> QED
    BY <1>12, <2>1, <2>2 DEF FailState
<1>13. CASE CloseRun
    BY <1>13 DEF CloseRun, Numbered, Control, EmptyDisk, SyncedBacks, FailedReported, Alive
<1>14. CASE CloseHealth
  <2>1. CASE ReplaceHealth("close_state")
    <3>1. RunTypeOK'
      BY <1>14, <2>1 DEF CloseHealth, ReplaceHealth, HealthNow, RunStatus, Numbered, Control, Alive
    <3>2. Numbered'
      BY <1>14, <2>1 DEF CloseHealth, ReplaceHealth, HealthNow, RunStatus, Numbered, Control, EmptyDisk, Alive
    <3>3. Control'
      BY <1>14, <2>1 DEF CloseHealth, ReplaceHealth, HealthNow, RunStatus, Numbered, Control, EmptyDisk, Alive
    <3>4. EmptyDisk'
      BY <1>14, <2>1 DEF CloseHealth, ReplaceHealth, HealthNow, RunStatus, EmptyDisk, Alive
    <3>5. SyncedBacks'
      BY <1>14, <2>1 DEF CloseHealth, ReplaceHealth, HealthNow, RunStatus, Numbered, Control, EmptyDisk, SyncedBacks, Alive
    <3>6. FailedReported'
      BY <1>14, <2>1 DEF CloseHealth, ReplaceHealth, HealthNow, RunStatus, Control, EmptyDisk, FailedReported, Alive
    <3> QED
      BY <3>1, <3>2, <3>3, <3>4, <3>5, <3>6
  <2>2. CASE pc' = "idle" /\ UNCHANGED <<runMemory, runDisk>>
    BY <1>14, <2>2 DEF CloseHealth, Numbered, Control, EmptyDisk, SyncedBacks, FailedReported, Alive
  <2> QED
    BY <1>14, <2>1, <2>2 DEF CloseHealth
<1>15. CASE CloseState
  <2>1. CASE ReplaceState("idle")
    <3>1. RunTypeOK'
      BY <1>15, <2>1 DEF CloseState, ReplaceState, Numbered, Control, Alive
    <3>2. Numbered'
      BY <1>15, <2>1 DEF CloseState, ReplaceState, Numbered, Control, EmptyDisk, Alive
    <3>3. Control'
      BY <1>15, <2>1 DEF CloseState, ReplaceState, Numbered, Control, EmptyDisk, Alive
    <3>4. EmptyDisk'
      BY <1>15, <2>1 DEF CloseState, ReplaceState, EmptyDisk, Alive
    <3>5. SyncedBacks'
      BY <1>15, <2>1 DEF CloseState, ReplaceState, Numbered, Control, EmptyDisk, SyncedBacks, Alive
    <3>6. FailedReported'
      BY <1>15, <2>1 DEF CloseState, ReplaceState, Control, EmptyDisk, FailedReported, Alive
    <3> QED
      BY <3>1, <3>2, <3>3, <3>4, <3>5, <3>6
  <2>2. CASE pc' = "idle" /\ UNCHANGED <<runMemory, runDisk>>
    BY <1>15, <2>2 DEF CloseState, Numbered, Control, EmptyDisk, SyncedBacks, FailedReported, Alive
  <2> QED
    BY <1>15, <2>1, <2>2 DEF CloseState
<1>16. CASE Crash
    BY <1>16 DEF Crash, Numbered, Control, EmptyDisk, SyncedBacks, FailedReported, Alive
<1>17. CASE PowerLoss
  <2>1. CASE /\ dir' = FALSE /\ claim' = "none" /\ ledger' = <<>> /\ synced' = 0
             /\ state' = None /\ runHealth' = None /\ old' = [state |-> {}, health |-> {}]
    <3>a. old' \in [state : SUBSET MaybeNat, health : SUBSET MaybeHealth]
      BY <2>1, NothingOld
    <3>b. ledger' \in Seq(Nat) /\ synced' \in 0..Len(ledger')
      BY <2>1, EmptySeq
    <3>1. RunTypeOK'
      BY <1>17, <2>1, <3>a, <3>b DEF PowerLoss
    <3>2. Numbered'
      BY <1>17, <2>1 DEF PowerLoss, Numbered, Control, EmptyDisk, Alive
    <3>3. Control'
      BY <1>17, <2>1 DEF PowerLoss, Numbered, Control, EmptyDisk, Alive
    <3>4. EmptyDisk'
      BY <1>17, <2>1 DEF PowerLoss, EmptyDisk, Alive
    <3>5. SyncedBacks'
      BY <1>17, <2>1 DEF PowerLoss, Numbered, Control, EmptyDisk, SyncedBacks, Alive
    <3>6. FailedReported'
      BY <1>17, <2>1 DEF PowerLoss, Control, EmptyDisk, FailedReported, Alive
    <3> QED
      BY <3>1, <3>2, <3>3, <3>4, <3>5, <3>6
  <2>2. CASE /\ \E k \in synced..Len(ledger) : ledger' = SubSeq(ledger, 1, k)
             /\ state' \in old.state \cup {state} /\ runHealth' \in old.health \cup {runHealth}
             /\ UNCHANGED <<dir, claim, synced, old>>
    <3>a. PICK k \in synced..Len(ledger) : ledger' = SubSeq(ledger, 1, k)
      BY <2>2
    <3>b. ledger' \in Seq(Nat) /\ Len(ledger') = k
      BY <3>a, PrefixSeq
    <3>1. RunTypeOK'
      BY <1>17, <2>2, <3>b DEF PowerLoss
    <3>2. Numbered'
      BY <1>17, <2>2 DEF PowerLoss, Numbered, Control, EmptyDisk, Alive
    <3>3. Control'
      BY <1>17, <2>2 DEF PowerLoss, Numbered, Control, EmptyDisk, Alive
    <3>4. EmptyDisk'
      BY <1>17, <2>2 DEF PowerLoss, EmptyDisk, Alive
    <3>5. SyncedBacks'
      BY <1>17, <2>2 DEF PowerLoss, Numbered, Control, EmptyDisk, SyncedBacks, Alive
    <3>6. FailedReported'
      BY <1>17, <2>2 DEF PowerLoss, Control, EmptyDisk, FailedReported, Alive
    <3> QED
      BY <3>1, <3>2, <3>3, <3>4, <3>5, <3>6
  <2> QED
    BY <1>17, <2>1, <2>2 DEF PowerLoss
<1>18. CASE UNCHANGED runVars
    BY <1>18 DEF runVars, Numbered, Control, EmptyDisk, SyncedBacks, FailedReported, Alive
<1> QED
    BY <1>1, <1>2, <1>3, <1>4, <1>5, <1>6, <1>7, <1>8, <1>9, <1>10, <1>11, <1>12, <1>13, <1>14, <1>15, <1>16, <1>17, <1>18 DEF RunNext

(* The invariant holds in every state of every run. *)
THEOREM RunInvariant == RunSpec => []RunInv
<1> QED
    BY RunInvInit, RunInvStep, PTL DEF RunSpec

(* The variables of a run keep their types, and the fsynced length never   *)
(* exceeds the file (RunStore's fields and files).                         *)
THEOREM RunTypeCorrect == RunSpec => []RunTypeOK
<1>1. RunInv => RunTypeOK
    BY DEF RunInv
<1> QED
    BY <1>1, RunInvariant, PTL

(* However an append fails and whenever the process dies, ledger.jsonl is  *)
(* a gap-free prefix of the appended lines without a duplicate             *)
(* (RunStore.commit, and _fail_closed's second commit).                    *)
THEOREM LedgerIsExactlyOnce == RunSpec => []LedgerExactlyOnce
<1>1. RunInv => LedgerExactlyOnce
    BY DEF RunInv, RunTypeOK, Numbered, LedgerExactlyOnce
<1> QED
    BY <1>1, RunInvariant, PTL

(* With a durable ledger the published projections are backed by it, also  *)
(* after a crash or a loss of power (_persist commits before it projects). *)
THEOREM ProjectionsAreBacked == RunSpec => []ProjectionBacked
<1>1. RunInv => ProjectionBacked
    BY RunAssumption DEF RunInv, RunTypeOK, MaybeNat, MaybeHealth, SyncedBacks, ProjectionBacked
<1> QED
    BY <1>1, RunInvariant, PTL

(* A run reported FAILED stays FAILED (_fail_closed, then close).          *)
THEOREM FailedSticks == RunSpec => FailedStatusSticks
<1> DEFINE Sticks == runHealth # None /\ runHealth.status = "FAILED" /\ pc' # "dead"
                       => runHealth'.status = "FAILED"
<1>1. RunInv /\ [RunNext]_runVars => Sticks \/ UNCHANGED runVars
  <2> SUFFICES ASSUME RunInv, RunNext, runHealth # None, runHealth.status = "FAILED", pc' # "dead"
               PROVE  runHealth'.status = "FAILED"
      BY DEF runVars
  <2>1. dir
      BY DEF RunInv, EmptyDisk
  <2>2. pc = "health" => FALSE
      BY DEF RunInv, Control, FailedReported, Alive
  <2>3. pc \in {"fail_health", "close_health"} => engineFailed
      BY DEF RunInv, Control
  <2>4. HealthNow.status = RunStatus
      BY DEF HealthNow
  <2> QED
      BY <2>1, <2>2, <2>3, <2>4 DEF RunNext, Open, WriteClaim, ConstructorFails, Advance, CommitLines,
         CommitFails, WriteState, WriteHealth, ProjectionFails, FailCommit, FailHealth, FailState,
         CloseRun, CloseHealth, CloseState, Crash, PowerLoss, AppendBatch, AppendFails, ReplaceState,
         ReplaceHealth, RunStatus, runMemory, runDisk
<1> QED
    BY <1>1, RunInvariant, PTL DEF RunSpec, FailedStatusSticks

-----------------------------------------------------------------------------
(* The price grid.                                                          *)

-----------------------------------------------------------------------------
(* Induction, from the well-foundedness of <.                               *)

\* A set of natural numbers has a least one.
LEMMA LeastNumber ==
    ASSUME NEW T \in SUBSET Nat, T # {}
    PROVE  \E x \in T : \A y \in T : x <= y
<1> DEFINE R == OpToRel(<, Nat)
<1>1. IsWellFoundedOn(R, Nat)
  BY NatLessThanWellFounded
<1>2. \A x, y \in Nat : x < y => <<x, y>> \in R
  BY DEF OpToRel
<1> HIDE DEF R
<1>3. PICK x \in T : \A y \in T : ~ (<<y, x>> \in R)
  BY <1>1, WFMin
<1>4. ASSUME NEW y \in T PROVE x <= y
  <2>1. x \in Nat /\ y \in Nat /\ ~ (y < x)
    BY <1>2, <1>3
  <2> QED
    BY <2>1
<1> QED
  BY <1>4

\* A set with 0, and with n + 1 if it has n, has every natural number.
LEMMA EveryNumber ==
    ASSUME NEW S, 0 \in S, \A n \in Nat : n \in S => n + 1 \in S
    PROVE  \A n \in Nat : n \in S
<1> DEFINE T == {n \in Nat : n \notin S}
<1>1. SUFFICES ASSUME T # {} PROVE FALSE
  OBVIOUS
<1>2. PICK m \in T : \A y \in T : m <= y
  <2>1. T \in SUBSET Nat
    OBVIOUS
  <2> HIDE DEF T
  <2> QED
    BY <1>1, <2>1, LeastNumber
<1>3. m # 0 /\ m - 1 \in Nat /\ m - 1 \notin T
  BY <1>2
<1> QED
  BY <1>2, <1>3

-----------------------------------------------------------------------------
(* Powers of ten.                                                           *)

\* f is the powers of ten up to n.
TensUpTo(f, n) == f = [k \in 0 .. n |-> IF k = 0 THEN 1 ELSE 10 * f[k - 1]]

\* There are powers of ten up to any n, as numbers.
LEMMA TensExist ==
    \A n \in Nat : \E f \in [0 .. n -> Nat] : TensUpTo(f, n)
<1> DEFINE S == {n \in Nat : \E f \in [0 .. n -> Nat] : TensUpTo(f, n)}
<1>1. 0 \in S
  <2>1. TensUpTo([k \in 0 .. 0 |-> 1], 0) /\ [k \in 0 .. 0 |-> 1] \in [0 .. 0 -> Nat]
    BY DEF TensUpTo
  <2> QED
    BY <2>1
<1>2. ASSUME NEW n \in Nat, n \in S PROVE n + 1 \in S
  <2>1. PICK f \in [0 .. n -> Nat] : TensUpTo(f, n)
    BY <1>2
  <2> DEFINE g == [k \in 0 .. n + 1 |-> IF k = n + 1 THEN 10 * f[n] ELSE f[k]]
  <2>2. g \in [0 .. n + 1 -> Nat]
    OBVIOUS
  <2>3. ASSUME NEW k \in 0 .. n + 1
        PROVE  g[k] = IF k = 0 THEN 1 ELSE 10 * g[k - 1]
    <3>1. \A i \in 0 .. n : f[i] = IF i = 0 THEN 1 ELSE 10 * f[i - 1]
      BY <2>1 DEF TensUpTo
    <3>2. CASE k = n + 1
      BY <3>2
    <3>3. CASE k # n + 1
      <4>1. k \in 0 .. n /\ (k # 0 => k - 1 \in 0 .. n + 1 /\ k - 1 # n + 1)
        BY <3>3
      <4> QED
        BY <3>1, <3>3, <4>1
    <3> QED
      BY <3>2, <3>3
  <2>4. TensUpTo(g, n + 1)
    <3> HIDE DEF g
    <3> QED
      BY <2>2, <2>3 DEF TensUpTo
  <2> QED
    BY <2>2, <2>4
<1> HIDE DEF S
<1>3. \A n \in Nat : n \in S
  BY <1>1, <1>2, EveryNumber
<1> QED
  BY <1>3 DEF S

\* Two such functions agree where both are defined.
LEMMA TensAgree ==
    ASSUME NEW n \in Nat, NEW m \in Nat, NEW f, NEW g, TensUpTo(f, n), TensUpTo(g, m)
    PROVE  \A k \in Nat : k <= n /\ k <= m => f[k] = g[k]
<1> DEFINE S == {k \in Nat : k <= n /\ k <= m => f[k] = g[k]}
<1>1. /\ \A k \in 0 .. n : f[k] = IF k = 0 THEN 1 ELSE 10 * f[k - 1]
      /\ \A k \in 0 .. m : g[k] = IF k = 0 THEN 1 ELSE 10 * g[k - 1]
  BY DEF TensUpTo
<1>2. 0 \in S
  BY <1>1
<1>3. ASSUME NEW k \in Nat, k \in S PROVE k + 1 \in S
  <2>1. SUFFICES ASSUME k + 1 <= n, k + 1 <= m PROVE f[k + 1] = g[k + 1]
    OBVIOUS
  <2>2. f[k] = g[k]
    BY <1>3, <2>1
  <2>3. f[k + 1] = 10 * f[k] /\ g[k + 1] = 10 * g[k]
    <3>1. k + 1 \in 0 .. n /\ k + 1 \in 0 .. m /\ k + 1 # 0 /\ (k + 1) - 1 = k
      BY <2>1
    <3> QED
      BY <1>1, <3>1
  <2> QED
    BY <2>2, <2>3
<1> HIDE DEF S
<1>4. \A k \in Nat : k \in S
  BY <1>2, <1>3, EveryNumber
<1> QED
  BY <1>4 DEF S

\* So TenTo is what its definition says.
LEMMA TenToIs ==
    /\ TenTo[0] = 1
    /\ \A n \in Nat : TenTo[n] \in Nat /\ TenTo[n + 1] = 10 * TenTo[n]
<1> DEFINE upTo(n) == CHOOSE f \in [0 .. n -> Nat] : TensUpTo(f, n)
<1> DEFINE tens == [n \in Nat |-> upTo(n)[n]]
<1>1. ASSUME NEW n \in Nat PROVE upTo(n) \in [0 .. n -> Nat] /\ TensUpTo(upTo(n), n)
  BY TensExist
<1> HIDE DEF upTo
<1>2. ASSUME NEW n \in Nat PROVE tens[n] \in Nat
  BY <1>1
<1>3. ASSUME NEW n \in Nat PROVE tens[n] = IF n = 0 THEN 1 ELSE 10 * tens[n - 1]
  <2>1. \A k \in 0 .. n : upTo(n)[k] = IF k = 0 THEN 1 ELSE 10 * upTo(n)[k - 1]
    BY <1>1 DEF TensUpTo
  <2>2. CASE n = 0
    BY <2>1, <2>2
  <2>3. CASE n # 0
    <3>1. n - 1 \in Nat /\ n - 1 <= n /\ n \in 0 .. n
      BY <2>3
    <3>2. upTo(n)[n - 1] = upTo(n - 1)[n - 1]
      BY <1>1, <3>1, TensAgree
    <3>3. upTo(n)[n] = 10 * upTo(n)[n - 1]
      BY <2>1, <2>3, <3>1
    <3> QED
      BY <2>3, <3>1, <3>2, <3>3
  <2> QED
    BY <2>2, <2>3
<1>4. tens = [n \in Nat |-> IF n = 0 THEN 1 ELSE 10 * tens[n - 1]]
  <2>1. tens = [n \in Nat |-> tens[n]]
    OBVIOUS
  <2> HIDE DEF tens
  <2> QED
    BY <1>3, <2>1
<1>5. TenTo = [n \in Nat |-> IF n = 0 THEN 1 ELSE 10 * TenTo[n - 1]]
  <2> HIDE DEF tens
  <2> QED
    BY <1>4 DEF TenTo
<1>6. \A n \in Nat : TenTo[n] = IF n = 0 THEN 1 ELSE 10 * TenTo[n - 1]
  BY <1>5
<1>7. TenTo[0] = 1
  BY <1>6
<1>8. ASSUME NEW n \in Nat PROVE TenTo[n + 1] = 10 * TenTo[n]
  <2>1. n + 1 \in Nat /\ n + 1 # 0 /\ (n + 1) - 1 = n
    OBVIOUS
  <2> QED
    BY <1>6, <2>1
<1>9. \A n \in Nat : TenTo[n] \in Nat
  <2> DEFINE S == {n \in Nat : TenTo[n] \in Nat}
  <2>1. 0 \in S
    BY <1>7
  <2>2. ASSUME NEW n \in Nat, n \in S PROVE n + 1 \in S
    BY <1>8, <2>2
  <2> HIDE DEF S
  <2>3. \A n \in Nat : n \in S
    BY <2>1, <2>2, EveryNumber
  <2> QED
    BY <2>3 DEF S
<1> QED
  BY <1>7, <1>8, <1>9

\* A power of ten is larger than its exponent.
LEMMA TenToLarge == \A n \in Nat : TenTo[n] \in Nat \ {0} /\ n < TenTo[n]
<1> DEFINE S == {n \in Nat : n < TenTo[n]}
<1>1. 0 \in S
  BY TenToIs
<1>2. ASSUME NEW n \in Nat, n \in S PROVE n + 1 \in S
  <2>1. TenTo[n] \in Nat /\ TenTo[n + 1] = 10 * TenTo[n] /\ n < TenTo[n]
    BY <1>2, TenToIs
  <2> QED
    BY <2>1
<1> HIDE DEF S
<1>3. \A n \in Nat : n \in S
  BY <1>1, <1>2, EveryNumber
<1> QED
  BY <1>3, TenToIs DEF S

\* x is a whole number of q.
WholeNumberOf(x, q) == \E k \in Int : x = k * q

\* A power of ten is a multiple of the smaller ones, and at least ten times them.
LEMMA TenToDivides ==
    ASSUME NEW a \in Nat, NEW b \in Nat, a <= b
    PROVE  /\ WholeNumberOf(TenTo[b], TenTo[a])
           /\ TenTo[a] <= TenTo[b]
           /\ a < b => 10 * TenTo[a] <= TenTo[b]
<1> DEFINE S == {j \in Nat : \E k \in Nat \ {0} : /\ TenTo[a + j] = k * TenTo[a]
                                                  /\ j = 0 \/ k >= 10}
<1>1. 0 \in S
  <2>1. TenTo[a + 0] = 1 * TenTo[a]
    BY TenToIs
  <2> QED
    BY <2>1
<1>2. ASSUME NEW j \in Nat, j \in S PROVE j + 1 \in S
  <2>1. PICK k \in Nat \ {0} : TenTo[a + j] = k * TenTo[a]
    BY <1>2
  <2>2. TenTo[a + (j + 1)] = 10 * TenTo[a + j]
    <3>1. a + j \in Nat /\ a + (j + 1) = (a + j) + 1
      OBVIOUS
    <3> QED
      BY <3>1, TenToIs
  <2>3. TenTo[a] \in Nat
    BY TenToIs
  <2>4. 10 * (k * TenTo[a]) = (10 * k) * TenTo[a]
    BY <2>3
  <2>5. 10 * k \in Nat \ {0} /\ 10 * k >= 10 /\ j + 1 \in Nat
    OBVIOUS
  <2> QED
    BY <2>1, <2>2, <2>4, <2>5
<1> HIDE DEF S
<1>3. \A j \in Nat : j \in S
  BY <1>1, <1>2, EveryNumber
<1>4. PICK k \in Nat \ {0} : TenTo[a + (b - a)] = k * TenTo[a] /\ (b - a = 0 \/ k >= 10)
  <2>1. b - a \in Nat
    OBVIOUS
  <2> QED
    BY <1>3, <2>1 DEF S
<1>5. a + (b - a) = b /\ TenTo[a] \in Nat /\ (a < b => k >= 10)
  BY <1>4, TenToIs
<1>6. TenTo[b] = k * TenTo[a]
  BY <1>4, <1>5
<1>7. k * TenTo[a] >= TenTo[a] /\ (k >= 10 => k * TenTo[a] >= 10 * TenTo[a])
  BY <1>5
<1> QED
  BY <1>5, <1>6, <1>7 DEF WholeNumberOf

-----------------------------------------------------------------------------
(* Digits of a price.                                                       *)

Prices == Nat \ {0}

\* A price has one number of digits.
LEMMA DigitsOnce ==
    ASSUME NEW p \in Prices, NEW c \in Nat \ {0}, NEW d \in Nat \ {0},
           TenTo[c - 1] <= p, p < TenTo[c], TenTo[d - 1] <= p, p < TenTo[d]
    PROVE  c = d
<1>1. ASSUME NEW a \in Nat \ {0}, NEW b \in Nat \ {0}, a < b, p < TenTo[a], TenTo[b - 1] <= p
      PROVE  FALSE
  <2>1. b - 1 \in Nat /\ a <= b - 1
    BY <1>1
  <2>2. TenTo[a] <= TenTo[b - 1]
    BY <2>1, TenToDivides
  <2>3. TenTo[a] \in Nat /\ TenTo[b - 1] \in Nat
    BY <2>1, TenToIs
  <2> QED
    BY <1>1, <2>2, <2>3 DEF Prices
<1> QED
  BY <1>1

\* And it has some: those of the least power of ten above it.
LEMMA DigitsAre ==
    ASSUME NEW p \in Prices
    PROVE  /\ Digits(p) \in Nat \ {0}
           /\ TenTo[Digits(p) - 1] <= p /\ p < TenTo[Digits(p)]
<1> DEFINE T == {d \in Nat : p < TenTo[d]}
<1>1. p \in T
  BY TenToLarge DEF Prices
<1>2. PICK d \in T : \A y \in T : d <= y
  <2>1. T \in SUBSET Nat /\ T # {}
    BY <1>1
  <2> HIDE DEF T
  <2> QED
    BY <2>1, LeastNumber
<1>3. d \in Nat /\ p < TenTo[d] /\ d <= p
  BY <1>1, <1>2
<1>4. d # 0
  <2>1. TenTo[0] = 1 /\ ~(p < 1)
    BY TenToIs DEF Prices
  <2> QED
    BY <1>3, <2>1
<1>5. d - 1 \in Nat /\ TenTo[d - 1] <= p
  <2>1. d - 1 \in Nat /\ ~(d <= d - 1)
    BY <1>3, <1>4
  <2>2. d - 1 \notin T
    BY <1>2, <2>1
  <2>3. ~(p < TenTo[d - 1]) /\ TenTo[d - 1] \in Nat /\ p \in Nat
    BY <2>1, <2>2, TenToIs DEF Prices
  <2> QED
    BY <2>1, <2>3
<1>6. d \in 1 .. p
  BY <1>3, <1>4 DEF Prices
<1> QED
  BY <1>3, <1>5, <1>6 DEF Digits

\* A price below a power of ten has no more digits than that.
LEMMA DigitsBelow ==
    ASSUME NEW p \in Prices, NEW n \in Nat, p < TenTo[n]
    PROVE  Digits(p) <= n
<1>1. SUFFICES ASSUME n < Digits(p) PROVE FALSE
  BY DigitsAre
<1>2. Digits(p) - 1 \in Nat /\ n <= Digits(p) - 1 /\ TenTo[Digits(p) - 1] <= p
  BY <1>1, DigitsAre
<1>3. TenTo[n] <= TenTo[Digits(p) - 1] /\ TenTo[n] \in Nat /\ TenTo[Digits(p) - 1] \in Nat
  BY <1>2, TenToDivides, TenToIs
<1> QED
  BY <1>2, <1>3 DEF Prices

\* A larger price has no fewer digits.
LEMMA DigitsGrow ==
    ASSUME NEW p \in Prices, NEW x \in Prices, p <= x
    PROVE  Digits(p) <= Digits(x)
<1>1. Digits(x) \in Nat /\ x < TenTo[Digits(x)] /\ TenTo[Digits(x)] \in Nat
  BY DigitsAre, TenToIs
<1>2. p < TenTo[Digits(x)]
  BY <1>1 DEF Prices
<1> QED
  BY <1>1, <1>2, DigitsBelow

\* A power of ten is the first price with its number of digits.
LEMMA DigitsOfTen ==
    ASSUME NEW n \in Nat
    PROVE  TenTo[n] \in Prices /\ Digits(TenTo[n]) = n + 1
<1>1. TenTo[n] \in Prices
  BY TenToLarge DEF Prices
<1>2. TenTo[n] < TenTo[n + 1]
  BY <1>1, TenToIs DEF Prices
<1>3. n + 1 \in Nat \ {0} /\ (n + 1) - 1 = n /\ TenTo[n] <= TenTo[n]
  BY <1>1 DEF Prices
<1> QED
  BY <1>1, <1>2, <1>3, DigitsAre, DigitsOnce

-----------------------------------------------------------------------------
(* The quantum is a power of ten.                                           *)

FinestExponent == Scale - MaxDecimals
FiguresExponent(d) == IF d > SignificantFigures THEN d - SignificantFigures ELSE 0
CoarserExponent(d) == IF FiguresExponent(d) > FinestExponent THEN FiguresExponent(d)
                      ELSE FinestExponent
Exponent(d) == IF CoarserExponent(d) > Scale THEN Scale ELSE CoarserExponent(d)

\* What the exponent is between, and that it grows with the digits.
LEMMA ExponentBounds ==
    ASSUME NEW d \in Nat
    PROVE  /\ Exponent(d) \in Nat /\ CoarserExponent(d) \in Nat
           /\ FinestExponent \in Nat /\ FiguresExponent(d) \in Nat
           /\ FinestExponent <= Exponent(d) /\ Exponent(d) <= Scale
           /\ FinestExponent < Exponent(d) => Exponent(d) < d
           /\ \A c \in Nat : c <= d => Exponent(c) <= Exponent(d)
BY PrecisionAssumption DEF Exponent, CoarserExponent, FinestExponent, FiguresExponent

\* Powers of ten are ordered as their exponents.
LEMMA TenToOrder ==
    ASSUME NEW a \in Nat, NEW b \in Nat
    PROVE  TenTo[a] > TenTo[b] <=> a > b
<1>1. TenTo[a] \in Prices /\ TenTo[b] \in Prices
  BY TenToLarge DEF Prices
<1>2. a <= b => TenTo[a] <= TenTo[b]
  BY TenToDivides
<1>3. b < a => 10 * TenTo[b] <= TenTo[a]
  BY TenToDivides
<1> QED
  BY <1>1, <1>2, <1>3 DEF Prices

\* price_quantum.
LEMMA QuantumIs ==
    ASSUME NEW p \in Prices
    PROVE  PriceQuantum(p) = TenTo[Exponent(Digits(p))]
<1> DEFINE d == Digits(p)
<1>1. d \in Nat
  BY DigitsAre
<1> HIDE DEF d
<1>2. (IF d > SignificantFigures THEN TenTo[d - SignificantFigures] ELSE 1)
          = TenTo[FiguresExponent(d)]
  BY TenToIs DEF FiguresExponent
<1>3. /\ FiguresExponent(d) \in Nat /\ FinestExponent \in Nat /\ CoarserExponent(d) \in Nat
      /\ Scale \in Nat
  BY <1>1, ExponentBounds, PrecisionAssumption
<1>4. AtLeast(TenTo[FiguresExponent(d)], TenTo[FinestExponent]) = TenTo[CoarserExponent(d)]
  BY <1>3, TenToOrder DEF AtLeast, CoarserExponent
<1>5. (IF TenTo[CoarserExponent(d)] > One THEN One ELSE TenTo[CoarserExponent(d)])
          = TenTo[Exponent(d)]
  BY <1>3, TenToOrder DEF One, Exponent
<1> QED
  BY <1>2, <1>4, <1>5 DEF PriceQuantum, FinestExponent, d

\* What is a whole number of a power of ten is one of the smaller ones.
LEMMA WholeOfSmaller ==
    ASSUME NEW a \in Nat, NEW b \in Nat, a <= b, NEW x, WholeNumberOf(x, TenTo[b])
    PROVE  WholeNumberOf(x, TenTo[a])
<1>1. PICK k \in Int : x = k * TenTo[b]
  BY DEF WholeNumberOf
<1>2. PICK j \in Int : TenTo[b] = j * TenTo[a]
  BY TenToDivides DEF WholeNumberOf
<1>3. TenTo[a] \in Int
  BY TenToIs
<1>4. x = (k * j) * TenTo[a]
  BY <1>1, <1>2, <1>3
<1> QED
  BY <1>4 DEF WholeNumberOf

\* The remainder of a division by a positive number.
LEMMA NoRemainder ==
    ASSUME NEW x \in Int, NEW q \in Nat \ {0}
    PROVE  x % q = 0 <=> WholeNumberOf(x, q)
<1>1. x = (x \div q) * q + (x % q) /\ x \div q \in Int /\ x % q \in 0 .. q - 1
  OBVIOUS
<1>2. ASSUME x % q = 0 PROVE WholeNumberOf(x, q)
  <2>1. x = (x \div q) * q
    BY <1>1, <1>2
  <2> QED
    BY <1>1, <2>1 DEF WholeNumberOf
<1>3. ASSUME WholeNumberOf(x, q) PROVE x % q = 0
  <2>1. PICK k \in Int : x = k * q
    BY <1>3 DEF WholeNumberOf
  <2> QED
    BY <2>1
<1> QED
  BY <1>2, <1>3

\* The venue's rule is the grid of the price's quantum.
LEMMA AllowedIsOnGrid ==
    ASSUME NEW p \in Prices
    PROVE  Allowed(p) <=> WholeNumberOf(p, PriceQuantum(p))
<1> DEFINE d == Digits(p)
<1> DEFINE On(e) == WholeNumberOf(p, TenTo[e])
<1>1. d \in Nat /\ PriceQuantum(p) = TenTo[Exponent(d)]
  BY DigitsAre, QuantumIs
<1>2. \A e \in Nat : p % TenTo[e] = 0 <=> On(e)
  BY NoRemainder, TenToLarge DEF Prices
<1>3. \A a, b \in Nat : a <= b /\ On(b) => On(a)
  BY WholeOfSmaller
<1>4. Scale \in Nat /\ FinestExponent \in Nat /\ SignificantFigures \in Nat
  BY <1>1, ExponentBounds, PrecisionAssumption
<1>5. Allowed(p) <=> \/ On(Scale)
                     \/ On(FinestExponent) /\ (d > SignificantFigures => On(d - SignificantFigures))
  <2>1. d > SignificantFigures => d - SignificantFigures \in Nat
    BY <1>1, <1>4
  <2> HIDE DEF On
  <2> QED
    BY <1>2, <1>4, <2>1 DEF Allowed, One, FinestExponent
<1> HIDE DEF d, On
<1>6. Allowed(p) <=> On(Scale) \/ (On(FinestExponent) /\ On(FiguresExponent(d)))
  <2>1. On(0)
    <3>1. p % TenTo[0] = 0
      BY TenToIs DEF Prices
    <3> QED
      BY <1>2, <3>1
  <2> QED
    BY <1>5, <2>1 DEF FiguresExponent
<1>7. FiguresExponent(d) \in Nat /\ CoarserExponent(d) \in Nat /\ Exponent(d) \in Nat
  BY <1>1, ExponentBounds
<1>8. On(FinestExponent) /\ On(FiguresExponent(d)) <=> On(CoarserExponent(d))
  BY <1>3, <1>4, <1>7 DEF CoarserExponent
<1>9. On(Scale) \/ On(CoarserExponent(d)) <=> On(Exponent(d))
  BY <1>3, <1>4, <1>7 DEF Exponent
<1> QED
  BY <1>1, <1>6, <1>8, <1>9 DEF On

-----------------------------------------------------------------------------
(* One rounding.                                                            *)

\* Multiples of q are q apart.
LEMMA WholeNumbersApart ==
    ASSUME NEW q \in Nat \ {0}, NEW x, NEW y, WholeNumberOf(x, q), WholeNumberOf(y, q), x < y
    PROVE  x + q <= y
<1>1. PICK k \in Int, j \in Int : x = k * q /\ y = j * q
  BY DEF WholeNumberOf
<1>2. k < j
  <2>1. SUFFICES ASSUME j <= k PROVE FALSE
    BY <1>1
  <2>2. j * q <= k * q
    BY <2>1
  <2> QED
    BY <1>1, <2>2
<1>3. k * q + q <= j * q
  BY <1>2
<1> QED
  BY <1>1, <1>3

\* WholeQuanta is the nearest multiple in its direction.
LEMMA WholeQuantaIs ==
    ASSUME NEW p \in Prices, NEW q \in Nat \ {0}, NEW up \in BOOLEAN
    PROVE  /\ WholeQuanta(p, q, up) \in Nat /\ WholeNumberOf(WholeQuanta(p, q, up), q)
           /\ up => p <= WholeQuanta(p, q, up) /\ WholeQuanta(p, q, up) < p + q
           /\ ~up => WholeQuanta(p, q, up) <= p /\ p < WholeQuanta(p, q, up) + q
<1> DEFINE x == IF up THEN p + q - 1 ELSE p
<1> DEFINE r == WholeQuanta(p, q, up)
<1>1. x \in Nat /\ p \in Nat /\ p > 0
  BY DEF Prices
<1>2. r = (x \div q) * q
  BY DEF WholeQuanta
<1>3. (up => x = p + q - 1) /\ (~up => x = p)
  OBVIOUS
<1> HIDE DEF x, r
<1>4. PICK k \in Int : k = x \div q
  BY <1>1
<1>5. k * q <= x /\ x < k * q + q
  <2>1. x = (x \div q) * q + (x % q) /\ x % q \in 0 .. q - 1
    BY <1>1
  <2> QED
    BY <1>1, <1>4, <2>1
<1>6. k >= 0
  BY <1>1, <1>5
<1>7. r = k * q /\ r \in Nat
  BY <1>2, <1>4, <1>6
<1>8. WholeNumberOf(r, q)
  BY <1>7 DEF WholeNumberOf
<1>9. r <= x /\ x < r + q
  BY <1>5, <1>7
<1>10. up => p <= r /\ r < p + q
  BY <1>1, <1>3, <1>7, <1>9
<1>11. ~up => r <= p /\ p < r + q
  BY <1>3, <1>9
<1> QED
  BY <1>7, <1>8, <1>10, <1>11 DEF r

\* The price rounded once, with its own quantum.
Once(p, up) == WholeQuanta(p, PriceQuantum(p), up)

\* No multiple of the quantum is passed over.
LEMMA OncePasses ==
    ASSUME NEW p \in Prices, NEW up \in BOOLEAN
    PROVE  /\ PriceQuantum(p) \in Nat \ {0}
           /\ Once(p, up) \in Nat /\ WholeNumberOf(Once(p, up), PriceQuantum(p))
           /\ IF up THEN p <= Once(p, up) ELSE Once(p, up) <= p
           /\ \A x \in Nat : WholeNumberOf(x, PriceQuantum(p)) =>
                IF up THEN p <= x => Once(p, up) <= x ELSE x <= p => x <= Once(p, up)
<1> DEFINE q == PriceQuantum(p)
<1> DEFINE r == Once(p, up)
<1>1. q \in Nat \ {0}
  BY QuantumIs, DigitsAre, ExponentBounds, TenToLarge
<1>2. /\ r \in Nat /\ WholeNumberOf(r, q)
      /\ up => p <= r /\ r < p + q
      /\ ~up => r <= p /\ p < r + q
  <2> HIDE DEF q
  <2> QED
    BY <1>1, WholeQuantaIs DEF Once, q
<1> HIDE DEF q, r
<1>3. p \in Nat
  BY DEF Prices
<1>4. ASSUME NEW x \in Nat, WholeNumberOf(x, q)
      PROVE  IF up THEN p <= x => r <= x ELSE x <= p => x <= r
  <2>1. x < r => x + q <= r
    BY <1>1, <1>2, <1>4, WholeNumbersApart
  <2>2. r < x => r + q <= x
    BY <1>1, <1>2, <1>4, WholeNumbersApart
  <2> QED
    BY <1>1, <1>2, <1>3, <2>1, <2>2
<1>5. IF up THEN p <= r ELSE r <= p
  BY <1>2
<1> QED
  BY <1>1, <1>2, <1>4, <1>5 DEF q, r

\* Rounded down, a price keeps its digits.
LEMMA DownKeepsDigits ==
    ASSUME NEW p \in Prices, Once(p, FALSE) # 0
    PROVE  Once(p, FALSE) \in Prices /\ Digits(Once(p, FALSE)) = Digits(p)
<1> DEFINE d == Digits(p)
<1> DEFINE e == Exponent(d)
<1> DEFINE r == Once(p, FALSE)
<1>1. /\ d \in Nat \ {0} /\ TenTo[d - 1] <= p /\ p < TenTo[d]
  BY DigitsAre
<1>2. e \in Nat /\ PriceQuantum(p) = TenTo[e]
  BY <1>1, QuantumIs, ExponentBounds
<1>3. /\ r \in Nat /\ WholeNumberOf(r, TenTo[e]) /\ r <= p
      /\ \A x \in Nat : WholeNumberOf(x, TenTo[e]) => (x <= p => x <= r)
  BY <1>2, OncePasses
<1>4. r # 0
  OBVIOUS
<1> HIDE DEF d, e, r
<1>5. r \in Prices
  BY <1>3, <1>4 DEF Prices
<1>6. TenTo[e] <= r
  <2>1. WholeNumberOf(0, TenTo[e])
    <3>1. 0 = 0 * TenTo[e]
      BY <1>2, TenToIs
    <3> QED
      BY <3>1 DEF WholeNumberOf
  <2>2. 0 < r /\ TenTo[e] \in Nat \ {0}
    BY <1>2, <1>3, <1>4, TenToLarge
  <2>3. 0 + TenTo[e] <= r
    BY <1>3, <2>1, <2>2, WholeNumbersApart
  <2> QED
    BY <2>2, <2>3
<1>7. e <= d - 1
  <2>1. SUFFICES ASSUME d <= e PROVE FALSE
    BY <1>1, <1>2
  <2>2. TenTo[d] <= TenTo[e] /\ TenTo[d] \in Nat /\ TenTo[e] \in Nat /\ p \in Nat
    BY <1>1, <1>2, <2>1, TenToDivides, TenToIs DEF Prices
  <2> QED
    BY <1>1, <1>3, <1>6, <2>2
<1>8. TenTo[d - 1] <= r
  <2>1. d - 1 \in Nat
    BY <1>1
  <2>2. WholeNumberOf(TenTo[d - 1], TenTo[e]) /\ TenTo[d - 1] \in Nat
    BY <1>2, <1>7, <2>1, TenToDivides, TenToIs
  <2> QED
    BY <1>1, <1>3, <2>2
<1>9. r < TenTo[d]
  <2>1. TenTo[d] \in Nat /\ p \in Nat
    BY <1>1, TenToIs DEF Prices
  <2> QED
    BY <1>1, <1>3, <2>1
<1>10. Digits(r) \in Nat \ {0} /\ TenTo[Digits(r) - 1] <= r /\ r < TenTo[Digits(r)]
  BY <1>5, DigitsAre
<1>11. Digits(r) = d
  BY <1>1, <1>5, <1>8, <1>9, <1>10, DigitsOnce
<1> QED
  BY <1>5, <1>11 DEF d, r

\* Rounded up, a price keeps below a power of ten or becomes one that is a
\* multiple of its own quantum.
LEMMA UpReachesTen ==
    ASSUME NEW p \in Prices
    PROVE  /\ Once(p, TRUE) \in Prices
           /\ \/ Digits(Once(p, TRUE)) = Digits(p)
              \/ \E m \in Nat : /\ Once(p, TRUE) = TenTo[m]
                                /\ Digits(p) <= m /\ Exponent(Digits(p)) <= m
<1> DEFINE d == Digits(p)
<1> DEFINE e == Exponent(d)
<1> DEFINE r == Once(p, TRUE)
<1>1. d \in Nat \ {0} /\ TenTo[d - 1] <= p /\ p < TenTo[d] /\ p \in Nat /\ p > 0
  BY DigitsAre DEF Prices
<1>2. e \in Nat /\ PriceQuantum(p) = TenTo[e]
  BY <1>1, QuantumIs, ExponentBounds
<1>3. /\ r \in Nat /\ WholeNumberOf(r, TenTo[e]) /\ p <= r
      /\ \A x \in Nat : WholeNumberOf(x, TenTo[e]) => (p <= x => r <= x)
  BY <1>2, OncePasses
<1> HIDE DEF d, e, r
<1>4. r \in Prices
  BY <1>1, <1>3 DEF Prices
<1>5. TenTo[d] \in Nat /\ TenTo[e] \in Nat \ {0}
  BY <1>1, <1>2, TenToLarge
<1> DEFINE Reached == Digits(r) = d \/ \E m \in Nat : r = TenTo[m] /\ d <= m /\ e <= m
<1>6. ASSUME e <= d PROVE Reached
  <2>1. WholeNumberOf(TenTo[d], TenTo[e])
    BY <1>1, <1>2, <1>6, TenToDivides
  <2>2. r <= TenTo[d]
    BY <1>1, <1>3, <1>5, <2>1
  <2>3. CASE r = TenTo[d]
    BY <1>1, <1>6, <2>3
  <2>4. CASE r # TenTo[d]
    <3>1. r < TenTo[d] /\ r \in Nat
      BY <1>3, <1>5, <2>2, <2>4
    <3>2. Digits(r) <= d
      BY <1>1, <1>4, <3>1, DigitsBelow
    <3>3. d <= Digits(r)
      BY <1>3, <1>4, DigitsGrow DEF d
    <3>4. Digits(r) \in Nat
      BY <1>4, DigitsAre
    <3>5. Digits(r) = d
      BY <1>1, <3>2, <3>3, <3>4
    <3> QED
      BY <3>5
  <2> QED
    BY <2>3, <2>4
<1>7. ASSUME d < e PROVE Reached
  <2>1. p <= TenTo[e]
    <3>1. TenTo[d] <= TenTo[e]
      BY <1>1, <1>2, <1>7, TenToDivides
    <3> QED
      BY <1>1, <1>5, <3>1
  <2>2. r <= TenTo[e]
    <3>1. TenTo[e] = 1 * TenTo[e]
      BY <1>5
    <3>2. WholeNumberOf(TenTo[e], TenTo[e])
      BY <3>1 DEF WholeNumberOf
    <3> QED
      BY <1>3, <1>5, <2>1, <3>2
  <2>3. TenTo[e] <= r
    <3>1. 0 = 0 * TenTo[e]
      BY <1>5
    <3>2. WholeNumberOf(0, TenTo[e])
      BY <3>1 DEF WholeNumberOf
    <3>3. 0 < r
      BY <1>1, <1>3
    <3>4. 0 + TenTo[e] <= r
      BY <1>3, <1>5, <3>2, <3>3, WholeNumbersApart
    <3> QED
      BY <1>5, <3>4
  <2>4. r = TenTo[e]
    BY <1>3, <1>5, <2>2, <2>3
  <2>5. d <= e
    BY <1>1, <1>2, <1>7
  <2> QED
    BY <1>2, <2>4, <2>5
<1>8. Reached
  BY <1>1, <1>2, <1>6, <1>7
<1> QED
  BY <1>4, <1>8 DEF d, e, r

\* A price rounded once is on the grid of its own, new, quantum.
LEMMA OnceIsAllowed ==
    ASSUME NEW p \in Prices, NEW up \in BOOLEAN, Once(p, up) # 0
    PROVE  /\ Once(p, up) \in Prices
           /\ WholeNumberOf(Once(p, up), PriceQuantum(Once(p, up)))
<1>1. Once(p, up) \in Prices
  BY OncePasses DEF Prices
<1> DEFINE r == Once(p, up)
<1>2. Digits(r) \in Nat /\ Digits(p) \in Nat /\ PriceQuantum(r) = TenTo[Exponent(Digits(r))]
  BY <1>1, DigitsAre, QuantumIs
<1>3. CASE Digits(r) = Digits(p)
  <2>1. PriceQuantum(r) = PriceQuantum(p)
    BY <1>2, <1>3, QuantumIs
  <2> QED
    BY <1>1, <2>1, OncePasses
<1>4. ASSUME NEW m \in Nat, r = TenTo[m], Digits(p) <= m, Exponent(Digits(p)) <= m
      PROVE  WholeNumberOf(r, PriceQuantum(r))
  <2>1. Digits(r) = m + 1
    BY <1>4, DigitsOfTen
  <2> DEFINE e == Exponent(m + 1)
  <2>2. e \in Nat /\ e <= m
    <3>1. FinestExponent \in Nat /\ FinestExponent <= Exponent(Digits(p))
          /\ Exponent(Digits(p)) \in Nat
      BY <1>2, ExponentBounds
    <3>2. FinestExponent <= m
      BY <1>4, <3>1
    <3>3. m + 1 \in Nat
      OBVIOUS
    <3>4. e \in Nat /\ FinestExponent <= e /\ (FinestExponent < e => e < m + 1)
      BY <3>3, ExponentBounds
    <3> HIDE DEF e
    <3> QED
      BY <3>1, <3>2, <3>4
  <2> HIDE DEF e
  <2>3. WholeNumberOf(TenTo[m], TenTo[e])
    BY <2>2, TenToDivides
  <2> HIDE DEF r
  <2> QED
    BY <1>2, <1>4, <2>1, <2>3 DEF e
<1>5. Digits(r) = Digits(p) \/ \E m \in Nat : /\ r = TenTo[m]
                                              /\ Digits(p) <= m /\ Exponent(Digits(p)) <= m
  <2>1. CASE up = TRUE
    BY <2>1, UpReachesTen
  <2>2. CASE up = FALSE
    BY <2>2, DownKeepsDigits
  <2> QED
    BY <2>1, <2>2
<1> QED
  BY <1>1, <1>3, <1>4, <1>5

-----------------------------------------------------------------------------
(* Rounding again.                                                          *)

\* A price on its own grid is left where it is.
LEMMA OnGridStays ==
    ASSUME NEW p \in Prices, NEW up \in BOOLEAN, WholeNumberOf(p, PriceQuantum(p))
    PROVE  Once(p, up) = p
<1>1. p \in Nat
  BY DEF Prices
<1>2. /\ Once(p, up) \in Nat
      /\ IF up THEN p <= Once(p, up) ELSE Once(p, up) <= p
      /\ IF up THEN Once(p, up) <= p ELSE p <= Once(p, up)
  <2>1. /\ Once(p, up) \in Nat
        /\ IF up THEN p <= Once(p, up) ELSE Once(p, up) <= p
        /\ IF up THEN p <= p => Once(p, up) <= p ELSE p <= p => p <= Once(p, up)
    BY <1>1, OncePasses
  <2> QED
    BY <1>1, <2>1
<1> QED
  BY <1>1, <1>2

\* The equation of _round_to_grid.
IsRounding(f, up) ==
    f = [p \in Prices |->
            IF Once(p, up) <= 0 THEN NoPrice
            ELSE IF PriceQuantum(Once(p, up)) = PriceQuantum(p) THEN Once(p, up)
            ELSE f[Once(p, up)]]

\* It has a solution, which rounds once.
LEMMA RoundingExists ==
    ASSUME NEW up \in BOOLEAN
    PROVE  \E f : IsRounding(f, up)
<1> DEFINE f == [p \in Prices |-> IF Once(p, up) <= 0 THEN NoPrice ELSE Once(p, up)]
<1>1. ASSUME NEW p \in Prices
      PROVE  f[p] = IF Once(p, up) <= 0 THEN NoPrice
                    ELSE IF PriceQuantum(Once(p, up)) = PriceQuantum(p) THEN Once(p, up)
                    ELSE f[Once(p, up)]
  <2>1. f[p] = IF Once(p, up) <= 0 THEN NoPrice ELSE Once(p, up)
    OBVIOUS
  <2>2. ASSUME ~(Once(p, up) <= 0) PROVE f[Once(p, up)] = Once(p, up)
    <3>1. PICK r \in Prices : r = Once(p, up) /\ WholeNumberOf(r, PriceQuantum(r))
      BY <2>2, OncePasses, OnceIsAllowed
    <3>2. Once(r, up) = r
      BY <3>1, OnGridStays
    <3>3. f[r] = IF Once(r, up) <= 0 THEN NoPrice ELSE Once(r, up)
      OBVIOUS
    <3> QED
      BY <2>2, <3>1, <3>2, <3>3
  <2> HIDE DEF f
  <2> QED
    BY <2>1, <2>2
<1>2. f = [p \in Prices |-> f[p]]
  OBVIOUS
<1> HIDE DEF f
<1>3. IsRounding(f, up)
  BY <1>1, <1>2 DEF IsRounding
<1> QED
  BY <1>3

\* Every solution rounds once: the price rounded again, where the quantum changed,
\* is on its grid already.
LEMMA RoundToGridIs ==
    ASSUME NEW p \in Prices, NEW up \in BOOLEAN
    PROVE  RoundToGrid(p, up) = IF Once(p, up) = 0 THEN NoPrice ELSE Once(p, up)
<1> DEFINE round == CHOOSE f : IsRounding(f, up)
<1>1. IsRounding(round, up)
  BY RoundingExists
<1>2. RoundToGrid(p, up) = round[p]
  BY DEF RoundToGrid, IsRounding, Once, Prices
<1> HIDE DEF round
<1>3. ASSUME NEW x \in Prices
      PROVE  round[x] = IF Once(x, up) <= 0 THEN NoPrice
                        ELSE IF PriceQuantum(Once(x, up)) = PriceQuantum(x) THEN Once(x, up)
                        ELSE round[Once(x, up)]
  BY <1>1 DEF IsRounding
<1>4. Once(p, up) \in Nat
  BY OncePasses
<1>5. CASE Once(p, up) = 0
  BY <1>2, <1>3, <1>5
<1>6. CASE Once(p, up) # 0
  <2>1. PICK r \in Prices : r = Once(p, up) /\ WholeNumberOf(r, PriceQuantum(r))
    BY <1>6, OnceIsAllowed
  <2>2. Once(r, up) = r /\ ~(r <= 0)
    BY <2>1, OnGridStays DEF Prices
  <2>3. round[r] = r
    BY <1>3, <2>2
  <2>4. round[p] = r
    BY <1>3, <2>1, <2>2, <2>3
  <2> QED
    BY <1>2, <1>6, <2>1, <2>4
<1> QED
  BY <1>5, <1>6

-----------------------------------------------------------------------------
(* The nearest allowed price.                                               *)

\* No price the venue accepts is passed over.
LEMMA NonePassedOver ==
    ASSUME NEW p \in Prices, NEW up \in BOOLEAN, Once(p, up) # 0, Once(p, up) # p
    PROVE  /\ Allowed(Once(p, up))
           /\ \A x \in Between(p, Once(p, up)) : ~Allowed(x)
           /\ ~Allowed(p)
           /\ IF up THEN Once(p, up) >= p ELSE Once(p, up) <= p
<1> DEFINE r == Once(p, up)
<1>1. /\ r \in Nat /\ p \in Nat /\ p > 0
      /\ IF up THEN p <= r ELSE r <= p
      /\ \A x \in Nat : WholeNumberOf(x, PriceQuantum(p)) =>
            IF up THEN p <= x => r <= x ELSE x <= p => x <= r
  BY OncePasses DEF Prices
<1>2. r \in Prices /\ WholeNumberOf(r, PriceQuantum(r))
  BY OnceIsAllowed
<1>3. ~Allowed(p)
  BY AllowedIsOnGrid, OnGridStays
<1>4. r # p /\ (up = FALSE => Digits(r) = Digits(p))
  BY DownKeepsDigits
<1> HIDE DEF r
<1>5. Allowed(r)
  BY <1>2, AllowedIsOnGrid
<1>6. ASSUME NEW x \in Between(p, r), Allowed(x) PROVE FALSE
  <2>1. CASE up = TRUE
    <3>1. p < x /\ x < r /\ x \in Prices
      BY <1>1, <1>4, <1>6, <2>1 DEF Between, Prices
    <3>2. Digits(p) <= Digits(x) /\ Digits(p) \in Nat /\ Digits(x) \in Nat
      BY <1>1, <3>1, DigitsGrow, DigitsAre DEF Prices
    <3>3. Exponent(Digits(p)) <= Exponent(Digits(x))
          /\ Exponent(Digits(p)) \in Nat /\ Exponent(Digits(x)) \in Nat
      BY <3>2, ExponentBounds
    <3>4. WholeNumberOf(x, TenTo[Exponent(Digits(x))])
      BY <1>6, <3>1, AllowedIsOnGrid, QuantumIs
    <3>5. WholeNumberOf(x, TenTo[Exponent(Digits(p))])
      BY <3>3, <3>4, WholeOfSmaller
    <3>6. WholeNumberOf(x, PriceQuantum(p))
      BY <3>5, QuantumIs
    <3> QED
      BY <1>1, <2>1, <3>1, <3>6 DEF Prices
  <2>2. CASE up = FALSE
    <3>1. r < x /\ x < p /\ x \in Prices
      BY <1>1, <1>4, <1>6, <2>2 DEF Between, Prices
    <3>2. Digits(r) <= Digits(x) /\ Digits(x) <= Digits(p)
      BY <1>1, <1>2, <3>1, DigitsGrow DEF Prices
    <3>3. Digits(x) = Digits(p)
      BY <1>4, <2>2, <3>1, <3>2, DigitsAre
    <3>4. PriceQuantum(x) = PriceQuantum(p)
      BY <3>1, <3>3, QuantumIs
    <3>5. WholeNumberOf(x, PriceQuantum(p))
      BY <1>6, <3>1, <3>4, AllowedIsOnGrid
    <3> QED
      BY <1>1, <2>2, <3>1, <3>5 DEF Prices
  <2> QED
    BY <2>1, <2>2
<1>7. IF up THEN r >= p ELSE r <= p
  BY <1>1
<1> QED
  BY <1>3, <1>5, <1>6, <1>7 DEF r

-----------------------------------------------------------------------------
(* A price that is rounded, and rounded again.                              *)

\* The direction a price is rounded in.
Up == IF use = "adverse" THEN side = "BUY" ELSE side = "SELL"

\* A price was not rounded yet, could not be, or is where one rounding took it.
GridInv ==
    /\ quoted \in Prices
    /\ side \in {"BUY", "SELL"} /\ use \in {"adverse", "protective"}
    /\ \/ rounded = quoted
       \/ rounded = Once(quoted, Up) /\ Once(quoted, Up) # 0

\* The direction is one.
LEMMA UpIsBoolean == Up \in BOOLEAN
BY Zenon DEF Up

\* At the start nothing was rounded.
LEMMA GridStarts == ASSUME GridInit PROVE GridInv
BY PrecisionAssumption DEF GridInit, GridInv, Prices

\* A step rounds once more, in the one direction.
LEMMA GridRounds ==
    ASSUME GridInv, GridNext
    PROVE  /\ UNCHANGED <<quoted, side, use>>
           /\ rounded' = IF RoundToGrid(rounded, Up) = NoPrice THEN rounded
                         ELSE RoundToGrid(rounded, Up)
<1>1. CASE RoundFill
  <2>1. use = "adverse" /\ Keep(RoundToGrid(rounded, side = "BUY"))
    BY <1>1 DEF RoundFill, AdversePriceOnGrid
  <2>2. Up = (side = "BUY")
    BY <2>1, Zenon DEF Up
  <2> QED
    BY <2>1, <2>2 DEF Keep
<1>2. CASE RoundLimit
  <2>1. use = "protective" /\ Keep(RoundToGrid(rounded, side = "SELL"))
    BY <1>2 DEF RoundLimit, ProtectivePrice
  <2>2. use # "adverse"
    BY <2>1
  <2>3. Up = (side = "SELL")
    BY <2>2, Zenon DEF Up
  <2> QED
    BY <2>1, <2>3 DEF Keep
<1> QED
  BY <1>1, <1>2 DEF GridNext

\* A price rounded before does not move.
LEMMA GridStep == ASSUME GridInv, [GridNext]_gridVars PROVE GridInv'
<1>1. CASE UNCHANGED gridVars
  BY <1>1 DEF gridVars, GridInv, Up
<1>2. CASE GridNext
  <2>1. /\ UNCHANGED <<quoted, side, use>>
        /\ rounded' = IF RoundToGrid(rounded, Up) = NoPrice THEN rounded
                      ELSE RoundToGrid(rounded, Up)
    BY <1>2, GridRounds
  <2>2. quoted \in Prices /\ Up \in BOOLEAN
    BY UpIsBoolean DEF GridInv
  <2>3. rounded' = quoted \/ (rounded' = Once(quoted, Up) /\ Once(quoted, Up) # 0)
    <3>1. CASE rounded = quoted
      <4>1. RoundToGrid(quoted, Up) = IF Once(quoted, Up) = 0 THEN NoPrice ELSE Once(quoted, Up)
        BY <2>2, RoundToGridIs
      <4> QED
        BY <2>1, <3>1, <4>1
    <3>2. CASE rounded = Once(quoted, Up) /\ Once(quoted, Up) # 0
      <4>1. rounded \in Prices /\ WholeNumberOf(rounded, PriceQuantum(rounded))
        BY <2>2, <3>2, OnceIsAllowed
      <4>2. Once(rounded, Up) = rounded
        BY <2>2, <4>1, OnGridStays
      <4>3. RoundToGrid(rounded, Up) = IF Once(rounded, Up) = 0 THEN NoPrice ELSE Once(rounded, Up)
        BY <2>2, <4>1, RoundToGridIs
      <4>4. rounded' = rounded
        BY <2>1, <4>2, <4>3
      <4> QED
        BY <3>2, <4>4
    <3> QED
      BY <3>1, <3>2 DEF GridInv
  <2>4. Up' = Up
    BY <2>1 DEF Up
  <2>5. Once(quoted, Up)' = Once(quoted, Up)
    BY <2>1, <2>4 DEF Once, WholeQuanta, PriceQuantum, Digits, AtLeast, One
  <2> QED
    BY <2>1, <2>2, <2>3, <2>5 DEF GridInv
<1> QED
  BY <1>1, <1>2

\* Rounding a price that was rounded leaves it where it is, and the second round of
\* _round_to_grid, after a power of ten was crossed, never moves it either: the
\* code's recursion ends, at the latest, with its second call.
THEOREM RoundingIsOnce ==
    ASSUME NEW p \in Prices, NEW up \in BOOLEAN, RoundToGrid(p, up) # NoPrice
    PROVE  /\ RoundToGrid(p, up) = WholeQuanta(p, PriceQuantum(p), up)
           /\ RoundToGrid(RoundToGrid(p, up), up) = RoundToGrid(p, up)
<1>1. RoundToGrid(p, up) = Once(p, up) /\ Once(p, up) # 0
  BY RoundToGridIs
<1>2. PICK r \in Prices : r = Once(p, up) /\ WholeNumberOf(r, PriceQuantum(r))
  BY <1>1, OnceIsAllowed
<1>3. Once(r, up) = r /\ r # 0
  BY <1>2, OnGridStays DEF Prices
<1>4. RoundToGrid(r, up) = r
  BY <1>3, RoundToGridIs
<1> QED
  BY <1>1, <1>2, <1>4 DEF Once

\* A rounded price is one the venue accepts, the nearest on the safe side, across
\* powers of ten and the integer cap, for any number of significant figures and
\* decimals and every price (price_quantum, _round_to_grid, adverse_price,
\* protective_price).
THEOREM RoundedIsNearestSafe == GridSpec => []NearestSafePrice
<1>1. ASSUME GridInv PROVE NearestSafePrice
  <2>1. quoted \in Prices /\ quoted \in Nat /\ Up \in BOOLEAN
    BY <1>1, UpIsBoolean DEF GridInv, Prices
  <2>2. ((use = "adverse") = (side = "BUY")) <=> Up
    <3>1. CASE use = "adverse"
      BY <3>1, Zenon DEF Up
    <3>2. CASE use # "adverse"
      <4>1. side = "BUY" <=> side # "SELL"
        BY <1>1 DEF GridInv
      <4> QED
        BY <3>2, <4>1, Zenon DEF Up
    <3> QED
      BY <3>1, <3>2
  <2>3. CASE rounded = quoted
    BY <2>1, <2>3 DEF NearestSafePrice
  <2>4. CASE rounded # quoted /\ rounded = Once(quoted, Up) /\ Once(quoted, Up) # 0
    <3>1. /\ Allowed(rounded) /\ \A x \in Between(quoted, rounded) : ~Allowed(x)
          /\ ~Allowed(quoted)
          /\ IF Up THEN rounded >= quoted ELSE rounded <= quoted
      BY <2>1, <2>4, NonePassedOver
    <3> QED
      BY <2>2, <3>1, Zenon DEF NearestSafePrice
  <2> QED
    BY <1>1, <2>3, <2>4 DEF GridInv
<1> QED
  BY <1>1, GridStarts, GridStep, PTL DEF GridSpec

\* Prices with as many digits before the point as there are significant figures, or
\* more, are on the integers, and none of them is refused: there PaperEngine's
\* whole ticks are all of the venue's grid (price_quantum's cap at 1).
THEOREM IntegersWhereTheEngineTrades ==
    ASSUME NEW p \in Prices, NEW up \in BOOLEAN,
           TenTo[Scale + SignificantFigures - 1] <= p
    PROVE  /\ Allowed(p) <=> p % One = 0
           /\ RoundToGrid(p, up) = WholeQuanta(p, One, up)
<1> DEFINE n == Scale + SignificantFigures - 1
<1> DEFINE d == Digits(p)
<1>1. n \in Nat /\ Scale \in Nat /\ Scale <= n /\ d \in Nat /\ TenTo[n] <= p /\ p \in Nat
  BY PrecisionAssumption, DigitsAre DEF Prices
<1>2. n < d
  <2>1. SUFFICES ASSUME d <= n PROVE FALSE
    BY <1>1
  <2>2. TenTo[d] <= TenTo[n] /\ TenTo[d] \in Nat /\ TenTo[n] \in Nat /\ p < TenTo[d]
    BY <1>1, <2>1, TenToDivides, TenToIs, DigitsAre
  <2> HIDE DEF n, d
  <2> QED
    BY <1>1, <2>2
<1>3. Exponent(d) = Scale
  <2> HIDE DEF d
  <2> QED
    BY <1>1, <1>2, PrecisionAssumption
    DEF Exponent, CoarserExponent, FiguresExponent, FinestExponent
<1>4. PriceQuantum(p) = One
  BY <1>3, QuantumIs DEF One
<1> HIDE DEF n, d
<1>5. TenTo[n] \in Nat \ {0} /\ TenTo[Scale] \in Nat \ {0}
  BY <1>1, TenToLarge
<1>6. Once(p, up) \in Nat /\ Once(p, up) # 0
  <2>1. WholeNumberOf(TenTo[n], PriceQuantum(p))
    BY <1>1, <1>4, TenToDivides DEF One
  <2>2. /\ Once(p, up) \in Nat
        /\ IF up THEN p <= Once(p, up) ELSE Once(p, up) <= p
        /\ IF up THEN p <= TenTo[n] => Once(p, up) <= TenTo[n]
           ELSE TenTo[n] <= p => TenTo[n] <= Once(p, up)
    BY <1>5, <2>1, OncePasses
  <2> QED
    BY <1>1, <1>5, <2>2
<1>7. RoundToGrid(p, up) = WholeQuanta(p, One, up)
  BY <1>4, <1>6, RoundToGridIs DEF Once
<1>8. Allowed(p) <=> p % One = 0
  BY <1>1, <1>4, <1>5, AllowedIsOnGrid, NoRemainder DEF One
<1> QED
  BY <1>7, <1>8
=============================================================================
