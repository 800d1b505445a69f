------------------------ MODULE ContinuousSupervisor ------------------------
(***************************************************************************)
(* The host supervisor of collector_continuous.py: one root process that   *)
(* keeps finite capture campaigns running one after another.  A campaign   *)
(* runs in a container the supervisor launches and observes; when it ends, *)
(* the supervisor audits its copies, records the gap and launches the      *)
(* next one.  The process can die between any two effects, the disk can    *)
(* refuse a save, the host can lose power, and ExecStopPost of the unit    *)
(* (--stop-owned) runs after every exit.                                   *)
(*                                                                         *)
(* Campaign 0 is the adopted one: it was started by hand, the supervisor   *)
(* only watches it.  The containers of docker and the app job of TrueNAS   *)
(* are part of the model; the files of a campaign are reduced to what the  *)
(* supervisor reads of them.                                               *)
(***************************************************************************)
EXTENDS Integers

CONSTANTS
    None,
    MaxRetries,   \* Settings.max_retries
    MaxCampaign,  \* bound: campaigns launched after the adopted one
    MaxBoot       \* bound: boots of the host

ASSUME RetriesAssumption == MaxRetries \in Nat
ASSUME BoundsAssumption == MaxCampaign \in Nat /\ MaxBoot \in Nat \ {0}
ASSUME NoneAssumption ==
    None \notin Int /\ None \notin Int \X Int /\ None \notin {"scheduled", "transport", "reboot"}

VARIABLES
    boot,       \* the boot of the host
    pc,         \* where the supervisor process is; "off" when the unit is
    mem,        \* Supervisor.state
    disk,       \* state.json
    task,       \* why the running audit was started, None outside one
    job,        \* the campaign an accepted app.update has yet to apply
    box,        \* the collector container
    auditBox,   \* the campaign of the closure-audit container, if one exists
    files,      \* what is on disk about each campaign
    relaunches  \* launches out of retry-wait since a campaign completed

process == <<pc, mem, disk, task>>
host == <<boot, job, box, auditBox, files>>
vars == <<boot, pc, mem, disk, task, job, box, auditBox, files, relaunches>>

Campaigns == 0 .. MaxCampaign
Boots == 1 .. MaxBoot
Containers == Campaigns \X Boots

Phases == {"adopting", "admitting", "capturing", "auditing",
           "between-campaigns", "retry-wait", "paused", "stopped"}
Working == {"admission", "adopt", "loop", "observe", "rebind", "quiesce",
            "auditBegin", "auditClear", "auditForget", "auditCreate", "auditLatch",
            "auditRun", "auditRemove", "auditDrop", "gap", "conclude",
            "verify", "admit", "update", "await", "gate", "confirm"}
Failing == {"failSave", "failStop", "failAudit"}
Cleaning == {"post", "postStop", "postAudit"}
\* The waits that tick: a tick sees SIGTERM.
Ticking == {"admission", "loop", "auditRun", "verify", "await", "gate", "confirm"}

Gaps == {"scheduled", "transport", "reboot"}
\* crashed: it exited with another code than 0 after its health said completed.
ExitStages == {"ended", "crashed"}
Stages == {"waiting", "capturing", "publishing", "failing", "exiting"} \cup ExitStages

States == [phase : Phases,
           campaign : Campaigns \cup {None},      \* current generation
           boot : Boots,                          \* its boot_id
           container : Containers \cup {None},    \* its collector_id
           confirmed : BOOLEAN,                   \* its app_config_sha256 is set
           retries : Nat,
           audit : Campaigns \cup {None},         \* audit_id
           graceful : Boots \X Campaigns \cup {None}]
Boxes == [campaign : Campaigns, id : Containers, stage : Stages, gated : BOOLEAN]
\* sealed: every chunk has two sealed copies; some chunks have none; a copy was
\* left half published.  transport: lanes failed, all for a known transport
\* reason.  flaw: a lane of the current chunk, or of a published one, counted
\* integrity events or failed for another reason.
Files == [gap : Gaps \cup {None},
          closure : BOOLEAN,
          health : {"none", "running", "completed", "failed"},
          transport : BOOLEAN,
          flaw : {"none", "chunk", "sealed"},
          sealed : {"even", "whole", "torn"}]

TypeOK ==
    /\ boot \in Boots
    /\ pc \in Working \cup Failing \cup Cleaning \cup {"off"}
    /\ mem \in States /\ disk \in States
    /\ task \in {"complete", "transport", "boot", None}
    /\ job \in Campaigns \cup {None}
    /\ box \in Boxes
    /\ auditBox \in Campaigns \cup {None}
    /\ files \in [Campaigns -> Files]
    /\ relaunches \in Nat

FreshState ==
    [phase |-> "adopting", campaign |-> None, boot |-> 1, container |-> None,
     confirmed |-> FALSE, retries |-> 0, audit |-> None, graceful |-> None]
NoFiles ==
    [gap |-> None, closure |-> FALSE, health |-> "none", transport |-> FALSE,
     flaw |-> "none", sealed |-> "even"]

Init ==
    /\ boot = 1 /\ pc = "off" /\ task = None
    /\ mem = FreshState /\ disk = FreshState
    /\ job = None /\ auditBox = None /\ relaunches = 0
    /\ box = [campaign |-> 0, id |-> <<0, 1>>, stage |-> "capturing", gated |-> TRUE]
    /\ files = [c \in Campaigns |->
                    IF c = 0 THEN [NoFiles EXCEPT !.health = "running"] ELSE NoFiles]

Running(b) == b.stage \notin ExitStages
Writing(b) == b.stage \in {"capturing", "publishing", "failing"}

-----------------------------------------------------------------------------
(* The container: collector_runtime.collect_campaign as docker runs it.    *)

Report(c, f) == files' = [files EXCEPT ![c] = f]

\* The wait for the network marker ends: with it, the first status document;
\* without it within 120 s, or with a stale clock, nothing was written.
BoxOpens ==
    /\ box.stage = "waiting"
    /\ \/ /\ box.gated
          /\ box' = [box EXCEPT !.stage = "capturing"]
          /\ Report(box.campaign, [files[box.campaign] EXCEPT !.health = "running"])
       \/ /\ box' = [box EXCEPT !.stage = "ended"]
          /\ UNCHANGED files

\* All lanes of a chunk completed; one of them may have counted integrity events.
BoxCloses ==
    /\ box.stage = "capturing"
    /\ box' = [box EXCEPT !.stage = "publishing"]
    /\ \E flawed \in BOOLEAN :
           Report(box.campaign, [files[box.campaign] EXCEPT
               !.sealed = "torn",
               !.flaw = IF flawed /\ @ = "none" THEN "chunk" ELSE @])

\* Both copies of every lane are sealed: the next chunk, or the campaign is completed.
Sealed(f, last) ==
    [f EXCEPT !.flaw = IF @ = "chunk" THEN "sealed" ELSE @,
              !.health = IF last THEN "completed" ELSE @,
              !.sealed = IF last THEN "whole" ELSE "even"]
BoxSeals ==
    /\ box.stage = "publishing"
    /\ \E last \in BOOLEAN :
           /\ box' = [box EXCEPT !.stage = IF last THEN "exiting" ELSE "capturing"]
           /\ Report(box.campaign, Sealed(files[box.campaign], last))

\* The process ends, with code 0 unless it is killed first.
BoxExits ==
    /\ box.stage = "exiting"
    /\ \E stage \in ExitStages : box' = [box EXCEPT !.stage = stage]
    /\ UNCHANGED files

\* A lane writes its terminal health before the runtime notices and fails.
BoxTroubled ==
    /\ box.stage = "capturing"
    /\ box' = [box EXCEPT !.stage = "failing"]
    /\ \E flawed \in BOOLEAN :
           Report(box.campaign, [files[box.campaign] EXCEPT
               !.transport = ~ flawed,
               !.flaw = IF flawed /\ @ = "none" THEN "chunk" ELSE @])

\* The runtime fails and says so, or is killed; a half-published copy stays.
BoxFails ==
    /\ Writing(box)
    /\ box' = [box EXCEPT !.stage = "ended"]
    /\ \E killed \in BOOLEAN :
           Report(box.campaign, [files[box.campaign] EXCEPT
               !.health = IF killed THEN @ ELSE "failed"])

\* docker stop: a campaign may still complete, and be killed on its way out; a chunk
\* may end with a flaw.
BoxStopped ==
    \/ BoxExits
    \/ /\ box.stage = "publishing"
       /\ \E stage \in ExitStages : box' = [box EXCEPT !.stage = stage]
       /\ Report(box.campaign, Sealed(files[box.campaign], TRUE))
    \/ /\ box' = [box EXCEPT !.stage = "ended"]
       /\ \/ box.stage = "waiting" /\ UNCHANGED files
          \/ /\ Writing(box)
             /\ \E flawed \in BOOLEAN :
                    Report(box.campaign, [files[box.campaign] EXCEPT
                        !.health = "failed",
                        !.flaw = IF flawed /\ @ = "none" /\ box.stage = "capturing"
                                 THEN "chunk" ELSE @])

\* TrueNAS applies the accepted update: compose replaces the old container.
JobApplied ==
    /\ job # None
    /\ job' = None
    /\ box' = [campaign |-> job, id |-> <<job, boot>>, stage |-> "waiting", gated |-> FALSE]
    /\ UNCHANGED files

Container ==
    /\ \/ /\ BoxOpens \/ BoxCloses \/ BoxSeals \/ BoxExits \/ BoxTroubled \/ BoxFails
          /\ UNCHANGED job
       \/ JobApplied
    /\ UNCHANGED <<process, boot, auditBox, relaunches>>

-----------------------------------------------------------------------------
(* Saving, failing and shutting down.                                      *)

Paused(s) == [s EXCEPT !.phase = "paused"]

\* save: the document is replaced atomically, or the disk refuses it (before
\* or, for the status view, after the replacement) and the exception ends run.
Save(s, next) ==
    \/ mem' = s /\ disk' = s /\ pc' = next
    \/ mem' = Paused(s) /\ disk' \in {disk, s} /\ pc' = "failSave"

\* A save whose failure is suppressed, or passed over by a finally.
TrySave(s) == mem' = s /\ disk' \in {disk, s}

Fail == mem' = Paused(mem) /\ pc' = "failSave" /\ UNCHANGED disk

\* run's except clause for anything a tick, a command or a document raises.
Fault ==
    /\ pc \in Working
    /\ Fail
    /\ UNCHANGED <<host, task, relaunches>>

\* SIGTERM, seen at the loop head or at the next tick: shutdown_phase.
Shutdown ==
    /\ pc \in Ticking
    /\ pc' = "failSave"
    /\ mem' = IF mem.campaign = None
              THEN [mem EXCEPT !.phase = "stopped"]
              ELSE IF files[mem.campaign].health = "failed"
              THEN Paused(mem)
              ELSE [mem EXCEPT !.phase = "stopped",
                               !.graceful = <<boot, mem.campaign>>]
    /\ UNCHANGED <<host, disk, task, relaunches>>

\* stop_collector: the recorded container, or the one that carries the whole
\* identity of the current campaign; never the adopted one.  Docker may fail
\* to answer the failing process; ExecStopPost is assumed to reach it.
Owned ==
    /\ mem.campaign \notin {None, 0}
    /\ IF mem.container = None THEN box.campaign = mem.campaign
                               ELSE box.id = mem.container
StopCollector(answered, next) ==
    /\ pc' = next
    /\ IF Owned /\ answered
       THEN /\ TrySave([mem EXCEPT !.container = box.id])
            /\ IF Running(box) THEN BoxStopped ELSE UNCHANGED <<box, files>>
       ELSE UNCHANGED <<mem, disk, box, files>>
    /\ UNCHANGED <<boot, task, job, auditBox, relaunches>>

\* stop_audit, for the recorded identity only.
StopAudit(next) ==
    /\ pc' = next
    /\ IF mem.audit # None /\ auditBox = mem.audit
       THEN auditBox' = None /\ TrySave([mem EXCEPT !.audit = None])
       ELSE UNCHANGED <<mem, disk, auditBox>>
    /\ UNCHANGED <<boot, task, job, box, files, relaunches>>

FailSave ==
    /\ pc = "failSave"
    /\ TrySave(mem) /\ pc' = "failStop" /\ task' = None
    /\ UNCHANGED <<host, relaunches>>
FailStop ==
    /\ pc = "failStop"
    /\ \E answered \in BOOLEAN : StopCollector(answered, "failAudit")
FailAudit == pc = "failAudit" /\ StopAudit("post")

\* A mutant: ExecStopPost that gives up when the state document cannot be saved.
PostWithoutFinally ==
    /\ pc = "post"
    /\ \/ mem' = disk /\ UNCHANGED disk /\ pc' = "postStop"
       \/ mem' = Paused(disk) /\ disk' \in {disk, mem'} /\ pc' = "off"
    /\ UNCHANGED <<host, task, relaunches>>

\* ExecStopPost=--stop-owned: a new process on the state document.
Post ==
    /\ pc = "post"
    /\ IF disk.phase \in {"paused", "stopped"}
       THEN mem' = disk /\ UNCHANGED disk
       ELSE TrySave(Paused(disk))
    /\ pc' = "postStop"
    /\ UNCHANGED <<host, task, relaunches>>
PostStop == pc = "postStop" /\ StopCollector(TRUE, "postAudit")
PostAudit == pc = "postAudit" /\ StopAudit("off")

Cleanup == FailSave \/ FailStop \/ FailAudit \/ Post \/ PostStop \/ PostAudit

-----------------------------------------------------------------------------
(* Supervisor.run: one action between two effects that can be separated by *)
(* a crash.  A refused check raises, which Refuse turns into a pause.      *)

\* A step of run that touches neither the containers nor the files.
Quiet == UNCHANGED <<host, relaunches>>

At(place) == pc = place

\* verify_current: the stored app and the containers are the recorded ones.
VerifyCurrent ==
    /\ mem.confirmed
    /\ box.campaign = mem.campaign
    /\ box.id = mem.container

\* The first lines of run; a paused supervisor, or one stopped in this boot,
\* exits.  A new boot always begins with an audit.
NewBoot(s) == s.campaign # None /\ s.boot # boot
Exits(s) == s.phase \in {"paused", "stopped"} /\ (s.phase = "stopped" => ~ NewBoot(s))
Start ==
    /\ pc = "off"
    /\ IF Exits(disk)
       THEN mem' = disk /\ pc' = "post"
       ELSE /\ mem' = [disk EXCEPT !.phase = IF NewBoot(disk) THEN "auditing" ELSE @]
            /\ pc' = "admission"
    /\ UNCHANGED <<host, disk, task, relaunches>>

Admission ==
    /\ At("admission")
    /\ Save(mem, IF mem.campaign = None THEN "adopt" ELSE "loop")
    /\ Quiet /\ UNCHANGED task

CanAdopt == boot = 1 /\ box.campaign = 0
Adopt ==
    /\ At("adopt") /\ CanAdopt
    /\ Save([mem EXCEPT !.campaign = 0, !.container = box.id, !.confirmed = TRUE], "loop")
    /\ Quiet /\ UNCHANGED task

\* One turn of the loop; waiting out a retry delay is a stutter.
Loop ==
    /\ At("loop")
    /\ pc' = IF mem.boot # boot THEN "rebind"
             ELSE IF mem.phase \in {"retry-wait", "between-campaigns"} THEN "verify"
             ELSE "observe"
    /\ Quiet /\ UNCHANGED <<mem, disk, task>>

\* observe, while the container runs.
ObserveRunning ==
    /\ At("observe") /\ VerifyCurrent /\ Running(box)
    /\ Save([mem EXCEPT !.phase = IF files[mem.campaign].health = "none" THEN @
                                  ELSE "capturing"], "loop")
    /\ Quiet /\ UNCHANGED task

\* observe, after it ended: completed, or failed for a known transport reason.
Completed(f) == f.health = "completed" /\ box.stage = "ended"
TransportFailure(f) == f.transport /\ f.flaw # "chunk"
CanClose == VerifyCurrent /\ (Completed(files[mem.campaign])
                                \/ TransportFailure(files[mem.campaign]))
ObserveEnded ==
    /\ At("observe") /\ CanClose /\ ~ Running(box)
    /\ task' = IF Completed(files[mem.campaign]) THEN "complete" ELSE "transport"
    /\ pc' = "auditBegin"
    /\ Quiet /\ UNCHANGED <<mem, disk>>

\* A mutant: after a reboot a failed health document passes for an interruption.
InterruptedAnyhow(f) == f.health # "none" => f.flaw # "chunk"

\* recover_boot: check_interrupted_metadata, then rebind the container ids.
Interrupted(f) ==
    /\ f.health = "failed" => mem.graceful = <<mem.boot, mem.campaign>>
    /\ f.health # "none" => f.flaw # "chunk"
CanRebind == Interrupted(files[mem.campaign]) /\ mem.confirmed /\ box.campaign = mem.campaign
Rebind ==
    /\ At("rebind") /\ CanRebind
    /\ Save([mem EXCEPT !.container = box.id, !.phase = "auditing"], "quiesce")
    /\ Quiet /\ UNCHANGED task
Quiesce ==
    /\ At("quiesce")
    /\ IF Running(box) THEN BoxStopped ELSE UNCHANGED <<box, files>>
    /\ task' = "boot" /\ pc' = "auditBegin"
    /\ UNCHANGED <<mem, disk, boot, job, auditBox, relaunches>>

\* audit: remove a verifier a crash left behind, create one, latch its id,
\* let it judge the copies, publish the closure, remove it.
AuditBegin ==
    /\ At("auditBegin")
    /\ Save([mem EXCEPT !.phase = "auditing"], "auditClear")
    /\ Quiet /\ UNCHANGED task

Leftover == IF mem.audit # None THEN mem.audit
            ELSE IF auditBox = mem.campaign THEN auditBox ELSE None
CanClear == Leftover \in {None, auditBox}
AuditClear ==
    /\ At("auditClear") /\ CanClear
    /\ mem' = [mem EXCEPT !.audit = Leftover]
    /\ auditBox' = IF Leftover = None THEN auditBox ELSE None
    /\ pc' = IF Leftover = None THEN "auditCreate" ELSE "auditForget"
    /\ UNCHANGED <<disk, task, boot, job, box, files, relaunches>>
AuditForget ==
    /\ At("auditForget")
    /\ Save([mem EXCEPT !.audit = None], "auditCreate")
    /\ Quiet /\ UNCHANGED task
AuditCreate ==
    /\ At("auditCreate")
    /\ auditBox' = mem.campaign /\ pc' = "auditLatch"
    /\ UNCHANGED <<mem, disk, task, boot, job, box, files, relaunches>>
AuditLatch ==
    /\ At("auditLatch")
    /\ Save([mem EXCEPT !.audit = mem.campaign], "auditRun")
    /\ Quiet /\ UNCHANGED task

\* A mutant: a chunk without COMPLETE.json counts as not begun.
JudgedLoosely(f) ==
    /\ f.sealed \in IF task = "complete" THEN {"whole"} ELSE {"whole", "even", "torn"}
    /\ f.flaw # "sealed"

\* collector_continuous_audit.audit: every chunk sealed twice, or, for an
\* interrupted campaign, sealed twice or not begun; integrity events refused.
Judged(f) ==
    /\ f.sealed \in IF task = "complete" THEN {"whole"} ELSE {"whole", "even"}
    /\ f.flaw # "sealed"
AuditRun ==
    /\ At("auditRun") /\ Judged(files[mem.campaign])
    /\ Report(mem.campaign, [files[mem.campaign] EXCEPT !.closure = TRUE])
    /\ pc' = "auditRemove"
    /\ UNCHANGED <<mem, disk, task, boot, job, box, auditBox, relaunches>>
AuditRemove ==
    /\ At("auditRemove")
    /\ auditBox' = None /\ pc' = "auditDrop"
    /\ UNCHANGED <<mem, disk, task, boot, job, box, files, relaunches>>
AuditDrop ==
    /\ At("auditDrop")
    /\ Save([mem EXCEPT !.audit = None], "gap")
    /\ Quiet /\ UNCHANGED task

\* gap, after the retry count is settled: one record per campaign, never
\* replaced; only a reboot accepts one written for another reason.
Reason == CASE task = "complete" -> "scheduled"
            [] task = "transport" -> "transport"
            [] task = "boot" -> "reboot"
Retries == CASE task = "complete" -> 0
             [] task = "transport" -> mem.retries + 1
             [] task = "boot" -> mem.retries

\* A mutant: one retry more than max_retries.
CanRecordOneMore ==
    /\ Retries <= MaxRetries + 1 \/ task = "boot"
    /\ task # "boot" => files[mem.campaign].gap \in {None, Reason}

CanRecord ==
    /\ Retries <= MaxRetries \/ task = "boot"
    /\ task # "boot" => files[mem.campaign].gap \in {None, Reason}
RecordGap ==
    /\ At("gap") /\ CanRecord
    /\ mem' = [mem EXCEPT !.retries = Retries]
    /\ Report(mem.campaign, [files[mem.campaign] EXCEPT !.gap = IF @ = None THEN Reason ELSE @])
    /\ pc' = "conclude"
    /\ UNCHANGED <<disk, task, boot, job, box, auditBox, relaunches>>

\* A mutant: a new generation goes back to the loop before its launch.
ConcludeToLoop ==
    /\ At("conclude")
    /\ Save([mem EXCEPT !.phase = IF task = "transport" THEN "retry-wait"
                                  ELSE "between-campaigns"], "loop")
    /\ relaunches' = IF task = "complete" THEN 0 ELSE relaunches
    /\ task' = None
    /\ UNCHANGED host

\* The phase that permits a launch.  Only a retry goes back to wait.
Conclude ==
    /\ At("conclude")
    /\ IF task = "transport"
       THEN Save([mem EXCEPT !.phase = "retry-wait"], "loop")
       ELSE Save([mem EXCEPT !.phase = "between-campaigns"], "verify")
    /\ relaunches' = IF task = "complete" THEN 0 ELSE relaunches
    /\ task' = None
    /\ UNCHANGED host

\* launch: nothing runs, the new generation is on disk before the app changes,
\* and the container's id is on disk before the gate lets it reach the network.
CanLaunch == VerifyCurrent /\ ~ Running(box)
Verify ==
    /\ At("verify") /\ CanLaunch
    /\ Save(mem, "admit")
    /\ Quiet /\ UNCHANGED task
Admit ==
    /\ At("admit") /\ CanLaunch
    /\ mem.campaign < MaxCampaign
    /\ Save([mem EXCEPT !.phase = "admitting", !.campaign = @ + 1, !.boot = boot,
                        !.container = None, !.confirmed = FALSE], "update")
    /\ relaunches' = IF mem.phase = "retry-wait" /\ disk' # disk THEN relaunches + 1
                     ELSE relaunches
    /\ UNCHANGED <<host, task>>
Update ==
    /\ At("update")
    /\ job' = mem.campaign /\ pc' = "await"
    /\ UNCHANGED <<mem, disk, task, boot, box, auditBox, files, relaunches>>
Appeared == box.campaign = mem.campaign /\ Running(box)
Await ==
    /\ At("await") /\ Appeared
    /\ Save([mem EXCEPT !.container = box.id], "gate")
    /\ Quiet /\ UNCHANGED task
CanGate == box.id = mem.container /\ Running(box)
Gate ==
    /\ At("gate") /\ CanGate
    /\ box' = [box EXCEPT !.gated = TRUE] /\ pc' = "confirm"
    /\ UNCHANGED <<mem, disk, task, boot, job, auditBox, files, relaunches>>
Confirm ==
    /\ At("confirm") /\ box.campaign = mem.campaign
    /\ Save([mem EXCEPT !.confirmed = TRUE, !.phase = "capturing"], "loop")
    /\ Quiet /\ UNCHANGED task

\* A check of run, recover_boot, audit, gap or launch that is not met.
Refuse ==
    /\ \/ At("adopt") /\ ~ CanAdopt
       \/ At("observe") /\ ~ VerifyCurrent
       \/ At("observe") /\ ~ Running(box) /\ ~ CanClose
       \/ At("rebind") /\ ~ CanRebind
       \/ At("auditClear") /\ ~ CanClear
       \/ At("auditRun") /\ ~ Judged(files[mem.campaign])
       \/ At("gap") /\ ~ CanRecord
       \/ At("verify") /\ ~ CanLaunch
       \/ At("admit") /\ ~ CanLaunch
       \/ At("await") /\ ~ Appeared    \* 90 ticks
       \/ At("gate") /\ ~ CanGate
       \/ At("confirm") /\ box.campaign # mem.campaign
    /\ Fail
    /\ UNCHANGED <<host, task, relaunches>>

Run == \/ Admission \/ Adopt \/ Loop \/ ObserveRunning \/ ObserveEnded
       \/ Rebind \/ Quiesce
       \/ AuditBegin \/ AuditClear \/ AuditForget \/ AuditCreate \/ AuditLatch
       \/ AuditRun \/ AuditRemove \/ AuditDrop \/ RecordGap \/ Conclude
       \/ Verify \/ Admit \/ Update \/ Await \/ Gate \/ Confirm
       \/ Refuse

-----------------------------------------------------------------------------
(* The operator and the host.                                              *)

\* SIGKILL or the watchdog.
Kill ==
    /\ pc \in Working \cup Failing
    /\ pc' = "post" /\ task' = None
    /\ UNCHANGED <<host, mem, disk, relaunches>>

\* --pause needs the supervisor's lock, so the unit is off.
Pause ==
    /\ pc = "off" /\ disk.phase # "paused"
    /\ TrySave(Paused(disk)) /\ pc' = "postStop"
    /\ UNCHANGED <<host, task, relaunches>>

\* At the next boot TrueNAS may start the app's container again, or recreate
\* it; its network namespace is new, so no gate holds for it.
PowerLoss ==
    /\ boot < MaxBoot
    /\ boot' = boot + 1
    /\ pc' = "off" /\ mem' = disk /\ task' = None
    /\ job' \in {None, job}
    /\ \/ box' = [box EXCEPT !.stage = "ended", !.gated = FALSE]
       \/ box' = [box EXCEPT !.stage = "waiting", !.gated = FALSE]
       \/ box' = [box EXCEPT !.stage = "waiting", !.gated = FALSE, !.id = <<box.campaign, boot'>>]
    /\ UNCHANGED <<disk, auditBox, files, relaunches>>

Next == Start \/ Run \/ Fault \/ Cleanup \/ Container \/ Shutdown \/ Kill \/ Pause \/ PowerLoss

\* systemd schedules the process and docker answers it; nobody promises that
\* signals, faults, power losses or the container's own steps occur.
Spec == Init /\ [][Next]_vars /\ WF_vars(Run \/ Cleanup)

-----------------------------------------------------------------------------
(* What makes the supervisor correct.                                      *)

Replaced(s) == {c \in Campaigns : s.campaign # None /\ c < s.campaign}

\* A campaign that has a successor, in memory or on disk, is accounted for:
\* its gap and its closure are on disk, no copy of it was left half published,
\* no integrity event went unnoticed, and its container writes nothing more.
\* (observe, recover_boot and launch, over every crash between them.)
Accounted(c) ==
    /\ files[c].gap # None
    /\ files[c].closure
    /\ files[c].sealed # "torn"
    /\ files[c].flaw = "none"
    /\ ~ (Writing(box) /\ box.campaign = c)
SuccessorAccounted == \A c \in Replaced(mem) \cup Replaced(disk) : Accounted(c)

\* No container of the supervisor's own captures while the unit is off, on
\* whatever path it went off.  (The identity is saved before the gate opens;
\* run's finally, ExecStopPost and --pause stop what state.json names.)
NoOrphanCapture == pc = "off" => ~ (Writing(box) /\ box.campaign # 0)

\* Between two completed campaigns no more than MaxRetries launches follow a
\* transport failure, over restarts of the supervisor and of the host.
\* (observe and retry_delay; retry_count in state.json.)
RetryBudget == relaunches <= MaxRetries

\* A campaign whose runtime reported a failure gets a successor only if the
\* failure was a classified transport failure, or the supervisor itself had
\* stopped the campaign.  (observe, check_interrupted_metadata, shutdown_phase.)
Answered(c) ==
    files[c].health = "failed" => \/ files[c].transport
                                  \/ mem.graceful = <<mem.boot, c>>
FailureSticks ==
    [][pc = "admit" /\ mem'.campaign # mem.campaign => Answered(mem.campaign)]_vars

\* When a campaign ends under a working supervisor, its successor is let onto
\* the network, or the unit goes off and state.json or the operator says why.
\* (run, observe, audit, gap and launch.)
Ended == /\ pc \in Working /\ VerifyCurrent /\ ~ Running(box)
         /\ mem.campaign < MaxCampaign
CaptureResumes == Ended ~> (pc = "off" \/ (pc = "confirm" /\ Running(box)))
=============================================================================
