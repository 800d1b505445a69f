---------------------- MODULE ContinuousSupervisorProofs ----------------------
(***************************************************************************)
(* The safety properties of ContinuousSupervisor for every number of       *)
(* retries, campaigns and boots.  The supervisor can go on from two        *)
(* documents, the one in memory and state.json, and they may differ after  *)
(* any refused save or crash; the invariant therefore says the same of     *)
(* both: what a document permits is backed by the files, the live          *)
(* container is the one it names, and it has counted its launches.         *)
(***************************************************************************)
EXTENDS ContinuousSupervisor, TLAPS

\* The places of an audit between its first save and the conclusion.
Auditing == {"auditClear", "auditForget", "auditCreate", "auditLatch", "auditRun",
             "auditRemove", "auditDrop", "gap", "conclude"}
Launching == {"update", "await", "gate", "confirm"}
Permits(s) == s.phase \in {"retry-wait", "between-campaigns"}

\* The container writes, or the gate lets it begin.
Live == Writing(box) \/ (box.stage = "waiting" /\ box.gated)
Silent(c) == ~ (Live /\ box.campaign = c)

\* What a launch needs of a campaign, and what it needs of the document too.
Closed(c) ==
    /\ files[c].gap # None /\ files[c].closure
    /\ files[c].sealed # "torn" /\ files[c].flaw = "none"
    /\ Silent(c)
AnsweredIn(s, c) ==
    files[c].health = "failed" => files[c].transport \/ s.graceful = <<s.boot, c>>

\* What a document says is backed by the files: a phase that permits a launch
\* only over a closed campaign, a generation only over closed ones.
Backed(s) ==
    /\ Permits(s) => /\ s.campaign \in Campaigns
                     /\ Closed(s.campaign) /\ AnsweredIn(s, s.campaign)
    /\ \A c \in Campaigns : s.campaign # None /\ c < s.campaign => Closed(c)

\* A document names the live container: cleaning up from it stops it.
Named(s) ==
    Live => /\ s.boot = boot
            /\ \/ s.campaign = None /\ box.campaign = 0
               \/ s.campaign = box.campaign /\ (box.campaign # 0 => s.container = box.id)

\* A document has counted the launches that followed a failure.
Counted(s) ==
    /\ s.retries <= MaxRetries
    /\ s.phase # "paused" => relaunches <= s.retries
    /\ s.phase = "retry-wait" => relaunches < s.retries

\* What the place of the process says of its document s.
Placed(s, place) ==
    /\ place \in Working => s.phase \notin {"paused", "stopped"}
    /\ place \in Auditing => s.phase = "auditing"
    /\ place \in {"auditBegin"} \cup Auditing => task \in {"complete", "transport", "boot"}
    /\ place = "adopt" => s.campaign = None
    /\ place = "rebind" => s.boot # boot
    /\ place = "quiesce" => ~ Live
    /\ place \in {"quiesce", "auditBegin"} \cup Auditing =>
           /\ s.campaign \in Campaigns
           /\ Silent(s.campaign)
           /\ files[s.campaign].flaw # "chunk"
           /\ AnsweredIn(s, s.campaign)
    /\ place \in {"auditRemove", "auditDrop", "gap", "conclude"} =>
           /\ files[s.campaign].closure
           /\ files[s.campaign].sealed # "torn"
           /\ files[s.campaign].flaw = "none"
    /\ place \in {"verify", "admit"} => Permits(s)
    /\ place \in Launching => s.phase = "admitting" /\ s.boot = boot
    /\ place = "gate" => s.container[1] = s.campaign

\* The count that a conclusion is about to save, the launches not yet cleared.
Concluding ==
    pc = "conclude" =>
        /\ files[mem.campaign].gap # None
        /\ task = "complete" => mem.retries = 0
        /\ task = "transport" => relaunches < mem.retries

\* What the files say of a campaign and of its container.
FilesSound ==
    /\ box.id[1] = box.campaign
    /\ Writing(box) => files[box.campaign].health = "running"
    /\ \A c \in Campaigns :
           /\ files[c].health = "none" => files[c].flaw = "none"
           /\ files[c].health = "completed" => files[c].flaw # "chunk"

Documents ==
    /\ Backed(disk) /\ Named(disk) /\ Counted(disk)
    /\ Backed(mem) /\ mem.retries <= MaxRetries
    /\ pc \notin {"post", "off"} => Named(mem)
    /\ pc \notin {"post", "off"} /\ ~ (pc = "conclude" /\ task = "complete") => Counted(mem)
Place == Placed(mem, pc) /\ (pc \in Launching => disk = mem)
Stopped == pc \in {"postAudit", "off"} /\ Live => box.campaign = 0

SupervisorInv ==
    /\ TypeOK
    /\ FilesSound
    /\ Documents
    /\ Place
    /\ Concluding
    /\ Stopped
    /\ RetryBudget

-----------------------------------------------------------------------------
(* The documents.  One field of a state is replaced, the others stay.      *)

LEMMA NewPhase ==
    ASSUME NEW s \in States, NEW p \in Phases
    PROVE  LET t == [s EXCEPT !.phase = p] IN
           /\ t \in States /\ t.phase = p /\ t.retries = s.retries
           /\ t.campaign = s.campaign /\ t.boot = s.boot /\ t.container = s.container
           /\ t.confirmed = s.confirmed /\ t.audit = s.audit /\ t.graceful = s.graceful
  BY DEF States

LEMMA NewContainer ==
    ASSUME NEW s \in States, NEW k \in Containers \cup {None}
    PROVE  LET t == [s EXCEPT !.container = k] IN
           /\ t \in States /\ t.container = k /\ t.retries = s.retries
           /\ t.campaign = s.campaign /\ t.boot = s.boot /\ t.phase = s.phase
           /\ t.confirmed = s.confirmed /\ t.audit = s.audit /\ t.graceful = s.graceful
  BY DEF States

LEMMA NewAudit ==
    ASSUME NEW s \in States, NEW a \in Campaigns \cup {None}
    PROVE  LET t == [s EXCEPT !.audit = a] IN
           /\ t \in States /\ t.audit = a /\ t.retries = s.retries
           /\ t.campaign = s.campaign /\ t.boot = s.boot /\ t.phase = s.phase
           /\ t.confirmed = s.confirmed /\ t.container = s.container /\ t.graceful = s.graceful
  BY DEF States

LEMMA NewRetries ==
    ASSUME NEW s \in States, NEW n \in Nat
    PROVE  LET t == [s EXCEPT !.retries = n] IN
           /\ t \in States /\ t.retries = n /\ t.audit = s.audit
           /\ t.campaign = s.campaign /\ t.boot = s.boot /\ t.phase = s.phase
           /\ t.confirmed = s.confirmed /\ t.container = s.container /\ t.graceful = s.graceful
  BY DEF States

LEMMA NewConfirmed ==
    ASSUME NEW s \in States, NEW b \in BOOLEAN
    PROVE  LET t == [s EXCEPT !.confirmed = b] IN
           /\ t \in States /\ t.confirmed = b /\ t.retries = s.retries
           /\ t.campaign = s.campaign /\ t.boot = s.boot /\ t.phase = s.phase
           /\ t.audit = s.audit /\ t.container = s.container /\ t.graceful = s.graceful
  BY DEF States

LEMMA NewCampaign ==
    ASSUME NEW s \in States, NEW c \in Campaigns \cup {None}
    PROVE  LET t == [s EXCEPT !.campaign = c] IN
           /\ t \in States /\ t.campaign = c /\ t.retries = s.retries
           /\ t.confirmed = s.confirmed /\ t.boot = s.boot /\ t.phase = s.phase
           /\ t.audit = s.audit /\ t.container = s.container /\ t.graceful = s.graceful
  BY DEF States

LEMMA NewBootId ==
    ASSUME NEW s \in States, NEW b \in Boots
    PROVE  LET t == [s EXCEPT !.boot = b] IN
           /\ t \in States /\ t.boot = b /\ t.retries = s.retries
           /\ t.confirmed = s.confirmed /\ t.campaign = s.campaign /\ t.phase = s.phase
           /\ t.audit = s.audit /\ t.container = s.container /\ t.graceful = s.graceful
  BY DEF States

LEMMA NewGraceful ==
    ASSUME NEW s \in States, NEW g \in Boots \X Campaigns
    PROVE  LET t == [s EXCEPT !.graceful = g] IN
           /\ t \in States /\ t.graceful = g /\ t.retries = s.retries
           /\ t.confirmed = s.confirmed /\ t.campaign = s.campaign /\ t.phase = s.phase
           /\ t.audit = s.audit /\ t.container = s.container /\ t.boot = s.boot
  BY DEF States

LEMMA PausedState ==
    ASSUME NEW s \in States
    PROVE  /\ Paused(s) \in States /\ Paused(s).phase = "paused"
           /\ Paused(s).retries = s.retries
           /\ Paused(s).campaign = s.campaign /\ Paused(s).boot = s.boot
           /\ Paused(s).container = s.container /\ Paused(s).confirmed = s.confirmed
           /\ Paused(s).audit = s.audit /\ Paused(s).graceful = s.graceful
  <1>1. "paused" \in Phases  BY DEF Phases
  <1>2. QED  BY <1>1, NewPhase DEF Paused

\* A save leaves the document or its pause in memory, the old or the new on disk.
LEMMA SaveShape ==
    ASSUME mem \in States, disk \in States, NEW s \in States, NEW next, Save(s, next)
    PROVE  /\ mem' \in States /\ disk' \in States /\ disk' \in {disk, s}
           /\ \/ mem' = s /\ disk' = s /\ pc' = next
              \/ mem' = Paused(s) /\ pc' = "failSave"
  BY PausedState DEF Save

LEMMA TryShape ==
    ASSUME disk \in States, NEW s \in States, TrySave(s)
    PROVE  mem' = s /\ mem' \in States /\ disk' \in {disk, s} /\ disk' \in States
  BY DEF TrySave

-----------------------------------------------------------------------------
(* Types.                                                                  *)

LEMMA BoxFields ==
    ASSUME box \in Boxes
    PROVE  /\ box.campaign \in Campaigns /\ box.id \in Containers
           /\ box.stage \in Stages /\ box.gated \in BOOLEAN
  BY DEF Boxes

LEMMA BoxStage ==
    ASSUME box \in Boxes, NEW st \in Stages, box' = [box EXCEPT !.stage = st]
    PROVE  /\ box' \in Boxes /\ box'.stage = st /\ box'.gated = box.gated
           /\ box'.campaign = box.campaign /\ box'.id = box.id
  BY DEF Boxes

LEMMA StateFields ==
    ASSUME NEW s \in States
    PROVE  /\ s.phase \in Phases /\ s.campaign \in Campaigns \cup {None}
           /\ s.boot \in Boots /\ s.container \in Containers \cup {None}
           /\ s.confirmed \in BOOLEAN /\ s.retries \in Nat
           /\ s.audit \in Campaigns \cup {None}
  BY DEF States

LEMMA Report1 ==
    ASSUME files \in [Campaigns -> Files], NEW c \in Campaigns, NEW f \in Files, Report(c, f)
    PROVE  /\ files' \in [Campaigns -> Files]
           /\ files'[c] = f
           /\ \A d \in Campaigns : d # c => files'[d] = files[d]
  BY DEF Report

-----------------------------------------------------------------------------
(* The container and the host.                                             *)

\* Records are only added to the files of a campaign.
Grown(f, g) ==
    /\ g.health = f.health /\ g.transport = f.transport
    /\ g.flaw = f.flaw /\ g.sealed = f.sealed
    /\ f.closure => g.closure
    /\ f.gap # None => g.gap # None

\* A step adds records to silent campaigns at most, and brings no container to life.
HostStep ==
    /\ \A c \in Campaigns : Silent(c) => Grown(files[c], files'[c])
    /\ Live' => /\ Live /\ boot' = boot
                /\ box'.campaign = box.campaign /\ box'.id = box.id

LEMMA FileFields ==
    ASSUME NEW f \in Files
    PROVE  /\ f.gap \in Gaps \cup {None} /\ f.closure \in BOOLEAN
           /\ f.health \in {"none", "running", "completed", "failed"}
           /\ f.transport \in BOOLEAN /\ f.flaw \in {"none", "chunk", "sealed"}
           /\ f.sealed \in {"even", "whole", "torn"}
  BY DEF Files

LEMMA NewHealth ==
    ASSUME NEW f \in Files, NEW h \in {"none", "running", "completed", "failed"}
    PROVE  LET g == [f EXCEPT !.health = h] IN
           /\ g \in Files /\ g.health = h /\ g.flaw = f.flaw
  BY DEF Files

LEMMA NewFlaw ==
    ASSUME NEW f \in Files, NEW x \in {"none", "chunk", "sealed"}
    PROVE  LET g == [f EXCEPT !.flaw = x] IN
           /\ g \in Files /\ g.flaw = x /\ g.health = f.health
  BY DEF Files

LEMMA NewSealed ==
    ASSUME NEW f \in Files, NEW x \in {"none", "chunk", "sealed"},
           NEW y \in {"even", "whole", "torn"}
    PROVE  LET g == [f EXCEPT !.sealed = y, !.flaw = x] IN
           /\ g \in Files /\ g.flaw = x /\ g.health = f.health
  BY DEF Files

LEMMA SealedFile ==
    ASSUME NEW f \in Files, NEW last \in BOOLEAN
    PROVE  /\ Sealed(f, last) \in Files
           /\ Sealed(f, last).flaw = IF f.flaw = "chunk" THEN "sealed" ELSE f.flaw
           /\ Sealed(f, last).health = IF last THEN "completed" ELSE f.health
  BY DEF Files, Sealed

\* A report about the container's own campaign.
LEMMA BoxReport ==
    ASSUME TypeOK, FilesSound, boot' = boot, NEW f \in Files,
           Live, Report(box.campaign, f),
           box' \in Boxes, box'.campaign = box.campaign, box'.id = box.id,
           f.health # "none" /\ (f.health = "completed" => f.flaw # "chunk"),
           Writing(box') => f.health = "running"
    PROVE  files' \in [Campaigns -> Files] /\ FilesSound' /\ HostStep
  <1>1. box.campaign \in Campaigns
    BY BoxFields DEF TypeOK, Boxes
  <1>2. /\ files' \in [Campaigns -> Files] /\ files'[box.campaign] = f
        /\ \A d \in Campaigns : d # box.campaign => files'[d] = files[d]
    BY <1>1, Report1 DEF TypeOK
  <1>3. FilesSound'
    BY <1>1, <1>2 DEF FilesSound, Writing
  <1>4. HostStep
    BY <1>1, <1>2 DEF HostStep, Silent, Live, Grown
  <1>5. QED  BY <1>1, <1>2, <1>3, <1>4

\* The container ends without a word, or is not there any more.
LEMMA BoxQuiet ==
    ASSUME TypeOK, FilesSound, files' = files, box' \in Boxes,
           box'.id[1] = box'.campaign, ~ Live', ~ Writing(box')
    PROVE  files' \in [Campaigns -> Files] /\ FilesSound' /\ HostStep
  BY DEF TypeOK, FilesSound, HostStep, Grown

\* What every step of the container establishes.
ContainerStep ==
    /\ box' \in Boxes /\ files' \in [Campaigns -> Files]
    /\ FilesSound' /\ HostStep

LEMMA OpensQuietly ==
    ASSUME TypeOK, FilesSound, boot' = boot, BoxOpens
    PROVE  ContainerStep
  <1> USE DEF ContainerStep
  <1>1. box.campaign \in Campaigns /\ files[box.campaign] \in Files /\ box.stage = "waiting"
    BY BoxFields DEF TypeOK, BoxOpens
  <1>2. CASE /\ box.gated /\ box' = [box EXCEPT !.stage = "capturing"]
             /\ Report(box.campaign, [files[box.campaign] EXCEPT !.health = "running"])
    <2> DEFINE f == [files[box.campaign] EXCEPT !.health = "running"]
    <2>1. f \in Files /\ f.health = "running" /\ f.flaw = files[box.campaign].flaw
      BY <1>1, NewHealth
    <2>2. Live  BY <1>1, <1>2 DEF Live
    <2>3. Report(box.campaign, f) BY <1>2
    <2>4. "capturing" \in Stages BY DEF Stages, ExitStages
    <2>5. box' \in Boxes /\ box'.campaign = box.campaign /\ box'.id = box.id
      BY <1>2, <2>4, BoxStage DEF TypeOK
    <2> HIDE DEF f
    <2>6. QED  BY <2>1, <2>2, <2>3, <2>5, BoxReport
  <1>3. CASE box' = [box EXCEPT !.stage = "ended"] /\ UNCHANGED files
    <2>1. /\ box' \in Boxes /\ box'.stage = "ended"
          /\ box'.campaign = box.campaign /\ box'.id = box.id
      <3>1. "ended" \in Stages  BY DEF Stages, ExitStages
      <3>2. QED  BY <1>3, <3>1, BoxStage DEF TypeOK
    <2>2. ~ Live' /\ ~ Writing(box') /\ box'.id[1] = box'.campaign
      BY <2>1 DEF Live, Writing, FilesSound
    <2>3. QED  BY <1>3, <2>1, <2>2, BoxQuiet
  <1>4. QED  BY <1>2, <1>3 DEF BoxOpens

LEMMA ClosesQuietly ==
    ASSUME TypeOK, FilesSound, boot' = boot, BoxCloses
    PROVE  ContainerStep
  <1> USE DEF ContainerStep
  <1>1. PICK flawed \in BOOLEAN :
           Report(box.campaign, [files[box.campaign] EXCEPT
               !.sealed = "torn",
               !.flaw = IF flawed /\ @ = "none" THEN "chunk" ELSE @])
    BY DEF BoxCloses
  <1> DEFINE x == IF flawed /\ files[box.campaign].flaw = "none" THEN "chunk"
                  ELSE files[box.campaign].flaw
             f == [files[box.campaign] EXCEPT !.sealed = "torn", !.flaw = x]
  <1>2. box.campaign \in Campaigns /\ files[box.campaign] \in Files /\ box.stage = "capturing"
    BY BoxFields DEF TypeOK, BoxCloses
  <1>3. x \in {"none", "chunk", "sealed"}
    BY <1>2, FileFields
  <1>4. f \in Files /\ f.health = files[box.campaign].health
    <2> HIDE DEF x
    <2>1. QED  BY <1>2, <1>3, NewSealed
  <1>5. Live /\ files[box.campaign].health = "running"
    BY <1>2 DEF Live, Writing, FilesSound
  <1>6. Report(box.campaign, f)  BY <1>1
  <1>7. box' = [box EXCEPT !.stage = "publishing"] /\ "publishing" \in Stages
    BY DEF BoxCloses, Stages, ExitStages
  <1>8. box' \in Boxes /\ box'.campaign = box.campaign /\ box'.id = box.id
    BY <1>7, BoxStage DEF TypeOK
  <1> HIDE DEF f
  <1>9. QED  BY <1>4, <1>5, <1>6, <1>8, BoxReport

LEMMA SealsQuietly ==
    ASSUME TypeOK, FilesSound, boot' = boot, NEW last \in BOOLEAN,
           NEW st \in {"capturing", "exiting"} \cup ExitStages,
           box.stage = "publishing", last <=> st # "capturing",
           box' = [box EXCEPT !.stage = st],
           Report(box.campaign, Sealed(files[box.campaign], last))
    PROVE  ContainerStep
  <1> USE DEF ContainerStep
  <1> DEFINE f == Sealed(files[box.campaign], last)
  <1>1. box.campaign \in Campaigns /\ files[box.campaign] \in Files
    BY BoxFields DEF TypeOK
  <1>2. /\ f \in Files
        /\ f.flaw = IF files[box.campaign].flaw = "chunk" THEN "sealed" ELSE files[box.campaign].flaw
        /\ f.health = IF last THEN "completed" ELSE files[box.campaign].health
    BY <1>1, SealedFile
  <1>3. Live /\ files[box.campaign].health = "running"
    BY DEF Live, Writing, FilesSound
  <1>4. Report(box.campaign, f) /\ st \in Stages  BY DEF Stages, ExitStages
  <1> HIDE DEF f
  <1>5. f.health \in {"running", "completed"} /\ f.flaw # "chunk"
    BY <1>2, <1>3
  <1>6. st = "capturing" => f.health = "running"
    BY <1>2, <1>3
  <1>7. box' \in Boxes /\ box'.stage = st /\ box'.campaign = box.campaign /\ box'.id = box.id
    BY <1>4, BoxStage DEF TypeOK
  <1>8. Writing(box') => f.health = "running"
    BY <1>6, <1>7 DEF Writing, ExitStages
  <1>9. QED  BY <1>2, <1>3, <1>4, <1>5, <1>7, <1>8, BoxReport

LEMMA TroubledQuietly ==
    ASSUME TypeOK, FilesSound, boot' = boot, BoxTroubled
    PROVE  ContainerStep
  <1> USE DEF ContainerStep
  <1>1. PICK flawed \in BOOLEAN :
           Report(box.campaign, [files[box.campaign] EXCEPT
               !.transport = ~ flawed,
               !.flaw = IF flawed /\ @ = "none" THEN "chunk" ELSE @])
    BY DEF BoxTroubled
  <1> DEFINE x == IF flawed /\ files[box.campaign].flaw = "none" THEN "chunk"
                  ELSE files[box.campaign].flaw
             t == ~ flawed
             f == [files[box.campaign] EXCEPT !.transport = t, !.flaw = x]
  <1>2. box.campaign \in Campaigns /\ files[box.campaign] \in Files /\ box.stage = "capturing"
    BY BoxFields DEF TypeOK, BoxTroubled
  <1>3. x \in {"none", "chunk", "sealed"} /\ t \in BOOLEAN
    BY <1>2, FileFields
  <1>4. f \in Files /\ f.health = files[box.campaign].health
    <2>1. PICK y \in {"none", "chunk", "sealed"}, r \in BOOLEAN :
             f = [files[box.campaign] EXCEPT !.transport = r, !.flaw = y]
      <3> HIDE DEF x, t
      <3>1. QED  BY <1>3
    <2> HIDE DEF f
    <2>2. QED  BY <1>2, <2>1 DEF Files
  <1>5. Live /\ files[box.campaign].health = "running"
    BY <1>2 DEF Live, Writing, FilesSound
  <1>6. Report(box.campaign, f)  BY <1>1
  <1>7. box' = [box EXCEPT !.stage = "failing"] /\ "failing" \in Stages
    BY DEF BoxTroubled, Stages, ExitStages
  <1>8. box' \in Boxes /\ box'.campaign = box.campaign /\ box'.id = box.id
    BY <1>7, BoxStage DEF TypeOK
  <1> HIDE DEF f
  <1>9. QED  BY <1>4, <1>5, <1>6, <1>8, BoxReport

LEMMA FailsQuietly ==
    ASSUME TypeOK, FilesSound, boot' = boot, BoxFails
    PROVE  ContainerStep
  <1> USE DEF ContainerStep
  <1>1. PICK killed \in BOOLEAN :
           Report(box.campaign, [files[box.campaign] EXCEPT
               !.health = IF killed THEN @ ELSE "failed"])
    BY DEF BoxFails
  <1> DEFINE h == IF killed THEN files[box.campaign].health ELSE "failed"
             f == [files[box.campaign] EXCEPT !.health = h]
  <1>2. box.campaign \in Campaigns /\ files[box.campaign] \in Files /\ Writing(box)
    BY BoxFields DEF TypeOK, BoxFails
  <1>3. Live /\ files[box.campaign].health = "running"
    BY <1>2 DEF Live, FilesSound
  <1>4. h = "failed" \/ h = "running"
    <2>1. CASE killed  BY <1>3, <2>1
    <2>2. CASE ~ killed  BY <2>2
    <2>3. QED  BY <2>1, <2>2
  <1>5. f \in Files /\ f.health = h
    <2>1. PICK v \in {"none", "running", "completed", "failed"} : v = h
      <3> HIDE DEF h
      <3>1. QED  BY <1>4
    <2>2. f = [files[box.campaign] EXCEPT !.health = v]  BY <2>1
    <2> HIDE DEF f, h
    <2>3. QED  BY <1>2, <2>1, <2>2, NewHealth
  <1>6. Report(box.campaign, f)  BY <1>1
  <1>7. box' = [box EXCEPT !.stage = "ended"] /\ "ended" \in Stages
    BY DEF BoxFails, Stages, ExitStages
  <1>8. /\ box' \in Boxes /\ box'.campaign = box.campaign /\ box'.id = box.id
        /\ ~ Writing(box')
    BY <1>7, BoxStage DEF TypeOK, Writing
  <1> HIDE DEF f, h
  <1>9. QED  BY <1>3, <1>4, <1>5, <1>6, <1>8, BoxReport

\* A process that is done ends without a word.
LEMMA ExitsQuietly ==
    ASSUME TypeOK, FilesSound, BoxExits
    PROVE  ContainerStep /\ ~ Live'
  <1>1. PICK st \in ExitStages : box' = [box EXCEPT !.stage = st]
    BY DEF BoxExits
  <1>2. st \in Stages  BY DEF Stages
  <1>3. /\ box' \in Boxes /\ box'.stage = st
        /\ box'.campaign = box.campaign /\ box'.id = box.id
    BY <1>1, <1>2, BoxStage DEF TypeOK
  <1>4. ~ Live' /\ ~ Writing(box') /\ box'.id[1] = box'.campaign
    BY <1>3 DEF Live, Writing, FilesSound, ExitStages
  <1>5. QED  BY <1>3, <1>4, BoxQuiet DEF ContainerStep, BoxExits

\* A stopped container writes nothing more.
LEMMA StoppedQuietly ==
    ASSUME TypeOK, FilesSound, boot' = boot, BoxStopped
    PROVE  ContainerStep /\ ~ Live'
  <1>1. ASSUME NEW st \in ExitStages, box' = [box EXCEPT !.stage = st]
        PROVE  /\ box' \in Boxes /\ box'.campaign = box.campaign /\ box'.id = box.id
               /\ ~ Live' /\ ~ Writing(box') /\ box'.id[1] = box'.campaign
    <2>1. st \in Stages  BY DEF Stages
    <2>2. box' \in Boxes /\ box'.stage = st /\ box'.campaign = box.campaign /\ box'.id = box.id
      BY <1>1, <2>1, BoxStage DEF TypeOK
    <2>3. QED  BY <2>2 DEF Live, Writing, FilesSound, ExitStages
  <1>2. "ended" \in ExitStages  BY DEF ExitStages
  <1>3. CASE BoxExits  BY <1>3, ExitsQuietly
  <1>4. CASE box' = [box EXCEPT !.stage = "ended"] /\ box.stage = "waiting" /\ UNCHANGED files
    BY <1>1, <1>2, <1>4, BoxQuiet DEF ContainerStep
  <1>5. ASSUME box.stage = "publishing", NEW st \in ExitStages,
               box' = [box EXCEPT !.stage = st],
               Report(box.campaign, Sealed(files[box.campaign], TRUE))
        PROVE  ContainerStep /\ ~ Live'
    <2>1. st \in {"capturing", "exiting"} \cup ExitStages /\ st # "capturing"
      BY DEF ExitStages
    <2>2. ContainerStep  BY <1>5, <2>1, SealsQuietly
    <2>3. QED  BY <1>1, <1>5, <2>2
  <1>6. ASSUME Writing(box), box' = [box EXCEPT !.stage = "ended"], NEW flawed \in BOOLEAN,
               Report(box.campaign, [files[box.campaign] EXCEPT
                     !.health = "failed",
                     !.flaw = IF flawed /\ @ = "none" /\ box.stage = "capturing"
                              THEN "chunk" ELSE @])
        PROVE  ContainerStep /\ ~ Live'
    <2> DEFINE x == IF flawed /\ files[box.campaign].flaw = "none" /\ box.stage = "capturing"
                    THEN "chunk" ELSE files[box.campaign].flaw
               f == [files[box.campaign] EXCEPT !.health = "failed", !.flaw = x]
    <2>1. box.campaign \in Campaigns /\ files[box.campaign] \in Files
      BY BoxFields DEF TypeOK
    <2>2. x \in {"none", "chunk", "sealed"}
      BY <2>1, FileFields
    <2>3. f \in Files /\ f.health = "failed"
      <3> HIDE DEF x
      <3>1. QED  BY <2>1, <2>2 DEF Files
    <2>4. Live BY <1>6 DEF Live
    <2>5. Report(box.campaign, f)  BY <1>6
    <2> HIDE DEF f
    <2>6. ContainerStep
      BY <1>1, <1>2, <1>6, <2>3, <2>4, <2>5, BoxReport DEF ContainerStep
    <2>7. QED  BY <1>1, <1>2, <1>6, <2>6
  <1>7. QED  BY <1>3, <1>4, <1>5, <1>6 DEF BoxStopped

\* The new container waits for the gate.
LEMMA AppliedQuietly ==
    ASSUME TypeOK, FilesSound, boot' = boot, JobApplied
    PROVE  ContainerStep /\ job' \in Campaigns \cup {None}
  <1>1. /\ job \in Campaigns /\ <<job, boot>> \in Containers
        /\ box' = [campaign |-> job, id |-> <<job, boot>>, stage |-> "waiting", gated |-> FALSE]
        /\ files' = files /\ job' = None
    BY DEF TypeOK, JobApplied, Containers
  <1>2. box' \in Boxes  BY <1>1 DEF Boxes, Stages, ExitStages
  <1>3. ~ Live' /\ ~ Writing(box') /\ box'.id[1] = box'.campaign
    BY <1>1 DEF Live, Writing
  <1>4. QED  BY <1>1, <1>2, <1>3, BoxQuiet DEF ContainerStep

-----------------------------------------------------------------------------
(* What a document says survives a step of the host.                       *)

LEMMA ClosedStays ==
    ASSUME HostStep, NEW c \in Campaigns, Closed(c)
    PROVE  Closed(c)'
  BY DEF HostStep, Closed, Silent, Grown

\* All that is asked of a document the supervisor may go on from.
Fit(s) == Backed(s) /\ Named(s) /\ Counted(s)

LEMMA BackedStays ==
    ASSUME HostStep, NEW s \in States, Backed(s)
    PROVE  Backed(s)'
  <1>1. ASSUME Permits(s)
        PROVE  /\ s.campaign \in Campaigns
               /\ Closed(s.campaign)' /\ AnsweredIn(s, s.campaign)'
    <2>1. s.campaign \in Campaigns /\ Closed(s.campaign) /\ AnsweredIn(s, s.campaign)
      BY <1>1 DEF Backed
    <2>2. Closed(s.campaign)'  BY <2>1, ClosedStays
    <2>3. Grown(files[s.campaign], files'[s.campaign])
      BY <2>1 DEF HostStep, Closed
    <2>4. QED  BY <2>1, <2>2, <2>3 DEF AnsweredIn, Grown
  <1>2. ASSUME NEW c \in Campaigns, s.campaign # None, c < s.campaign
        PROVE  Closed(c)'
    BY <1>2, ClosedStays DEF Backed
  <1>3. QED  BY <1>1, <1>2 DEF Backed, Permits

LEMMA NamedStays ==
    ASSUME HostStep, NEW s \in States, Named(s)
    PROVE  Named(s)'
  BY DEF HostStep, Named

LEMMA CountedStays ==
    ASSUME relaunches' = relaunches, NEW s \in States, Counted(s)
    PROVE  Counted(s)'
  BY DEF Counted

LEMMA FitStays ==
    ASSUME HostStep, relaunches' = relaunches, NEW s \in States, Fit(s)
    PROVE  Fit(s)'
  BY BackedStays, NamedStays, CountedStays DEF Fit

\* Only the phase changes when a document is paused.
LEMMA PausedFit ==
    ASSUME NEW s \in States, Backed(s), Named(s), s.retries <= MaxRetries
    PROVE  Fit(Paused(s))
  <1>1. ~ Permits(Paused(s))  BY PausedState DEF Permits
  <1>2. Backed(Paused(s))  BY <1>1, PausedState DEF Backed
  <1>3. Named(Paused(s))  BY PausedState DEF Named
  <1>4. Counted(Paused(s))  BY PausedState DEF Counted
  <1>5. QED  BY <1>2, <1>3, <1>4 DEF Fit

LEMMA FitHasRetries ==
    ASSUME NEW s, Fit(s)
    PROVE  Backed(s) /\ Named(s) /\ Counted(s) /\ s.retries <= MaxRetries
  BY DEF Fit, Counted

\* A step that leaves s or its pause in memory and s or the old document on disk.
LEMMA DocumentsKept ==
    ASSUME SupervisorInv, HostStep, relaunches' = relaunches,
           NEW s \in States, Fit(s), mem' \in {s, Paused(s)}, disk' \in {disk, s, Paused(s)}
    PROVE  /\ mem' \in States /\ disk' \in States
           /\ Documents' /\ RetryBudget'
  <1> DEFINE p == Paused(s)
  <1>1. p \in States /\ Fit(p)
    BY PausedState, PausedFit, FitHasRetries
  <1>2. disk \in States /\ Fit(disk)
    BY DEF SupervisorInv, TypeOK, Documents, Fit
  <1> HIDE DEF p
  <1>3. Fit(s)' /\ Fit(p)'  BY <1>1, FitStays
  <1>4. PICK d \in States : disk = d /\ Fit(d)  BY <1>2
  <1>5. Fit(d)'  BY <1>4, FitStays
  <1>6. mem' \in {s, p} /\ disk' \in {d, s, p}  BY <1>4 DEF p
  <1>7. PICK m \in States : mem' = m /\ Fit(m)'  BY <1>1, <1>3, <1>6
  <1>8. PICK k \in States : disk' = k /\ Fit(k)'
    BY <1>1, <1>3, <1>4, <1>5, <1>6
  <1>9. Backed(mem)' /\ Named(mem)' /\ Counted(mem)'
    BY <1>7 DEF Fit, Backed, Named, Counted, Permits, AnsweredIn
  <1>10. Backed(disk)' /\ Named(disk)' /\ Counted(disk)'
    BY <1>8 DEF Fit, Backed, Named, Counted, Permits, AnsweredIn
  <1>11. RetryBudget'  BY DEF SupervisorInv, RetryBudget
  <1>12. QED  BY <1>7, <1>8, <1>9, <1>10, <1>11 DEF Documents, Counted

-----------------------------------------------------------------------------
(* Steps that touch no container.                                          *)

LEMMA SameHost ==
    ASSUME SupervisorInv, UNCHANGED <<boot, box, files>>
    PROVE  HostStep /\ FilesSound'
  BY DEF HostStep, Grown, Live, Writing, SupervisorInv, FilesSound

LEMMA StepKeeps ==
    ASSUME SupervisorInv, HostStep, FilesSound', UNCHANGED relaunches,
           TypeOK', NEW s \in States, Fit(s),
           mem' \in {s, Paused(s)}, disk' \in {disk, s, Paused(s)},
           pc' \in Working => Placed(mem, pc)', pc' \in Launching => disk' = mem',
           Stopped', pc' # "conclude"
    PROVE  SupervisorInv'
  <1>1. Documents' /\ RetryBudget'  BY DocumentsKept
  <1>2. Placed(mem, pc)'
    <2>1. CASE pc' \in Working  BY <2>1
    <2>2. CASE pc' \notin Working
      BY <2>2 DEF Placed, Working, Auditing, Launching
    <2>3. QED  BY <2>1, <2>2
  <1>3. QED  BY <1>1, <1>2 DEF SupervisorInv, Place, Concluding

LEMMA Places ==
    /\ Auditing \subseteq Working /\ Launching \subseteq Working
    /\ "failSave" \in Failing /\ Failing \cap Working = {} /\ "failSave" \notin {"postAudit", "off"}
    /\ Ticking \subseteq Working /\ "conclude" \notin Ticking
  BY DEF Auditing, Launching, Failing, Working, Ticking

\* A save on the way to a place of run.
LEMMA SaveKeeps ==
    ASSUME SupervisorInv, UNCHANGED <<host, task, relaunches>>,
           NEW s \in States, NEW next \in Working, next # "conclude",
           Fit(s), Placed(s, next), Save(s, next)
    PROVE  SupervisorInv'
  <1>1. HostStep /\ FilesSound'  BY SameHost DEF host
  <1>2. /\ mem' \in States /\ disk' \in States /\ disk' \in {disk, s}
        /\ \/ mem' = s /\ disk' = s /\ pc' = next
           \/ mem' = Paused(s) /\ pc' = "failSave"
    BY SaveShape DEF SupervisorInv, TypeOK
  <1>3. TypeOK'
    BY <1>2, Places DEF SupervisorInv, TypeOK, host
  <1>4. Stopped' /\ pc' # "conclude"
    BY <1>2, Places DEF Stopped, Working
  <1>5. pc' \in Working => Placed(mem, pc)'
    <2>1. CASE pc' = "failSave"  BY <2>1, Places
    <2>2. CASE mem' = s /\ pc' = next
      <3>1. Silent(s.campaign)' = Silent(s.campaign)
        BY DEF Silent, Live, Writing, host
      <3>2. AnsweredIn(s, s.campaign)' = AnsweredIn(s, s.campaign)
        BY DEF AnsweredIn, host
      <3>3. Live' = Live  BY DEF Live, Writing, host
      <3>4. QED
        BY <2>2, <3>1, <3>2, <3>3 DEF Placed, Permits, Silent, AnsweredIn, host
    <2>3. QED  BY <1>2, <2>1, <2>2
  <1>6. pc' \in Launching => disk' = mem'  BY <1>2, Places
  <1>7. QED  BY <1>1, <1>2, <1>3, <1>4, <1>5, <1>6, StepKeeps

\* The document in memory is one the supervisor may go on from.
LEMMA MemFit ==
    ASSUME SupervisorInv, pc \notin {"post", "off", "conclude"}
    PROVE  mem \in States /\ Fit(mem) /\ mem.retries <= MaxRetries
  BY DEF SupervisorInv, TypeOK, Documents, Fit

LEMMA MemPausedFit ==
    ASSUME SupervisorInv, pc \notin {"post", "off"}
    PROVE  Paused(mem) \in States /\ Fit(Paused(mem))
  BY PausedState, PausedFit DEF SupervisorInv, TypeOK, Documents

LEMMA DiskFit ==
    ASSUME SupervisorInv
    PROVE  disk \in States /\ Fit(disk) /\ Paused(disk) \in States /\ Fit(Paused(disk))
  BY PausedState, PausedFit DEF SupervisorInv, TypeOK, Documents, Fit, Counted

\* A document that differs in nothing the invariant asks of it.
LEMMA FitLike ==
    ASSUME NEW m \in States, Fit(m), NEW s \in States,
           s.retries = m.retries, s.campaign = m.campaign, s.boot = m.boot,
           s.graceful = m.graceful, m.phase = "paused" => s.phase = "paused",
           Permits(s) => s.phase = m.phase,
           s.container \in {m.container, box.id}
    PROVE  Fit(s)
  <1>1. Backed(s)  BY DEF Fit, Backed, Permits, AnsweredIn
  <1>2. Named(s)  BY DEF Fit, Named
  <1>3. Counted(s)  BY DEF Fit, Counted, Permits
  <1>4. QED  BY <1>1, <1>2, <1>3 DEF Fit

LEMMA WorkingMem ==
    ASSUME SupervisorInv, pc \in Working
    PROVE  /\ mem \in States /\ mem.phase \notin {"paused", "stopped"} /\ pc \notin {"post", "off"}
           /\ pc # "conclude" => Fit(mem)
  BY MemFit DEF SupervisorInv, TypeOK, Place, Placed, Working

-----------------------------------------------------------------------------
(* One lemma per step of run.                                              *)

LEMMA AdmissionKeeps == ASSUME SupervisorInv, Admission PROVE SupervisorInv'
  <1> DEFINE next == IF mem.campaign = None THEN "adopt" ELSE "loop"
  <1>1. pc = "admission" /\ Save(mem, next) /\ UNCHANGED <<host, task, relaunches>>
    BY DEF Admission, At, Quiet
  <1>2. pc \in Working /\ next \in Working /\ next \in {"adopt", "loop"}
    BY <1>1 DEF Working
  <1>3. mem \in States /\ Fit(mem) /\ mem.phase \notin {"paused", "stopped"}
    BY <1>1, <1>2, WorkingMem
  <1>4. Placed(mem, next)
    BY <1>2, <1>3 DEF Placed, Auditing, Launching
  <1> HIDE DEF next
  <1>5. QED  BY <1>1, <1>2, <1>3, <1>4, SaveKeeps

LEMMA AdoptKeeps == ASSUME SupervisorInv, Adopt PROVE SupervisorInv'
  <1> DEFINE s == [mem EXCEPT !.campaign = 0, !.container = box.id, !.confirmed = TRUE]
  <1>1. /\ pc = "adopt" /\ boot = 1 /\ box.campaign = 0
        /\ Save(s, "loop") /\ UNCHANGED <<host, task, relaunches>>
    BY DEF Adopt, At, Quiet, CanAdopt
  <1>2. pc \in Working /\ "loop" \in Working
    BY <1>1 DEF Working
  <1>3. /\ mem \in States /\ Fit(mem) /\ mem.phase \notin {"paused", "stopped"}
        /\ mem.campaign = None
    BY <1>1, <1>2, WorkingMem DEF SupervisorInv, Place, Placed
  <1>4. box.id \in Containers /\ 0 \in Campaigns /\ None \notin Campaigns
    BY BoundsAssumption, NoneAssumption, BoxFields DEF SupervisorInv, TypeOK, Campaigns
  <1>5. /\ s \in States /\ s.campaign = 0 /\ s.phase = mem.phase
        /\ s.boot = mem.boot /\ s.retries = mem.retries
    BY <1>3, <1>4 DEF States
  <1> HIDE DEF s
  <1>6. Backed(s)
    <2>1. ~ Permits(s)  BY <1>3, <1>4, <1>5 DEF Fit, Backed, Permits
    <2>2. QED  BY <2>1, <1>5 DEF Backed, Campaigns
  <1>7. Named(s)  BY <1>1, <1>3, <1>5 DEF Fit, Named
  <1>8. Counted(s)  BY <1>3, <1>5 DEF Fit, Counted
  <1>9. Placed(s, "loop")
    BY <1>3, <1>5 DEF Placed, Auditing, Launching
  <1>10. QED  BY <1>1, <1>2, <1>5, <1>6, <1>7, <1>8, <1>9, SaveKeeps DEF Fit

LEMMA ObserveRunningKeeps == ASSUME SupervisorInv, ObserveRunning PROVE SupervisorInv'
  <1> DEFINE p == IF files[mem.campaign].health = "none" THEN mem.phase ELSE "capturing"
             s == [mem EXCEPT !.phase = p]
  <1>1. /\ pc = "observe" /\ Save(s, "loop") /\ UNCHANGED <<host, task, relaunches>>
    BY DEF ObserveRunning, At, Quiet
  <1>2. pc \in Working /\ "loop" \in Working
    BY <1>1 DEF Working
  <1>3. mem \in States /\ Fit(mem) /\ mem.phase \notin {"paused", "stopped"}
    BY <1>1, <1>2, WorkingMem
  <1>4. p \in Phases /\ p \in {mem.phase, "capturing"}
    BY <1>3, StateFields DEF Phases
  <1> HIDE DEF p
  <1>5. /\ s \in States /\ s.phase = p /\ s.campaign = mem.campaign
        /\ s.boot = mem.boot /\ s.retries = mem.retries /\ s.graceful = mem.graceful
        /\ s.container = mem.container
    BY <1>3, <1>4, NewPhase
  <1> HIDE DEF s
  <1>6. Permits(s) => s.phase = mem.phase
    BY <1>4, <1>5 DEF Permits
  <1>7. Fit(s)  BY <1>3, <1>5, <1>6, FitLike
  <1>8. Placed(s, "loop")
    BY <1>3, <1>4, <1>5 DEF Placed, Auditing, Launching
  <1>9. QED  BY <1>1, <1>2, <1>5, <1>7, <1>8, SaveKeeps

LEMMA RebindKeeps == ASSUME SupervisorInv, Rebind PROVE SupervisorInv'
  <1> DEFINE s == [mem EXCEPT !.container = box.id, !.phase = "auditing"]
  <1>1. /\ pc = "rebind" /\ Save(s, "quiesce") /\ UNCHANGED <<host, task, relaunches>>
        /\ Interrupted(files[mem.campaign]) /\ box.campaign = mem.campaign
    BY DEF Rebind, At, Quiet, CanRebind
  <1>2. pc \in Working /\ "quiesce" \in Working
    BY <1>1 DEF Working
  <1>3. /\ mem \in States /\ Fit(mem) /\ mem.phase \notin {"paused", "stopped"}
        /\ mem.boot # boot
    BY <1>1, <1>2, WorkingMem DEF SupervisorInv, Place, Placed
  <1>4. box.id \in Containers /\ box.campaign \in Campaigns
    BY BoxFields DEF SupervisorInv, TypeOK
  <1>5. /\ s \in States /\ s.phase = "auditing" /\ s.campaign = mem.campaign
        /\ s.boot = mem.boot /\ s.retries = mem.retries /\ s.graceful = mem.graceful
        /\ s.container = box.id
    BY <1>3, <1>4 DEF States, Phases
  <1> HIDE DEF s
  <1>6. ~ Permits(s)  BY <1>5 DEF Permits
  <1>7. Fit(s)  BY <1>3, <1>5, <1>6, FitLike
  <1>8. ~ Live  BY <1>3 DEF Fit, Named
  <1>9. files[mem.campaign].flaw # "chunk" /\ AnsweredIn(mem, mem.campaign)
    BY <1>1, <1>4 DEF Interrupted, AnsweredIn, SupervisorInv, FilesSound
  <1>10. Placed(s, "quiesce")
    BY <1>1, <1>4, <1>5, <1>8, <1>9 DEF Placed, Auditing, Launching, AnsweredIn, Silent
  <1>11. QED  BY <1>1, <1>2, <1>5, <1>7, <1>10, SaveKeeps

LEMMA AuditBeginKeeps == ASSUME SupervisorInv, AuditBegin PROVE SupervisorInv'
  <1> DEFINE s == [mem EXCEPT !.phase = "auditing"]
  <1>1. /\ pc = "auditBegin" /\ Save(s, "auditClear") /\ UNCHANGED <<host, task, relaunches>>
    BY DEF AuditBegin, At, Quiet
  <1>2. pc \in Working /\ "auditClear" \in Working
    BY <1>1 DEF Working
  <1>3. mem \in States /\ Fit(mem) /\ mem.phase \notin {"paused", "stopped"}
    BY <1>1, <1>2, WorkingMem
  <1>4. "auditing" \in Phases  BY DEF Phases
  <1>5. /\ s \in States /\ s.phase = "auditing" /\ s.campaign = mem.campaign
        /\ s.boot = mem.boot /\ s.retries = mem.retries /\ s.graceful = mem.graceful
        /\ s.container = mem.container
    BY <1>3, <1>4, NewPhase
  <1> HIDE DEF s
  <1>6. ~ Permits(s)  BY <1>5 DEF Permits
  <1>7. Fit(s)  BY <1>3, <1>5, <1>6, FitLike
  <1>8. Placed(s, "auditClear")
    BY <1>1, <1>5 DEF SupervisorInv, Place, Placed, Auditing, Launching, AnsweredIn
  <1>9. QED  BY <1>1, <1>2, <1>5, <1>7, <1>8, SaveKeeps

\* The three saves of an audit that change only the verifier's identity.
LEMMA AuditSaveKeeps ==
    ASSUME SupervisorInv, UNCHANGED <<host, task, relaunches>>,
           NEW a \in Campaigns \cup {None}, NEW next,
           \/ pc = "auditForget" /\ next = "auditCreate"
           \/ pc = "auditLatch" /\ next = "auditRun"
           \/ pc = "auditDrop" /\ next = "gap",
           Save([mem EXCEPT !.audit = a], next)
    PROVE  SupervisorInv'
  <1> DEFINE s == [mem EXCEPT !.audit = a]
  <1>1. pc \in Working /\ next \in Working /\ pc # "conclude" /\ next # "conclude"
    BY DEF Working
  <1>2. mem \in States /\ Fit(mem) /\ mem.phase \notin {"paused", "stopped"}
    BY <1>1, WorkingMem
  <1>3. /\ s \in States /\ s.phase = mem.phase /\ s.campaign = mem.campaign
        /\ s.boot = mem.boot /\ s.retries = mem.retries /\ s.graceful = mem.graceful
        /\ s.container = mem.container
    BY <1>2, NewAudit
  <1> HIDE DEF s
  <1>4. Fit(s)  BY <1>2, <1>3, FitLike
  <1>5. Placed(mem, pc)  BY DEF SupervisorInv, Place
  <1>6. Placed(s, next)
    BY <1>2, <1>3, <1>5 DEF Placed, Auditing, Launching, AnsweredIn
  <1>7. Save(s, next)  BY DEF s
  <1>8. QED  BY <1>1, <1>3, <1>4, <1>6, <1>7, SaveKeeps

LEMMA AuditForgetKeeps == ASSUME SupervisorInv, AuditForget PROVE SupervisorInv'
  BY AuditSaveKeeps DEF AuditForget, At, Quiet

LEMMA AuditDropKeeps == ASSUME SupervisorInv, AuditDrop PROVE SupervisorInv'
  BY AuditSaveKeeps DEF AuditDrop, At, Quiet

LEMMA AuditLatchKeeps == ASSUME SupervisorInv, AuditLatch PROVE SupervisorInv'
  <1>1. mem.campaign \in Campaigns \cup {None}
    BY StateFields DEF SupervisorInv, TypeOK
  <1>2. QED  BY <1>1, AuditSaveKeeps DEF AuditLatch, At, Quiet

\* A step of run that saves nothing and neither closes nor launches anything.
LEMMA QuietKeeps ==
    ASSUME SupervisorInv, UNCHANGED <<boot, box, files, relaunches, disk>>,
           pc \in Working, pc # "conclude",
           NEW s \in States, Fit(s), mem' = s,
           NEW next \in Working, next # "conclude", pc' = next,
           task' \in {"complete", "transport", "boot", None},
           job' \in Campaigns \cup {None}, auditBox' \in Campaigns \cup {None},
           Placed(s, next)', next \in Launching => disk = s
    PROVE  SupervisorInv'
  <1>1. HostStep /\ FilesSound'  BY SameHost
  <1>2. TypeOK'  BY DEF SupervisorInv, TypeOK
  <1>3. Stopped'  BY DEF Stopped, Working
  <1>4. Placed(mem, pc)'
    BY DEF Placed, Permits, AnsweredIn
  <1>5. QED  BY <1>1, <1>2, <1>3, <1>4, StepKeeps

LEMMA LoopKeeps == ASSUME SupervisorInv, Loop PROVE SupervisorInv'
  <1> DEFINE next == IF mem.boot # boot THEN "rebind"
                     ELSE IF mem.phase \in {"retry-wait", "between-campaigns"} THEN "verify"
                     ELSE "observe"
  <1>1. /\ pc = "loop" /\ pc' = next /\ mem' = mem
        /\ UNCHANGED <<boot, box, files, job, auditBox, relaunches, disk, task>>
    BY DEF Loop, At, Quiet, host
  <1>2. pc \in Working /\ next \in Working /\ next \in {"rebind", "verify", "observe"}
    BY <1>1 DEF Working
  <1>3. mem \in States /\ Fit(mem) /\ mem.phase \notin {"paused", "stopped"}
    BY <1>1, <1>2, WorkingMem
  <1>4. /\ next = "rebind" => mem.boot # boot
        /\ next = "verify" => Permits(mem)
    BY DEF Permits
  <1>5. PICK m \in States, n \in Working : m = mem /\ n = next  BY <1>2, <1>3
  <1> HIDE DEF next
  <1>6. Placed(m, n)'
    BY <1>1, <1>2, <1>3, <1>4, <1>5 DEF Placed, Auditing, Launching, Permits
  <1>7. /\ task' \in {"complete", "transport", "boot", None}
        /\ job' \in Campaigns \cup {None} /\ auditBox' \in Campaigns \cup {None}
    BY <1>1 DEF SupervisorInv, TypeOK
  <1>8. n \notin Launching /\ n # "conclude"  BY <1>2, <1>5 DEF Launching
  <1>9. QED  BY <1>1, <1>2, <1>3, <1>5, <1>6, <1>7, <1>8, QuietKeeps

LEMMA ObserveEndedKeeps == ASSUME SupervisorInv, ObserveEnded PROVE SupervisorInv'
  <1>1. /\ pc = "observe" /\ pc' = "auditBegin" /\ mem' = mem
        /\ box.campaign = mem.campaign /\ ~ Running(box)
        /\ \/ /\ task' = "complete" /\ Completed(files[mem.campaign])
           \/ /\ task' = "transport" /\ TransportFailure(files[mem.campaign])
        /\ UNCHANGED <<boot, box, files, job, auditBox, relaunches, disk>>
    BY DEF ObserveEnded, At, Quiet, host, CanClose, VerifyCurrent
  <1>2. pc \in Working /\ "auditBegin" \in Working
    BY <1>1 DEF Working
  <1>3. mem \in States /\ Fit(mem) /\ mem.phase \notin {"paused", "stopped"}
    BY <1>1, <1>2, WorkingMem
  <1>4. box.campaign \in Campaigns  BY BoxFields DEF SupervisorInv, TypeOK
  <1>5. /\ Silent(mem.campaign) /\ files[mem.campaign].flaw # "chunk"
        /\ AnsweredIn(mem, mem.campaign)
    BY <1>1, <1>4 DEF Silent, Live, Writing, Running, ExitStages, Completed, TransportFailure,
                      AnsweredIn, SupervisorInv, FilesSound
  <1>6. PICK m \in States : m = mem  BY <1>3
  <1>7. Placed(m, "auditBegin")'
    BY <1>1, <1>3, <1>4, <1>5, <1>6
       DEF Placed, Auditing, Launching, AnsweredIn, Silent, Live, Writing
  <1>8. /\ task' \in {"complete", "transport", "boot", None}
        /\ job' \in Campaigns \cup {None} /\ auditBox' \in Campaigns \cup {None}
    BY <1>1 DEF SupervisorInv, TypeOK
  <1>9. "auditBegin" \notin Launching  BY DEF Launching
  <1>10. QED  BY <1>1, <1>2, <1>3, <1>6, <1>7, <1>8, <1>9, QuietKeeps

LEMMA QuiesceKeeps == ASSUME SupervisorInv, Quiesce PROVE SupervisorInv'
  <1>1. /\ pc = "quiesce" /\ pc' = "auditBegin" /\ mem' = mem /\ task' = "boot"
        /\ IF Running(box) THEN BoxStopped ELSE UNCHANGED <<box, files>>
        /\ UNCHANGED <<boot, job, auditBox, relaunches, disk>>
    BY DEF Quiesce, At
  <1>2. TypeOK /\ FilesSound /\ Placed(mem, "quiesce") /\ pc \in Working
    BY <1>1 DEF SupervisorInv, Place, Working
  <1>3. mem \in States /\ Fit(mem) /\ mem.phase \notin {"paused", "stopped"}
    BY <1>1, <1>2, WorkingMem
  <1>4. HostStep /\ FilesSound' /\ box' \in Boxes /\ files' \in [Campaigns -> Files] /\ ~ Live'
    <2>1. CASE Running(box)
      BY <1>1, <1>2, <2>1, StoppedQuietly DEF ContainerStep
    <2>2. CASE ~ Running(box)
      <3>1. UNCHANGED <<boot, box, files>>  BY <1>1, <2>2
      <3>2. ~ Live'  BY <2>2, <3>1 DEF Live, Writing, Running, ExitStages
      <3>3. QED  BY <1>2, <3>1, <3>2, SameHost DEF TypeOK
    <2>3. QED  BY <2>1, <2>2
  <1>5. TypeOK'
    BY <1>1, <1>2, <1>4 DEF TypeOK, Working
  <1>6. Grown(files[mem.campaign], files'[mem.campaign])
    BY <1>2, <1>4 DEF Placed, HostStep
  <1>7. Placed(mem, pc)'
    BY <1>1, <1>2, <1>3, <1>4, <1>6
       DEF Placed, Auditing, Launching, AnsweredIn, Silent, Grown
  <1>8. Stopped' /\ pc' \notin Launching
    BY <1>1 DEF Stopped, Launching
  <1>9. QED  BY <1>1, <1>3, <1>4, <1>5, <1>7, <1>8, StepKeeps

LEMMA AuditClearKeeps == ASSUME SupervisorInv, AuditClear PROVE SupervisorInv'
  <1> DEFINE s == [mem EXCEPT !.audit = Leftover]
  <1>1. /\ pc = "auditClear" /\ pc' \in {"auditCreate", "auditForget"} /\ mem' = s
        /\ auditBox' \in {auditBox, None}
        /\ UNCHANGED <<boot, box, files, job, relaunches, disk, task>>
    BY DEF AuditClear, At
  <1>2. pc \in Working /\ pc' \in Working
    BY <1>1 DEF Working
  <1>3. mem \in States /\ Fit(mem) /\ mem.phase \notin {"paused", "stopped"}
    BY <1>1, <1>2, WorkingMem
  <1>4. Leftover \in Campaigns \cup {None}
    BY <1>3, StateFields DEF Leftover, SupervisorInv, TypeOK
  <1>5. /\ s \in States /\ s.phase = mem.phase /\ s.campaign = mem.campaign
        /\ s.boot = mem.boot /\ s.retries = mem.retries /\ s.graceful = mem.graceful
        /\ s.container = mem.container
    BY <1>3, <1>4, NewAudit
  <1>6. PICK m \in States, n \in Working : m = s /\ n = pc'
    BY <1>2, <1>5
  <1> HIDE DEF s
  <1>7. Fit(m)  BY <1>3, <1>5, <1>6, FitLike
  <1>8. Placed(mem, "auditClear")  BY <1>1 DEF SupervisorInv, Place
  <1>9. Placed(m, n)'
    BY <1>1, <1>3, <1>5, <1>6, <1>8
       DEF Placed, Auditing, Launching, AnsweredIn, Silent, Live, Writing
  <1>10. /\ task' \in {"complete", "transport", "boot", None}
         /\ job' \in Campaigns \cup {None} /\ auditBox' \in Campaigns \cup {None}
    BY <1>1 DEF SupervisorInv, TypeOK
  <1>11. n \notin Launching /\ n # "conclude" /\ mem' = m /\ pc' = n
    BY <1>1, <1>6 DEF Launching
  <1>12. QED  BY <1>1, <1>2, <1>7, <1>9, <1>10, <1>11, QuietKeeps

\* The two steps of an audit that change only the verifier's container.
LEMMA AuditBoxKeeps ==
    ASSUME SupervisorInv, NEW next,
           \/ pc = "auditCreate" /\ next = "auditLatch"
           \/ pc = "auditRemove" /\ next = "auditDrop",
           pc' = next, auditBox' \in Campaigns \cup {None},
           UNCHANGED <<mem, disk, task, boot, job, box, files, relaunches>>
    PROVE  SupervisorInv'
  <1>1. pc \in Working /\ next \in Working /\ next # "conclude" /\ pc # "conclude"
    BY DEF Working
  <1>2. mem \in States /\ Fit(mem) /\ mem.phase \notin {"paused", "stopped"}
    BY <1>1, WorkingMem
  <1>3. PICK m \in States : m = mem  BY <1>2
  <1>4. Placed(mem, pc)  BY DEF SupervisorInv, Place
  <1>5. Placed(m, next)'
    BY <1>2, <1>3, <1>4 DEF Placed, Auditing, Launching, AnsweredIn, Silent, Live, Writing
  <1>6. /\ task' \in {"complete", "transport", "boot", None}
        /\ job' \in Campaigns \cup {None}
    BY DEF SupervisorInv, TypeOK
  <1>7. next \notin Launching  BY DEF Launching
  <1>8. QED  BY <1>1, <1>2, <1>3, <1>5, <1>6, <1>7, QuietKeeps

LEMMA AuditCreateKeeps == ASSUME SupervisorInv, AuditCreate PROVE SupervisorInv'
  <1>1. mem.campaign \in Campaigns \cup {None}
    BY StateFields DEF SupervisorInv, TypeOK
  <1>2. QED  BY <1>1, AuditBoxKeeps DEF AuditCreate, At

LEMMA AuditRemoveKeeps == ASSUME SupervisorInv, AuditRemove PROVE SupervisorInv'
  BY AuditBoxKeeps DEF AuditRemove, At

\* A record added to the files of the audited campaign.
LEMMA RecordGrows ==
    ASSUME SupervisorInv, mem.campaign \in Campaigns, NEW f \in Files,
           Grown(files[mem.campaign], f), Report(mem.campaign, f), UNCHANGED <<boot, box>>
    PROVE  /\ files' \in [Campaigns -> Files] /\ files'[mem.campaign] = f
           /\ HostStep /\ FilesSound' /\ Live' = Live
  <1>1. /\ files' \in [Campaigns -> Files] /\ files'[mem.campaign] = f
        /\ \A d \in Campaigns : d # mem.campaign => files'[d] = files[d]
    BY Report1 DEF SupervisorInv, TypeOK
  <1>2. \A c \in Campaigns : Grown(files[c], files'[c])
    BY <1>1 DEF Grown
  <1>3. Live' = Live  BY DEF Live, Writing
  <1>4. HostStep  BY <1>2, <1>3 DEF HostStep
  <1>5. box.campaign \in Campaigns  BY BoxFields DEF SupervisorInv, TypeOK
  <1>6. FilesSound'
    BY <1>2, <1>5 DEF FilesSound, SupervisorInv, Writing, Grown
  <1>7. QED  BY <1>1, <1>3, <1>4, <1>6

LEMMA AuditRunKeeps == ASSUME SupervisorInv, AuditRun PROVE SupervisorInv'
  <1> DEFINE f == [files[mem.campaign] EXCEPT !.closure = TRUE]
  <1>1. /\ pc = "auditRun" /\ pc' = "auditRemove" /\ Judged(files[mem.campaign])
        /\ Report(mem.campaign, f)
        /\ UNCHANGED <<mem, disk, task, boot, job, box, auditBox, relaunches>>
    BY DEF AuditRun, At
  <1>2. pc \in Working /\ "auditRemove" \in Working
    BY <1>1 DEF Working
  <1>3. mem \in States /\ Fit(mem) /\ mem.phase \notin {"paused", "stopped"}
    BY <1>1, <1>2, WorkingMem
  <1>4. Placed(mem, "auditRun") /\ mem.campaign \in Campaigns
    BY <1>1 DEF SupervisorInv, Place, Placed, Auditing
  <1>5. files[mem.campaign] \in Files  BY <1>4 DEF SupervisorInv, TypeOK
  <1>6. f \in Files /\ Grown(files[mem.campaign], f) /\ f.closure
    BY <1>5 DEF Files, Grown
  <1> HIDE DEF f
  <1>7. /\ files' \in [Campaigns -> Files] /\ files'[mem.campaign] = f
        /\ HostStep /\ FilesSound' /\ Live' = Live
    BY <1>1, <1>4, <1>6, RecordGrows
  <1>8. TypeOK'
    BY <1>1, <1>2, <1>7 DEF SupervisorInv, TypeOK
  <1>9. files[mem.campaign].flaw = "none" /\ files[mem.campaign].sealed # "torn"
    <2>1. files[mem.campaign].flaw \in {"none", "chunk", "sealed"}
      BY <1>5, FileFields
    <2>2. QED  BY <1>1, <1>4, <2>1 DEF Judged, Placed, Auditing
  <1>10. Placed(mem, pc)'
    BY <1>1, <1>3, <1>4, <1>6, <1>7, <1>9
       DEF Placed, Auditing, Launching, AnsweredIn, Silent, Grown
  <1>11. Stopped' /\ pc' \notin Launching
    BY <1>1 DEF Stopped, Launching
  <1>12. QED  BY <1>1, <1>3, <1>7, <1>8, <1>10, <1>11, StepKeeps

LEMMA RecordGapKeeps == ASSUME SupervisorInv, RecordGap PROVE SupervisorInv'
  <1> DEFINE g == IF files[mem.campaign].gap = None THEN Reason ELSE files[mem.campaign].gap
             f == [files[mem.campaign] EXCEPT !.gap = g]
             s == [mem EXCEPT !.retries = Retries]
  <1>1. /\ pc = "gap" /\ pc' = "conclude" /\ CanRecord /\ mem' = s
        /\ Report(mem.campaign, f)
        /\ UNCHANGED <<disk, task, boot, job, box, auditBox, relaunches>>
    BY DEF RecordGap, At
  <1>2. pc \in Working /\ "conclude" \in Working
    BY <1>1 DEF Working
  <1>3. /\ mem \in States /\ Fit(mem) /\ mem.phase \notin {"paused", "stopped"}
        /\ mem.retries \in Nat /\ mem.retries <= MaxRetries
    BY <1>1, <1>2, WorkingMem, StateFields, FitHasRetries
  <1>4. Placed(mem, "gap") /\ mem.campaign \in Campaigns /\ task \in {"complete", "transport", "boot"}
    BY <1>1 DEF SupervisorInv, Place, Placed, Auditing
  <1>5. files[mem.campaign] \in Files  BY <1>4 DEF SupervisorInv, TypeOK
  <1>6. Reason \in Gaps /\ g \in Gaps \cup {None} /\ g # None
    BY <1>4, <1>5, FileFields, NoneAssumption DEF Reason, Gaps
  <1>7. f \in Files /\ Grown(files[mem.campaign], f) /\ f.gap # None
    <2> HIDE DEF g
    <2>1. QED  BY <1>5, <1>6 DEF Files, Grown
  <1> HIDE DEF f
  <1>8. /\ files' \in [Campaigns -> Files] /\ files'[mem.campaign] = f
        /\ HostStep /\ FilesSound' /\ Live' = Live
    BY <1>1, <1>4, <1>7, RecordGrows
  <1>9. /\ Retries \in Nat /\ Retries <= MaxRetries
        /\ task = "complete" => Retries = 0
        /\ task = "transport" => Retries = mem.retries + 1
        /\ task = "boot" => Retries = mem.retries
    BY <1>1, <1>3, <1>4, RetriesAssumption DEF Retries, CanRecord
  <1>10. /\ s \in States /\ s.retries = Retries /\ s.phase = mem.phase
         /\ s.campaign = mem.campaign /\ s.boot = mem.boot
         /\ s.graceful = mem.graceful /\ s.container = mem.container
    BY <1>3, <1>9, NewRetries
  <1> HIDE DEF s
  <1>11. PICK m \in States : m = s  BY <1>10
  <1>12. TypeOK'
    BY <1>1, <1>2, <1>8, <1>10 DEF SupervisorInv, TypeOK
  <1>13. m.phase = "auditing"
    BY <1>4, <1>10, <1>11 DEF Placed, Auditing
  <1>14. Backed(m) /\ Named(m)
    BY <1>3, <1>10, <1>11, <1>13 DEF Fit, Backed, Named, Permits
  <1>15. Backed(m)' /\ Named(m)'  BY <1>8, <1>14, BackedStays, NamedStays
  <1>16. relaunches \in Nat /\ relaunches <= mem.retries
    BY <1>3, <1>4 DEF Fit, Counted, SupervisorInv, TypeOK
  <1>17. task # "complete" => Counted(m)'
    BY <1>1, <1>3, <1>4, <1>9, <1>10, <1>11, <1>13, <1>16 DEF Counted
  <1>18. PICK d \in States : d = disk /\ Fit(d)  BY DiskFit
  <1>19. Fit(d)'  BY <1>1, <1>8, <1>18, FitStays
  <1>20. Backed(disk)' /\ Named(disk)' /\ Counted(disk)'
    BY <1>1, <1>18, <1>19 DEF Fit, Backed, Named, Counted, Permits, AnsweredIn
  <1>21. /\ Backed(mem)' /\ Named(mem)' /\ (mem.retries <= MaxRetries)'
         /\ task # "complete" => Counted(mem)'
    BY <1>1, <1>9, <1>10, <1>11, <1>15, <1>17 DEF Backed, Named, Counted, Permits, AnsweredIn
  <1>22. Documents'
    BY <1>1, <1>20, <1>21 DEF Documents
  <1>23. Placed(mem, pc)' /\ pc' \notin Launching
    BY <1>1, <1>2, <1>3, <1>4, <1>7, <1>8, <1>10, <1>13, <1>11
       DEF Placed, Auditing, Launching, AnsweredIn, Silent, Grown
  <1>24. Concluding'
    BY <1>1, <1>3, <1>7, <1>8, <1>9, <1>10, <1>16 DEF Concluding
  <1>25. Stopped' /\ RetryBudget'
    BY <1>1 DEF Stopped, RetryBudget, SupervisorInv
  <1>26. QED  BY <1>8, <1>12, <1>22, <1>23, <1>24, <1>25 DEF SupervisorInv, Place

\* As DocumentsKept, where the count of launches changes too.
LEMMA DocumentsNext ==
    ASSUME NEW s \in States, NEW d \in States, Fit(s)', Fit(d)',
           mem' \in {s, Paused(s)}, disk' = d, relaunches' <= MaxRetries
    PROVE  mem' \in States /\ disk' \in States /\ Documents' /\ RetryBudget'
  <1> DEFINE p == Paused(s)
  <1>1. /\ p \in States /\ p.phase = "paused" /\ p.retries = s.retries
        /\ p.campaign = s.campaign /\ p.boot = s.boot /\ p.container = s.container
    BY PausedState
  <1> HIDE DEF p
  <1>2. Fit(p)'
    <2>1. Backed(p)'  BY <1>1 DEF Fit, Backed, Permits
    <2>2. Named(p)'  BY <1>1 DEF Fit, Named
    <2>3. Counted(p)'  BY <1>1 DEF Fit, Counted
    <2>4. QED  BY <2>1, <2>2, <2>3 DEF Fit
  <1>3. PICK m \in States : mem' = m /\ Fit(m)'
    BY <1>1, <1>2 DEF p
  <1>4. Backed(mem)' /\ Named(mem)' /\ Counted(mem)'
    BY <1>3 DEF Fit, Backed, Named, Counted, Permits, AnsweredIn
  <1>5. Backed(disk)' /\ Named(disk)' /\ Counted(disk)'
    BY DEF Fit, Backed, Named, Counted, Permits, AnsweredIn
  <1>6. QED  BY <1>3, <1>4, <1>5 DEF Documents, Counted, RetryBudget

LEMMA ConcludeKeeps == ASSUME SupervisorInv, Conclude PROVE SupervisorInv'
  <1> DEFINE p == IF task = "transport" THEN "retry-wait" ELSE "between-campaigns"
             t == [mem EXCEPT !.phase = p]
             next == IF task = "transport" THEN "loop" ELSE "verify"
  <1>1. /\ pc = "conclude" /\ Save(t, next) /\ task' = None
        /\ relaunches' = IF task = "complete" THEN 0 ELSE relaunches
        /\ UNCHANGED <<boot, job, box, auditBox, files>>
    BY DEF Conclude, At, host
  <1>2. /\ pc \in Working /\ mem \in States /\ disk \in States /\ relaunches \in Nat
        /\ TypeOK /\ FilesSound
    BY <1>1 DEF SupervisorInv, TypeOK, Working
  <1>3. /\ Placed(mem, "conclude") /\ mem.campaign \in Campaigns
        /\ task \in {"complete", "transport", "boot"}
        /\ Closed(mem.campaign) /\ AnsweredIn(mem, mem.campaign)
    BY <1>1 DEF SupervisorInv, Place, Placed, Auditing, Concluding, Closed
  <1>4. /\ p \in Phases /\ p \in {"retry-wait", "between-campaigns"}
        /\ next \in {"loop", "verify"} /\ next \in Working
        /\ p = "retry-wait" <=> task = "transport"
    BY DEF Phases, Working
  <1> HIDE DEF p, next
  <1>5. PICK s \in States :
           /\ s = t /\ s.phase = p /\ s.campaign = mem.campaign
           /\ s.boot = mem.boot /\ s.retries = mem.retries /\ s.graceful = mem.graceful
           /\ s.container = mem.container /\ mem.retries \in Nat
    <2>1. /\ t \in States /\ t.phase = p /\ t.campaign = mem.campaign
          /\ t.boot = mem.boot /\ t.retries = mem.retries /\ t.graceful = mem.graceful
          /\ t.container = mem.container
      BY <1>2, <1>4, NewPhase
    <2> HIDE DEF t
    <2>2. QED  BY <1>2, <2>1, StateFields
  <1> HIDE DEF t
  <1>6. HostStep /\ FilesSound'  BY <1>1, SameHost
  <1>7. Fit(s)'
    <2>1. Backed(s)
      BY <1>1, <1>3, <1>5 DEF Backed, Permits, AnsweredIn, SupervisorInv, Documents
    <2>2. Named(s)
      BY <1>1, <1>5 DEF Named, SupervisorInv, Documents
    <2>3. Counted(s)'
      <3>1. mem.retries <= MaxRetries  BY DEF SupervisorInv, Documents
      <3>2. CASE task = "complete"
        BY <1>1, <1>4, <1>5, <3>1, <3>2 DEF Counted
      <3>3. CASE task = "transport"
        BY <1>1, <1>2, <1>4, <1>5, <3>1, <3>3 DEF Counted, SupervisorInv, Concluding
      <3>4. CASE task = "boot"
        <4>1. relaunches <= mem.retries
          BY <1>1, <1>3, <3>4 DEF Counted, SupervisorInv, Documents, Placed, Auditing
        <4>2. QED  BY <1>1, <1>2, <1>4, <1>5, <3>1, <3>4, <4>1 DEF Counted
      <3>5. QED  BY <1>3, <3>2, <3>3, <3>4
    <2>4. Backed(s)' /\ Named(s)'
      BY <1>5, <1>6, <2>1, <2>2, BackedStays, NamedStays
    <2>5. QED  BY <2>3, <2>4 DEF Fit
  <1>8. relaunches' \in Nat /\ relaunches' <= relaunches /\ relaunches' <= MaxRetries
    BY <1>1, <1>2, RetriesAssumption DEF SupervisorInv, RetryBudget
  <1>9. PICK k \in States : k = disk /\ Fit(k)  BY DiskFit
  <1>10. Fit(k)'
    <2>1. Backed(k)' /\ Named(k)'
      BY <1>6, <1>9, BackedStays, NamedStays DEF Fit
    <2>2. Counted(k)'
      BY <1>2, <1>8, <1>9, StateFields DEF Fit, Counted
    <2>3. QED  BY <2>1, <2>2 DEF Fit
  <1>11. /\ disk' \in {disk, s}
         /\ \/ mem' = s /\ disk' = s /\ pc' = next
            \/ mem' = Paused(s) /\ pc' = "failSave"
    BY <1>1, <1>2, <1>5, SaveShape
  <1>12. PICK d \in States : d = disk' /\ Fit(d)'
    BY <1>5, <1>7, <1>9, <1>10, <1>11
  <1>13. mem' \in {s, Paused(s)} /\ disk' = d /\ relaunches' <= MaxRetries
    BY <1>8, <1>11, <1>12
  <1>14. mem' \in States /\ disk' \in States /\ Documents' /\ RetryBudget'
    BY <1>5, <1>7, <1>12, <1>13, DocumentsNext
  <1>15. TypeOK'
    BY <1>1, <1>2, <1>4, <1>8, <1>11, <1>14, Places DEF TypeOK
  <1>16. Placed(mem, pc)' /\ pc' \notin Launching
    <2>1. CASE pc' = "failSave"
      BY <2>1 DEF Placed, Working, Auditing, Launching
    <2>2. CASE mem' = s /\ pc' = next
      BY <1>4, <1>5, <2>2 DEF Placed, Auditing, Launching, Permits
    <2>3. QED  BY <1>11, <2>1, <2>2
  <1>17. Concluding' /\ Stopped'
    BY <1>4, <1>11 DEF Concluding, Stopped
  <1>18. QED  BY <1>6, <1>14, <1>15, <1>16, <1>17 DEF SupervisorInv, Place

LEMMA VerifyKeeps == ASSUME SupervisorInv, Verify PROVE SupervisorInv'
  <1>1. pc = "verify" /\ Save(mem, "admit") /\ UNCHANGED <<host, task, relaunches>>
    BY DEF Verify, At, Quiet
  <1>2. pc \in Working /\ "admit" \in Working
    BY <1>1 DEF Working
  <1>3. mem \in States /\ Fit(mem) /\ mem.phase \notin {"paused", "stopped"}
    BY <1>1, <1>2, WorkingMem
  <1>4. Placed(mem, "admit")
    BY <1>1, <1>3 DEF SupervisorInv, Place, Placed, Auditing, Launching
  <1>5. QED  BY <1>1, <1>2, <1>3, <1>4, SaveKeeps

LEMMA AdmitKeeps == ASSUME SupervisorInv, Admit PROVE SupervisorInv'
  <1> DEFINE t == [mem EXCEPT !.phase = "admitting", !.campaign = @ + 1, !.boot = boot,
                        !.container = None, !.confirmed = FALSE]
  <1>1. /\ pc = "admit" /\ Save(t, "update")
        /\ box.campaign = mem.campaign /\ mem.campaign < MaxCampaign
        /\ relaunches' = IF mem.phase = "retry-wait" /\ disk' # disk THEN relaunches + 1
                         ELSE relaunches
        /\ UNCHANGED <<boot, job, box, auditBox, files, task>>
    BY DEF Admit, At, host, CanLaunch, VerifyCurrent
  <1>2. /\ pc \in Working /\ mem \in States /\ disk \in States /\ relaunches \in Nat
        /\ TypeOK /\ FilesSound /\ Fit(mem) /\ boot \in Boots /\ mem.retries \in Nat
        /\ "update" \in Working
    BY <1>1, WorkingMem, StateFields DEF SupervisorInv, TypeOK, Working
  <1>3. /\ Permits(mem) /\ mem.campaign \in Campaigns /\ Closed(mem.campaign)
    BY <1>1, <1>2 DEF SupervisorInv, Place, Placed, Fit, Backed
  <1>4. mem.campaign + 1 \in Campaigns
    BY <1>1, <1>3, BoundsAssumption DEF Campaigns
  <1>5. PICK s \in States :
           /\ s = t /\ s.phase = "admitting" /\ s.campaign = mem.campaign + 1
           /\ s.boot = boot /\ s.retries = mem.retries
    <2>1. /\ t \in States /\ t.phase = "admitting" /\ t.campaign = mem.campaign + 1
          /\ t.boot = boot /\ t.retries = mem.retries
      BY <1>2, <1>4 DEF States, Phases
    <2> HIDE DEF t
    <2>2. QED  BY <2>1
  <1> HIDE DEF t
  <1>6. HostStep /\ FilesSound'  BY <1>1, SameHost
  <1>7. ~ Live  BY <1>1, <1>3 DEF Closed, Silent
  <1>8. Fit(s)'
    <2>1. ASSUME NEW c \in Campaigns, c < s.campaign  PROVE Closed(c)
      <3>1. c = mem.campaign \/ (c < mem.campaign /\ mem.campaign # None)
        BY <1>3, <1>5, <2>1, NoneAssumption DEF Campaigns
      <3>2. QED  BY <1>2, <1>3, <3>1 DEF Fit, Backed
    <2>2. Backed(s)  BY <1>5, <2>1 DEF Backed, Permits
    <2>3. Named(s)  BY <1>7 DEF Named
    <2>4. Backed(s)' /\ Named(s)'
      BY <1>5, <1>6, <2>2, <2>3, BackedStays, NamedStays
    <2>5. Counted(s)'
      BY <1>1, <1>2, <1>3, <1>5 DEF Fit, Counted, Permits
    <2>6. QED  BY <2>4, <2>5 DEF Fit
  <1>9. relaunches' \in Nat /\ relaunches' <= MaxRetries
    BY <1>1, <1>2, <1>3, RetriesAssumption DEF Fit, Counted, Permits
  <1>10. PICK k \in States : k = disk /\ Fit(k)  BY DiskFit
  <1>11. disk' = disk => Fit(k)'
    <2>1. Backed(k)' /\ Named(k)'
      BY <1>6, <1>10, BackedStays, NamedStays DEF Fit
    <2>2. disk' = disk => Counted(k)'
      BY <1>1, <1>10 DEF Fit, Counted
    <2>3. QED  BY <2>1, <2>2 DEF Fit
  <1>12. /\ disk' \in {disk, s}
         /\ \/ mem' = s /\ disk' = s /\ pc' = "update"
            \/ mem' = Paused(s) /\ pc' = "failSave"
    BY <1>1, <1>2, <1>5, SaveShape
  <1>13. PICK d \in States : d = disk' /\ Fit(d)'
    BY <1>5, <1>8, <1>10, <1>11, <1>12
  <1>14. mem' \in {s, Paused(s)} /\ disk' = d /\ relaunches' <= MaxRetries
    BY <1>9, <1>12, <1>13
  <1>15. mem' \in States /\ disk' \in States /\ Documents' /\ RetryBudget'
    BY <1>5, <1>8, <1>13, <1>14, DocumentsNext
  <1>16. TypeOK'
    BY <1>1, <1>2, <1>9, <1>12, <1>15, Places DEF TypeOK
  <1>17. Place'
    <2>1. CASE pc' = "failSave"
      BY <2>1 DEF Place, Placed, Working, Auditing, Launching
    <2>2. CASE mem' = s /\ disk' = s /\ pc' = "update"
      BY <1>1, <1>5, <2>2 DEF Place, Placed, Auditing, Launching
    <2>3. QED  BY <1>12, <2>1, <2>2
  <1>18. Concluding' /\ Stopped'
    BY <1>12 DEF Concluding, Stopped
  <1>19. QED  BY <1>6, <1>15, <1>16, <1>17, <1>18 DEF SupervisorInv

LEMMA UpdateKeeps == ASSUME SupervisorInv, Update PROVE SupervisorInv'
  <1>1. /\ pc = "update" /\ pc' = "await" /\ job' = mem.campaign
        /\ UNCHANGED <<mem, disk, task, boot, box, auditBox, files, relaunches>>
    BY DEF Update, At
  <1>2. pc \in Working /\ "await" \in Working /\ pc \in Launching
    BY <1>1 DEF Working, Launching
  <1>3. mem \in States /\ Fit(mem) /\ mem.phase \notin {"paused", "stopped"}
    BY <1>1, <1>2, WorkingMem
  <1>4. PICK m \in States : m = mem  BY <1>3
  <1>5. Placed(m, "await")' /\ disk = m
    BY <1>1, <1>2, <1>3, <1>4 DEF SupervisorInv, Place, Placed, Auditing, Launching
  <1>6. /\ task' \in {"complete", "transport", "boot", None}
        /\ job' \in Campaigns \cup {None} /\ auditBox' \in Campaigns \cup {None}
    BY <1>1, <1>3, StateFields DEF SupervisorInv, TypeOK
  <1>7. QED  BY <1>1, <1>2, <1>3, <1>4, <1>5, <1>6, QuietKeeps

LEMMA AwaitKeeps == ASSUME SupervisorInv, Await PROVE SupervisorInv'
  <1> DEFINE s == [mem EXCEPT !.container = box.id]
  <1>1. /\ pc = "await" /\ Save(s, "gate") /\ box.campaign = mem.campaign
        /\ UNCHANGED <<host, task, relaunches>>
    BY DEF Await, At, Quiet, Appeared
  <1>2. pc \in Working /\ "gate" \in Working
    BY <1>1 DEF Working
  <1>3. /\ mem \in States /\ Fit(mem) /\ mem.phase = "admitting" /\ mem.boot = boot
    BY <1>1, <1>2, WorkingMem DEF SupervisorInv, Place, Placed, Launching
  <1>4. box.id \in Containers \cup {None} /\ box.id[1] = box.campaign
    BY BoxFields DEF SupervisorInv, TypeOK, FilesSound
  <1>5. /\ s \in States /\ s.phase = mem.phase /\ s.campaign = mem.campaign
        /\ s.boot = mem.boot /\ s.retries = mem.retries /\ s.graceful = mem.graceful
        /\ s.container = box.id
    BY <1>3, <1>4, NewContainer
  <1> HIDE DEF s
  <1>6. Fit(s)  BY <1>3, <1>5, FitLike
  <1>7. Placed(s, "gate")
    BY <1>1, <1>3, <1>4, <1>5 DEF Placed, Auditing, Launching
  <1>8. QED  BY <1>1, <1>2, <1>5, <1>6, <1>7, SaveKeeps

LEMMA ConfirmKeeps == ASSUME SupervisorInv, Confirm PROVE SupervisorInv'
  <1> DEFINE s == [mem EXCEPT !.confirmed = TRUE, !.phase = "capturing"]
  <1>1. /\ pc = "confirm" /\ Save(s, "loop") /\ UNCHANGED <<host, task, relaunches>>
    BY DEF Confirm, At, Quiet
  <1>2. pc \in Working /\ "loop" \in Working
    BY <1>1 DEF Working
  <1>3. mem \in States /\ Fit(mem) /\ mem.phase \notin {"paused", "stopped"}
    BY <1>1, <1>2, WorkingMem
  <1>4. /\ s \in States /\ s.phase = "capturing" /\ s.campaign = mem.campaign
        /\ s.boot = mem.boot /\ s.retries = mem.retries /\ s.graceful = mem.graceful
        /\ s.container = mem.container
    BY <1>3 DEF States, Phases
  <1> HIDE DEF s
  <1>5. ~ Permits(s)  BY <1>4 DEF Permits
  <1>6. Fit(s)  BY <1>3, <1>4, <1>5, FitLike
  <1>7. Placed(s, "loop")
    BY <1>4 DEF Placed, Auditing, Launching
  <1>8. QED  BY <1>1, <1>2, <1>4, <1>6, <1>7, SaveKeeps

\* The gate opens for the container that both documents name.
LEMMA GateKeeps == ASSUME SupervisorInv, Gate PROVE SupervisorInv'
  <1>1. /\ pc = "gate" /\ pc' = "confirm" /\ box.id = mem.container
        /\ box' = [box EXCEPT !.gated = TRUE]
        /\ UNCHANGED <<mem, disk, task, boot, job, auditBox, files, relaunches>>
    BY DEF Gate, At, CanGate
  <1>2. /\ TypeOK /\ FilesSound /\ disk = mem /\ mem.phase = "admitting" /\ mem.boot = boot
        /\ mem.container[1] = mem.campaign
    BY <1>1 DEF SupervisorInv, Place, Placed, Launching
  <1>3. /\ box' \in Boxes /\ box'.stage = box.stage
        /\ box'.campaign = box.campaign /\ box'.id = box.id
    BY <1>1, <1>2 DEF TypeOK, Boxes
  <1>4. TypeOK'
    BY <1>1, <1>2, <1>3 DEF TypeOK, Working
  <1>5. FilesSound'
    BY <1>1, <1>2, <1>3 DEF FilesSound, Writing
  <1>6. box.campaign = mem.campaign /\ mem.campaign \in Int
    BY <1>1, <1>2, BoxFields DEF FilesSound, TypeOK, Campaigns
  <1>7. Backed(mem) /\ Counted(mem)
    BY <1>1 DEF SupervisorInv, Documents
  <1>8. Backed(mem)'
    <2>1. ~ Permits(mem)'  BY <1>1, <1>2 DEF Permits
    <2>2. ASSUME NEW c \in Campaigns, c < mem.campaign  PROVE Closed(c)'
      <3>1. Closed(c)  BY <1>6, <1>7, <2>2, NoneAssumption DEF Backed
      <3>2. c # box.campaign  BY <1>6, <2>2 DEF Campaigns
      <3>3. QED  BY <1>1, <1>3, <3>1, <3>2 DEF Closed, Silent
    <2>3. QED  BY <1>1, <2>1, <2>2 DEF Backed
  <1>9. Named(mem)'
    BY <1>1, <1>2, <1>3, <1>6 DEF Named
  <1>10. Counted(mem)'
    BY <1>1, <1>7 DEF Counted
  <1>11. Backed(disk)' /\ Named(disk)' /\ Counted(disk)'
    BY <1>1, <1>2, <1>8, <1>9, <1>10 DEF Backed, Named, Counted, Permits, AnsweredIn
  <1>12. Documents'
    BY <1>8, <1>9, <1>10, <1>11 DEF Documents, Counted
  <1>13. Place'
    BY <1>1, <1>2 DEF Place, Placed, Auditing, Launching
  <1>14. Concluding' /\ Stopped' /\ RetryBudget'
    BY <1>1 DEF Concluding, Stopped, RetryBudget, SupervisorInv
  <1>15. QED  BY <1>4, <1>5, <1>12, <1>13, <1>14 DEF SupervisorInv

-----------------------------------------------------------------------------
(* The process fails, is stopped and cleans up.                            *)

\* A step to a place outside run, on the document in memory or on state.json.
LEMMA LeaveKeeps ==
    ASSUME SupervisorInv, HostStep, FilesSound', UNCHANGED relaunches,
           box' \in Boxes, files' \in [Campaigns -> Files], boot' \in Boots,
           task' \in {task, None}, job' \in {job, None}, auditBox' \in {auditBox, None},
           NEW s \in States, Fit(s),
           mem' \in {s, Paused(s)}, disk' \in {disk, s, Paused(s)},
           pc' \in Failing \cup Cleaning \cup {"off"},
           pc' \in {"postAudit", "off"} /\ Live' => box'.campaign = 0
    PROVE  SupervisorInv'
  <1>1. mem' \in States /\ disk' \in States  BY DocumentsKept
  <1>2. TypeOK'  BY <1>1 DEF SupervisorInv, TypeOK
  <1>3. pc' \notin Working /\ pc' # "conclude"
    BY DEF Working, Failing, Cleaning
  <1>4. pc' \notin Launching  BY <1>3, Places
  <1>5. Stopped'  BY DEF Stopped
  <1>6. QED  BY <1>2, <1>3, <1>4, <1>5, StepKeeps

LEMMA FailKeeps ==
    ASSUME SupervisorInv, pc \in Working, Fail, UNCHANGED <<host, task, relaunches>>
    PROVE  SupervisorInv'
  <1>1. PICK s \in States : s = Paused(mem) /\ Fit(s)
    BY MemPausedFit, WorkingMem
  <1>2. HostStep /\ FilesSound'  BY SameHost DEF host
  <1>3. /\ mem' = s /\ disk' = disk /\ pc' = "failSave"
    BY <1>1 DEF Fail
  <1>4. pc' \in Failing /\ pc' \notin {"postAudit", "off"}  BY <1>3, Places
  <1>5. QED
    BY <1>1, <1>2, <1>3, <1>4, LeaveKeeps DEF host, SupervisorInv, TypeOK

LEMMA FaultKeeps == ASSUME SupervisorInv, Fault PROVE SupervisorInv'
  BY FailKeeps DEF Fault

LEMMA RefuseKeeps == ASSUME SupervisorInv, Refuse PROVE SupervisorInv'
  <1>1. pc \in Working
    BY DEF Refuse, At, Working
  <1>2. QED  BY <1>1, FailKeeps DEF Refuse

LEMMA ShutdownKeeps == ASSUME SupervisorInv, Shutdown PROVE SupervisorInv'
  <1>1. /\ pc \in Ticking /\ pc' = "failSave"
        /\ UNCHANGED <<host, disk, task, relaunches>>
    BY DEF Shutdown
  <1>2. pc \in Working /\ pc # "conclude"  BY <1>1, Places
  <1>3. mem \in States /\ Fit(mem) /\ mem.phase \notin {"paused", "stopped"}
    BY <1>2, WorkingMem
  <1>4. HostStep /\ FilesSound'  BY <1>1, SameHost DEF host
  <1>5. PICK s \in States : Fit(s) /\ mem' \in {s, Paused(s)}
    <2>1. CASE mem' = Paused(mem)
      BY <1>3, <2>1
    <2>2. ASSUME NEW s \in States, mem' = s, s.phase = "stopped",
                 s.retries = mem.retries, s.campaign = mem.campaign,
                 s.boot = mem.boot, s.container = mem.container
          PROVE  Fit(s)
      <3>1. Backed(s)  BY <1>3, <2>2 DEF Fit, Backed, Permits
      <3>2. Named(s)  BY <1>3, <2>2 DEF Fit, Named
      <3>3. Counted(s)  BY <1>3, <2>2 DEF Fit, Counted
      <3>4. QED  BY <3>1, <3>2, <3>3 DEF Fit
    <2>3. CASE mem' = [mem EXCEPT !.phase = "stopped"]
      <3>1. "stopped" \in Phases  BY DEF Phases
      <3>2. /\ mem' \in States /\ mem'.phase = "stopped"
            /\ mem'.retries = mem.retries /\ mem'.campaign = mem.campaign
            /\ mem'.boot = mem.boot /\ mem'.container = mem.container
        BY <1>3, <2>3, <3>1, NewPhase
      <3>3. QED  BY <2>2, <3>2
    <2>4. CASE /\ mem.campaign # None
               /\ mem' = [mem EXCEPT !.phase = "stopped", !.graceful = <<boot, mem.campaign>>]
      <3>1. mem.campaign \in Campaigns /\ boot \in Boots
        BY <1>3, <2>4, StateFields DEF SupervisorInv, TypeOK
      <3>2. /\ mem' \in States /\ mem'.phase = "stopped"
            /\ mem'.retries = mem.retries /\ mem'.campaign = mem.campaign
            /\ mem'.boot = mem.boot /\ mem'.container = mem.container
        BY <1>3, <2>4, <3>1 DEF States, Phases
      <3>3. QED  BY <2>2, <3>2
    <2>5. QED  BY <2>1, <2>3, <2>4 DEF Shutdown
  <1>6. pc' \in Failing /\ pc' \notin {"postAudit", "off"}  BY <1>1, Places
  <1>7. QED
    BY <1>1, <1>4, <1>5, <1>6, LeaveKeeps DEF host, SupervisorInv, TypeOK

LEMMA FailSaveKeeps == ASSUME SupervisorInv, FailSave PROVE SupervisorInv'
  <1>1. /\ pc = "failSave" /\ mem' = mem /\ disk' \in {disk, mem}
        /\ pc' = "failStop" /\ task' = None /\ UNCHANGED <<host, relaunches>>
    BY DEF FailSave, TrySave
  <1>2. mem \in States /\ Fit(mem)  BY <1>1, MemFit
  <1>3. HostStep /\ FilesSound'  BY <1>1, SameHost DEF host
  <1>4. pc' \in Failing /\ pc' \notin {"postAudit", "off"}  BY <1>1 DEF Failing
  <1>5. QED
    BY <1>1, <1>2, <1>3, <1>4, LeaveKeeps DEF host, SupervisorInv, TypeOK

\* Whatever the document names is stopped; only the adopted campaign may be left.
LEMMA StopCollectorKeeps ==
    ASSUME SupervisorInv, NEW answered \in BOOLEAN, NEW next,
           \/ pc = "failStop" /\ next = "failAudit"
           \/ pc = "postStop" /\ next = "postAudit" /\ answered,
           StopCollector(answered, next)
    PROVE  SupervisorInv'
  <1>1. /\ pc' = next /\ UNCHANGED <<boot, task, job, auditBox, relaunches>>
        /\ pc' \in Failing \cup Cleaning
    BY DEF StopCollector, Failing, Cleaning
  <1>2. mem \in States /\ Fit(mem) /\ TypeOK /\ FilesSound
    BY MemFit DEF SupervisorInv
  <1>3. box.id \in Containers /\ box.campaign \in Campaigns
    BY <1>2, BoxFields DEF TypeOK
  <1>4. CASE Owned /\ answered
    <2> DEFINE s == [mem EXCEPT !.container = box.id]
    <2>1. mem' = s /\ disk' \in {disk, s}
      BY <1>4 DEF StopCollector, TrySave
    <2>2. /\ s \in States /\ s.phase = mem.phase /\ s.campaign = mem.campaign
          /\ s.boot = mem.boot /\ s.retries = mem.retries /\ s.graceful = mem.graceful
          /\ s.container = box.id
      BY <1>2, <1>3, NewContainer
    <2> HIDE DEF s
    <2>3. Fit(s)  BY <1>2, <2>2, FitLike
    <2>4. /\ HostStep /\ FilesSound' /\ ~ Live'
          /\ box' \in Boxes /\ files' \in [Campaigns -> Files]
      <3>1. CASE Running(box)
        BY <1>1, <1>2, <1>4, <3>1, StoppedQuietly DEF StopCollector, ContainerStep
      <3>2. CASE ~ Running(box)
        <4>1. UNCHANGED <<boot, box, files>>  BY <1>1, <1>4, <3>2 DEF StopCollector
        <4>2. ~ Live'  BY <3>2, <4>1 DEF Live, Writing, Running, ExitStages
        <4>3. QED  BY <1>2, <4>1, <4>2, SameHost DEF TypeOK
      <3>3. QED  BY <3>1, <3>2
    <2>5. QED
      BY <1>1, <1>2, <2>1, <2>2, <2>3, <2>4, LeaveKeeps DEF TypeOK
  <1>5. CASE ~ (Owned /\ answered)
    <2>1. UNCHANGED <<mem, disk, box, files>>
      BY <1>5 DEF StopCollector
    <2>2. HostStep /\ FilesSound'  BY <1>1, <2>1, SameHost
    <2>3. Live' = Live  BY <2>1 DEF Live, Writing
    <2>4. pc' = "postAudit" /\ Live => box.campaign = 0
      BY <1>1, <1>2, <1>3, <1>5, NoneAssumption DEF Fit, Named, Owned, Campaigns
    <2>5. pc' # "off"  BY <1>1
    <2>6. QED
      BY <1>1, <1>2, <2>1, <2>2, <2>3, <2>4, <2>5, LeaveKeeps DEF TypeOK
  <1>6. QED  BY <1>4, <1>5

LEMMA StopAuditKeeps ==
    ASSUME SupervisorInv, NEW next,
           \/ pc = "failAudit" /\ next = "post"
           \/ pc = "postAudit" /\ next = "off",
           StopAudit(next)
    PROVE  SupervisorInv'
  <1>1. /\ pc' = next /\ UNCHANGED <<boot, task, job, box, files, relaunches>>
        /\ pc' \in Failing \cup Cleaning \cup {"off"} /\ auditBox' \in {auditBox, None}
    BY DEF StopAudit, Failing, Cleaning
  <1>2. mem \in States /\ Fit(mem) /\ TypeOK
    BY MemFit DEF SupervisorInv
  <1>3. HostStep /\ FilesSound' /\ Live' = Live
    BY <1>1, SameHost DEF Live, Writing
  <1>4. pc' \in {"postAudit", "off"} /\ Live => box.campaign = 0
    BY <1>1 DEF SupervisorInv, Stopped
  <1>5. PICK s \in States : Fit(s) /\ mem' = s /\ disk' \in {disk, s}
    <2> DEFINE t == [mem EXCEPT !.audit = None]
    <2>1. /\ t \in States /\ t.phase = mem.phase /\ t.campaign = mem.campaign
          /\ t.boot = mem.boot /\ t.retries = mem.retries /\ t.graceful = mem.graceful
          /\ t.container = mem.container
      BY <1>2, NewAudit
    <2>2. (mem' = mem /\ disk' = disk) \/ (mem' = t /\ disk' \in {disk, t})
      BY DEF StopAudit, TrySave
    <2> HIDE DEF t
    <2>3. Fit(t)  BY <1>2, <2>1, FitLike
    <2>4. QED  BY <1>2, <2>1, <2>2, <2>3
  <1>6. QED
    BY <1>1, <1>2, <1>3, <1>4, <1>5, LeaveKeeps DEF TypeOK

LEMMA CleanupKeeps == ASSUME SupervisorInv, Cleanup PROVE SupervisorInv'
  <1>1. CASE FailSave  BY <1>1, FailSaveKeeps
  <1>2. CASE FailStop
    <2>1. pc = "failStop"  BY <1>2 DEF FailStop
    <2>2. PICK answered \in BOOLEAN : StopCollector(answered, "failAudit")
      BY <1>2 DEF FailStop
    <2>3. QED  BY <2>1, <2>2, StopCollectorKeeps
  <1>3. CASE FailAudit  BY <1>3, StopAuditKeeps DEF FailAudit
  <1>4. CASE Post
    <2>1. /\ pc = "post" /\ pc' = "postStop" /\ mem' \in {disk, Paused(disk)}
          /\ disk' \in {disk, Paused(disk)} /\ UNCHANGED <<host, task, relaunches>>
      BY <1>4 DEF Post, TrySave
    <2>2. HostStep /\ FilesSound'  BY <2>1, SameHost DEF host
    <2>3. disk \in States /\ Fit(disk)  BY DiskFit
    <2>4. pc' \in Cleaning /\ pc' \notin {"postAudit", "off"}  BY <2>1 DEF Cleaning
    <2>5. QED
      BY <2>1, <2>2, <2>3, <2>4, LeaveKeeps DEF host, SupervisorInv, TypeOK
  <1>5. CASE PostStop
    <2>1. pc = "postStop" /\ StopCollector(TRUE, "postAudit")  BY <1>5 DEF PostStop
    <2>2. QED  BY <2>1, StopCollectorKeeps
  <1>6. CASE PostAudit  BY <1>6, StopAuditKeeps DEF PostAudit
  <1>7. QED  BY <1>1, <1>2, <1>3, <1>4, <1>5, <1>6 DEF Cleanup

LEMMA PauseKeeps == ASSUME SupervisorInv, Pause PROVE SupervisorInv'
  <1>1. /\ pc' = "postStop" /\ mem' = Paused(disk) /\ disk' \in {disk, Paused(disk)}
        /\ UNCHANGED <<host, task, relaunches>>
    BY DEF Pause, TrySave
  <1>2. HostStep /\ FilesSound'  BY <1>1, SameHost DEF host
  <1>3. disk \in States /\ Fit(disk)  BY DiskFit
  <1>4. pc' \in Cleaning /\ pc' \notin {"postAudit", "off"}  BY <1>1 DEF Cleaning
  <1>5. QED
    BY <1>1, <1>2, <1>3, <1>4, LeaveKeeps DEF host, SupervisorInv, TypeOK

LEMMA StartKeeps == ASSUME SupervisorInv, Start PROVE SupervisorInv'
  <1>1. pc = "off" /\ disk' = disk /\ UNCHANGED <<host, task, relaunches>>
    BY DEF Start
  <1>2. HostStep /\ FilesSound'  BY <1>1, SameHost DEF host
  <1>3. disk \in States /\ Fit(disk)  BY DiskFit
  <1>4. CASE mem' = disk /\ pc' = "post"
    <2>1. pc' \in Cleaning /\ pc' \notin {"postAudit", "off"}  BY <1>4 DEF Cleaning
    <2>2. QED
      BY <1>1, <1>2, <1>3, <1>4, <2>1, LeaveKeeps DEF host, SupervisorInv, TypeOK
  <1>5. CASE /\ ~ Exits(disk) /\ pc' = "admission"
             /\ mem' = [disk EXCEPT !.phase = IF NewBoot(disk) THEN "auditing" ELSE @]
    <2> DEFINE p == IF NewBoot(disk) THEN "auditing" ELSE disk.phase
               t == [disk EXCEPT !.phase = p]
    <2>1. /\ p \in Phases /\ p \in {disk.phase, "auditing"} /\ p \notin {"paused", "stopped"}
          /\ disk.phase # "paused"
      BY <1>3, <1>5, StateFields DEF Exits, Phases
    <2>2. mem' = t  BY <1>5
    <2> HIDE DEF p
    <2>3. /\ t \in States /\ t.phase = p /\ t.campaign = disk.campaign
          /\ t.boot = disk.boot /\ t.retries = disk.retries /\ t.graceful = disk.graceful
          /\ t.container = disk.container
      BY <1>3, <2>1, NewPhase
    <2> HIDE DEF t
    <2>4. Permits(t) => t.phase = disk.phase
      BY <2>1, <2>3 DEF Permits
    <2>5. Fit(t)  BY <1>3, <2>1, <2>3, <2>4, FitLike
    <2>6. TypeOK'
      BY <1>1, <1>5, <2>2, <2>3 DEF SupervisorInv, TypeOK, host, Working
    <2>7. Placed(mem, pc)' /\ pc' \notin Launching /\ Stopped'
      BY <1>5, <2>1, <2>2, <2>3 DEF Placed, Auditing, Launching, Stopped
    <2>8. pc' # "conclude"  BY <1>5
    <2>9. QED
      BY <1>1, <1>2, <2>2, <2>3, <2>5, <2>6, <2>7, <2>8, StepKeeps
  <1>6. QED  BY <1>4, <1>5 DEF Start

\* What is in memory is lost; the document of a completed audit may lag behind.
LEMMA KillKeeps == ASSUME SupervisorInv, Kill PROVE SupervisorInv'
  <1>1. /\ pc' = "post" /\ task' = None
        /\ UNCHANGED <<boot, job, box, auditBox, files, mem, disk, relaunches>>
    BY DEF Kill, host
  <1>2. HostStep /\ FilesSound'  BY <1>1, SameHost
  <1>3. PICK m \in States : m = mem /\ Backed(m) /\ m.retries <= MaxRetries
    BY DEF SupervisorInv, TypeOK, Documents
  <1>4. PICK d \in States : d = disk /\ Fit(d)  BY DiskFit
  <1>5. Backed(m)' /\ Fit(d)'  BY <1>1, <1>2, <1>3, <1>4, BackedStays, FitStays
  <1>6. Backed(mem)' /\ (mem.retries <= MaxRetries)'
    BY <1>1, <1>3, <1>5 DEF Backed, Permits, AnsweredIn
  <1>7. Backed(disk)' /\ Named(disk)' /\ Counted(disk)'
    BY <1>1, <1>4, <1>5 DEF Fit, Backed, Named, Counted, Permits, AnsweredIn
  <1>8. Documents'  BY <1>1, <1>6, <1>7 DEF Documents
  <1>9. TypeOK'  BY <1>1 DEF SupervisorInv, TypeOK, Cleaning
  <1>10. Place' /\ Concluding' /\ Stopped' /\ RetryBudget'
    BY <1>1 DEF Place, Placed, Working, Auditing, Launching, Concluding, Stopped,
                RetryBudget, SupervisorInv
  <1>11. QED  BY <1>2, <1>8, <1>9, <1>10 DEF SupervisorInv

\* No container is alive after a power loss: its gate is gone with its namespace.
LEMMA PowerLossKeeps == ASSUME SupervisorInv, PowerLoss PROVE SupervisorInv'
  <1>1. /\ boot < MaxBoot /\ boot' = boot + 1 /\ pc' = "off" /\ mem' = disk /\ task' = None
        /\ job' \in {None, job} /\ UNCHANGED <<disk, auditBox, files, relaunches>>
    BY DEF PowerLoss
  <1>2. TypeOK /\ FilesSound /\ boot' \in Boots /\ boot \in Boots
    BY <1>1, BoundsAssumption DEF SupervisorInv, TypeOK, Boots
  <1>3. /\ box' \in Boxes /\ box'.stage \in {"ended", "waiting"} /\ box'.gated = FALSE
        /\ box'.campaign = box.campaign /\ box'.id[1] = box'.campaign
    <2>1. box \in Boxes /\ box.campaign \in Campaigns /\ box.id[1] = box.campaign
      BY <1>2, BoxFields DEF TypeOK, FilesSound
    <2>2. CASE box' = [box EXCEPT !.stage = "ended", !.gated = FALSE]
      BY <2>1, <2>2 DEF Boxes, Stages, ExitStages
    <2>3. CASE box' = [box EXCEPT !.stage = "waiting", !.gated = FALSE]
      BY <2>1, <2>3 DEF Boxes, Stages, ExitStages
    <2>4. CASE box' = [box EXCEPT !.stage = "waiting", !.gated = FALSE,
                                  !.id = <<box.campaign, boot'>>]
      <3>1. <<box.campaign, boot'>> \in Containers  BY <1>2, <2>1 DEF Containers
      <3>2. QED  BY <2>1, <2>4, <3>1 DEF Boxes, Stages, ExitStages
    <2>5. QED  BY <2>2, <2>3, <2>4 DEF PowerLoss
  <1>4. ~ Live' /\ ~ Writing(box')
    BY <1>3 DEF Live, Writing
  <1>5. FilesSound' /\ HostStep /\ files' \in [Campaigns -> Files]
    BY <1>1, <1>2, <1>3, <1>4, BoxQuiet
  <1>6. disk \in States /\ Fit(disk)  BY DiskFit
  <1>7. QED
    BY <1>1, <1>2, <1>3, <1>4, <1>5, <1>6, LeaveKeeps DEF TypeOK

LEMMA ContainerKeeps == ASSUME SupervisorInv, Container PROVE SupervisorInv'
  <1>1. /\ UNCHANGED <<boot, pc, mem, disk, task, auditBox, relaunches>>
        /\ TypeOK /\ FilesSound
    BY DEF Container, process, SupervisorInv
  <1>2. ContainerStep /\ job' \in Campaigns \cup {None}
    <2>1. CASE BoxOpens /\ UNCHANGED job  BY <1>1, <2>1, OpensQuietly DEF TypeOK
    <2>2. CASE BoxCloses /\ UNCHANGED job  BY <1>1, <2>2, ClosesQuietly DEF TypeOK
    <2>3. CASE BoxSeals /\ UNCHANGED job
      <3>1. PICK last \in BOOLEAN :
              /\ box' = [box EXCEPT !.stage = IF last THEN "exiting" ELSE "capturing"]
              /\ Report(box.campaign, Sealed(files[box.campaign], last))
        BY <2>3 DEF BoxSeals
      <3>2. box.stage = "publishing"  BY <2>3 DEF BoxSeals
      <3>3. CASE last = TRUE
        <4>1. /\ box' = [box EXCEPT !.stage = "exiting"]
              /\ Report(box.campaign, Sealed(files[box.campaign], TRUE))
          BY <3>1, <3>3
        <4>2. QED  BY <1>1, <2>3, <3>2, <4>1, SealsQuietly DEF TypeOK
      <3>4. CASE last = FALSE
        <4>1. /\ box' = [box EXCEPT !.stage = "capturing"]
              /\ Report(box.campaign, Sealed(files[box.campaign], FALSE))
          BY <3>1, <3>4
        <4>2. QED  BY <1>1, <2>3, <3>2, <4>1, SealsQuietly DEF TypeOK
      <3>5. QED  BY <3>3, <3>4
    <2>4. CASE BoxTroubled /\ UNCHANGED job  BY <1>1, <2>4, TroubledQuietly DEF TypeOK
    <2>5. CASE BoxFails /\ UNCHANGED job  BY <1>1, <2>5, FailsQuietly DEF TypeOK
    <2>6. CASE JobApplied  BY <1>1, <2>6, AppliedQuietly
    <2>7. CASE BoxExits /\ UNCHANGED job  BY <1>1, <2>7, ExitsQuietly DEF TypeOK
    <2>8. QED  BY <2>1, <2>2, <2>3, <2>4, <2>5, <2>6, <2>7 DEF Container
  <1>3. HostStep /\ FilesSound'  BY <1>2 DEF ContainerStep
  <1>4. TypeOK'  BY <1>1, <1>2 DEF TypeOK, ContainerStep
  <1>5. PICK m \in States : m = mem /\ Backed(m) /\ m.retries <= MaxRetries
    BY DEF SupervisorInv, TypeOK, Documents
  <1>6. PICK d \in States : d = disk /\ Fit(d)  BY DiskFit
  <1>7. Backed(m)' /\ Fit(d)'  BY <1>1, <1>3, <1>5, <1>6, BackedStays, FitStays
  <1>8. Backed(mem)' /\ (mem.retries <= MaxRetries)'
    BY <1>1, <1>5, <1>7 DEF Backed, Permits, AnsweredIn
  <1>9. Backed(disk)' /\ Named(disk)' /\ Counted(disk)'
    BY <1>1, <1>6, <1>7 DEF Fit, Backed, Named, Counted, Permits, AnsweredIn
  <1>10. Named(mem) => Named(mem)'
    <2>1. Named(m) => Named(m)'  BY <1>3, NamedStays
    <2>2. QED  BY <1>1, <1>5, <2>1 DEF Named
  <1>11. Counted(mem) => Counted(mem)'
    BY <1>1 DEF Counted
  <1>12. Documents'
    BY <1>1, <1>8, <1>9, <1>10, <1>11 DEF Documents, SupervisorInv
  <1>13. Live' => Live /\ box'.campaign = box.campaign
    BY <1>3 DEF HostStep
  <1>14. pc \in {"quiesce", "auditBegin"} \cup Auditing =>
             /\ mem.campaign \in Campaigns /\ Silent(mem.campaign)
             /\ Grown(files[mem.campaign], files'[mem.campaign])
    BY <1>3 DEF SupervisorInv, Place, Placed, HostStep
  <1>15. Place'
    BY <1>1, <1>13, <1>14
       DEF SupervisorInv, Place, Placed, Permits, AnsweredIn, Silent, Grown, Auditing, Launching
  <1>16. Concluding' /\ Stopped' /\ RetryBudget'
    BY <1>1, <1>13, <1>14
       DEF Concluding, Stopped, RetryBudget, SupervisorInv, Grown, Auditing
  <1>17. QED  BY <1>3, <1>4, <1>12, <1>15, <1>16 DEF SupervisorInv

-----------------------------------------------------------------------------
(* The theorems.                                                           *)

LEMMA RunKeeps == ASSUME SupervisorInv, Run PROVE SupervisorInv'
  BY AdmissionKeeps, AdoptKeeps, LoopKeeps, ObserveRunningKeeps, ObserveEndedKeeps,
     RebindKeeps, QuiesceKeeps, AuditBeginKeeps, AuditClearKeeps, AuditForgetKeeps,
     AuditCreateKeeps, AuditLatchKeeps, AuditRunKeeps, AuditRemoveKeeps, AuditDropKeeps,
     RecordGapKeeps, ConcludeKeeps, VerifyKeeps, AdmitKeeps, UpdateKeeps, AwaitKeeps,
     GateKeeps, ConfirmKeeps, RefuseKeeps
     DEF Run

LEMMA StutterKeeps == ASSUME SupervisorInv, UNCHANGED vars PROVE SupervisorInv'
  BY DEF vars, process, host, SupervisorInv, TypeOK, FilesSound, Documents, Place, Concluding,
         Stopped, RetryBudget, Backed, Named, Counted, Placed, Closed, AnsweredIn, Silent,
         Live, Writing, Permits

LEMMA InitHolds == ASSUME Init PROVE SupervisorInv
  <1>1. /\ boot = 1 /\ pc = "off" /\ task = None /\ mem = FreshState /\ disk = FreshState
        /\ job = None /\ auditBox = None /\ relaunches = 0
        /\ box = [campaign |-> 0, id |-> <<0, 1>>, stage |-> "capturing", gated |-> TRUE]
        /\ files = [c \in Campaigns |->
                      IF c = 0 THEN [NoFiles EXCEPT !.health = "running"] ELSE NoFiles]
    BY DEF Init
  <1>2. 0 \in Campaigns /\ 1 \in Boots /\ <<0, 1>> \in Containers
    BY BoundsAssumption DEF Campaigns, Boots, Containers
  <1>3. /\ FreshState \in States /\ FreshState.phase = "adopting" /\ FreshState.campaign = None
        /\ FreshState.boot = 1 /\ FreshState.retries = 0
    BY <1>2 DEF FreshState, States, Phases
  <1>4. NoFiles \in Files /\ [NoFiles EXCEPT !.health = "running"] \in Files
    BY DEF NoFiles, Files
  <1>5. files \in [Campaigns -> Files]  BY <1>1, <1>4
  <1>6. box \in Boxes  BY <1>1, <1>2 DEF Boxes, Stages, ExitStages
  <1>7. TypeOK
    BY <1>1, <1>2, <1>3, <1>5, <1>6 DEF TypeOK
  <1>8. FilesSound
    BY <1>1, <1>2 DEF FilesSound, NoFiles
  <1>9. Documents
    BY <1>1, <1>3, RetriesAssumption DEF Documents, Backed, Named, Counted, Permits
  <1>10. Place /\ Concluding /\ Stopped /\ RetryBudget
    BY <1>1, RetriesAssumption DEF Place, Placed, Concluding, Stopped, RetryBudget, Working, Auditing,
            Launching
  <1>11. QED  BY <1>7, <1>8, <1>9, <1>10 DEF SupervisorInv

\* The invariant holds in every reachable state, whatever crashes and refused
\* saves came before it.  (The whole of run, its cleanup and the container.)
THEOREM SupervisorCorrect == Spec => []SupervisorInv
  <1>1. Init => SupervisorInv  BY InitHolds
  <1>2. SupervisorInv /\ [Next]_vars => SupervisorInv'
    BY StartKeeps, RunKeeps, FaultKeeps, CleanupKeeps, ContainerKeeps, ShutdownKeeps,
       KillKeeps, PauseKeeps, PowerLossKeeps, StutterKeeps
       DEF Next
  <1>3. QED  BY <1>1, <1>2, PTL DEF Spec

\* Between two completed campaigns no more than max_retries launches follow a
\* transport failure, over restarts of the process and of the host.
\* (observe and retry_delay; retry_count in state.json.)
THEOREM LaunchesAreBounded == Spec => []RetryBudget
  <1>1. SupervisorInv => RetryBudget  BY DEF SupervisorInv
  <1>2. QED  BY <1>1, SupervisorCorrect, PTL

\* A campaign with a successor, in memory or in state.json, has its gap record
\* and its closure, no half-published copy, no unnoticed integrity event, and
\* no container that still writes.  (observe, recover_boot, audit and launch.)
THEOREM PredecessorIsAccounted == Spec => []SuccessorAccounted
  <1>1. SupervisorInv => SuccessorAccounted
    <2>1. SUFFICES ASSUME SupervisorInv, NEW c \in Replaced(mem) \cup Replaced(disk)
                   PROVE  Accounted(c)
      BY DEF SuccessorAccounted
    <2>2. c \in Campaigns /\ Closed(c)
      BY <2>1 DEF SupervisorInv, Documents, Backed, Replaced
    <2>3. QED  BY <2>2 DEF Accounted, Closed, Silent, Live
  <1>2. QED  BY <1>1, SupervisorCorrect, PTL

\* Whatever way the unit went off, no capture of its own runs on.
\* (stop_collector in run's finally and in ExecStopPost.)
THEOREM NoCaptureIsOrphaned == Spec => []NoOrphanCapture
  <1>1. SupervisorInv => NoOrphanCapture
    BY DEF SupervisorInv, Stopped, NoOrphanCapture, Live
  <1>2. QED  BY <1>1, SupervisorCorrect, PTL

\* A reported failure is answered before the next generation is admitted.
\* (observe, check_interrupted_metadata and shutdown_phase.)
THEOREM FailureIsAnswered == Spec => FailureSticks
  <1>1. SupervisorInv => (pc = "admit" => Answered(mem.campaign))
    <2>1. SUFFICES ASSUME SupervisorInv, pc = "admit"  PROVE Answered(mem.campaign)
      OBVIOUS
    <2>2. Permits(mem) /\ Backed(mem)
      BY <2>1 DEF SupervisorInv, Place, Placed, Documents
    <2>3. QED  BY <2>2 DEF Backed, AnsweredIn, Answered
  <1>2. SupervisorInv =>
          [pc = "admit" /\ mem'.campaign # mem.campaign => Answered(mem.campaign)]_vars
    BY <1>1
  <1>3. QED  BY <1>2, SupervisorCorrect, PTL DEF FailureSticks
=============================================================================
