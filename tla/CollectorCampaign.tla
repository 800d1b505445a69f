-------------------------- MODULE CollectorCampaign --------------------------
(***************************************************************************)
(* A finite capture campaign (collector_runtime.collect_campaign) and the   *)
(* publication of its closed chunks (collector_storage): each chunk is      *)
(* captured into the spool, copied to the capture and the archive root,     *)
(* sealed there, and possibly removed from the spool.  The process can die  *)
(* between any two file operations, and a file can change under it.  A      *)
(* campaign is never resumed: the next one has its own directories, but it  *)
(* may share the spool's status file with its predecessors.                 *)
(*                                                                         *)
(* One lane; a file is 1 as it was closed, 2 once it was changed.           *)
(***************************************************************************)
EXTENDS Integers

CONSTANTS
    ChunkFiles,      \* the files of a closed chunk
    MaxCampaigns,    \* bound: campaigns on one spool
    Chunks,          \* plan.chunks
    MaxChanges       \* bound: files changed by someone else

ASSUME CampaignBounds == {MaxCampaigns, Chunks, MaxChanges} \subseteq Nat \ {0}

VARIABLES
    prune,      \* plan.prune_spool
    campaign,
    chunk,
    step,       \* where collect_campaign is
    root,       \* the destination being published
    inventory,  \* publish_closed_chunk: the source as it was first listed
    receipts,   \* what each publication of this chunk returned
    source,     \* the closed chunks of the spool
    removed,    \* what was removed from it
    copies,     \* the reservations in the two destinations
    phase,      \* status["phase"]
    health,     \* runtime-health.json
    leftover,   \* runtime-health.json.tmp exists
    changes,    \* files changed so far
    late        \* copies changed after the collector last read them

work == <<prune, campaign, chunk>>
campaignVars == <<prune, campaign, chunk, step, root, inventory, receipts, source,
                  removed, copies, phase, health, leftover, changes, late>>

Roots == {"capture", "archive"}
Ids == (1 .. MaxCampaigns) \X (1 .. Chunks)
Absent == 0
Closed == 1
Changed == 2
Listing == [ChunkFiles -> {Absent, Closed, Changed}]
Nothing == [f \in ChunkFiles |-> Absent]
Stages == {"absent", "reserved", "manifest", "marker", "complete"}
Copies == [files : Listing, manifest : Listing, stage : Stages]
NoCopy == [files |-> Nothing, manifest |-> Nothing, stage |-> "absent"]

Working == {"capture", "reserve", "copy", "manifest", "marker", "link", "verify",
            "unlink", "next", "finish"}

Id == <<campaign, chunk>>
Here == copies[<<Id, root>>]

CampaignTypeOK ==
    /\ prune \in BOOLEAN /\ leftover \in BOOLEAN
    /\ campaign \in 1 .. MaxCampaigns /\ chunk \in 1 .. Chunks
    /\ root \in Roots /\ step \in Working \cup {"failed", "ended"}
    /\ phase \in {"capturing", "publishing", "completed", "failed"} /\ changes \in Nat
    /\ inventory \in Listing /\ receipts \in [Roots -> Listing]
    /\ {source, removed} \subseteq [Ids -> Listing] /\ copies \in [Ids \X Roots -> Copies]
    /\ health \in [phase : {"none", "capturing", "publishing", "completed", "failed"},
                   campaign : 0 .. MaxCampaigns]
    /\ late \subseteq Ids \X Roots

CampaignInit ==
    /\ prune \in BOOLEAN
    /\ campaign = 1 /\ chunk = 1 /\ step = "capture" /\ root = "capture"
    /\ inventory = Nothing /\ receipts = [r \in Roots |-> Nothing]
    /\ source = [i \in Ids |-> Nothing] /\ removed = source
    /\ copies = [d \in Ids \X Roots |-> NoCopy]
    /\ phase = "capturing" /\ health = [phase |-> "none", campaign |-> 0]
    /\ leftover = FALSE /\ changes = 0 /\ late = {}

-----------------------------------------------------------------------------
(* Status, failure and death.                                              *)

\* except BaseException: the children are ended and the failure is reported.
Failed ==
    /\ step' = "failed" /\ phase' = "failed"
    /\ UNCHANGED <<root, inventory, receipts, source, removed, copies, health>>

\* _status: a temporary file that must not exist, renamed over the document.
Status(p) ==
    IF leftover THEN UNCHANGED health
    ELSE health' = [phase |-> p, campaign |-> campaign]

ReportFailure ==
    /\ step = "failed"
    /\ Status(phase)
    /\ step' = "ended"
    /\ UNCHANGED <<work, root, inventory, receipts, source, removed, copies, phase,
                   leftover, changes, late>>

\* The operator, stale clock evidence, a full spool, a failed lane or command.
Interrupt ==
    /\ step \in Working
    /\ Failed
    /\ UNCHANGED <<work, leftover, changes, late>>

\* Killed, or the host goes down; perhaps between open and replace of _status.
Reporting == {"capture", "copy", "next", "finish", "failed"}
CampaignDies ==
    /\ step \in Working \cup {"failed"}
    /\ step' = "ended"
    /\ leftover' \in {leftover} \cup (IF step \in Reporting THEN {TRUE} ELSE {})
    /\ UNCHANGED <<work, root, inventory, receipts, source, removed, copies, phase,
                   health, changes, late>>

\* A new campaign: on the same spool (vm-nfs), or on one of its own.
NextCampaign ==
    /\ step = "ended" /\ campaign < MaxCampaigns
    /\ campaign' = campaign + 1 /\ chunk' = 1
    /\ step' = "capture" /\ root' = "capture" /\ phase' = "capturing"
    /\ inventory' = Nothing /\ receipts' = [r \in Roots |-> Nothing]
    /\ \/ UNCHANGED <<leftover, health>>
       \/ leftover' = FALSE /\ health' = [phase |-> "none", campaign |-> 0]
    /\ UNCHANGED <<prune, source, removed, copies, changes, late>>

-----------------------------------------------------------------------------
(* collect_campaign.                                                       *)

\* One second of capture.
Tick ==
    /\ step = "capture" /\ ~ leftover
    /\ Status(phase)
    /\ UNCHANGED <<work, step, root, inventory, receipts, source, removed, copies, phase,
                   leftover, changes, late>>

\* Every lane exited cleanly and its health says COMPLETED.
CloseChunk ==
    /\ step = "capture"
    /\ source' = [source EXCEPT ![Id] = [f \in ChunkFiles |-> Closed]]
    /\ phase' = "publishing" /\ step' = "reserve" /\ root' = "capture"
    /\ receipts' = [r \in Roots |-> Nothing]
    /\ UNCHANGED <<work, inventory, removed, copies, health, leftover, changes, late>>

\* A status write finds the temporary file of a dead predecessor.
Blocked ==
    /\ step \in Reporting \ {"failed"} /\ leftover
    /\ Failed
    /\ UNCHANGED <<work, leftover, changes, late>>

-----------------------------------------------------------------------------
(* publish_closed_chunk, for one destination.                              *)

Keeping == <<work, source, removed, leftover, changes, late>>

\* List the source and reserve the destination, which must not exist.
Reserve ==
    /\ step = "reserve" /\ Here.stage = "absent"
    /\ inventory' = source[Id]
    /\ copies' = [copies EXCEPT ![<<Id, root>>].stage = "reserved"]
    /\ step' = "copy"
    /\ UNCHANGED <<Keeping, root, receipts, phase, health>>

\* A mutant: progress that cannot be reported is passed over.
CopyFileUnreported ==
    /\ step = "copy"
    /\ \E f \in ChunkFiles :
           /\ Here.files[f] = Absent /\ source[Id][f] = inventory[f]
           /\ copies' = [copies EXCEPT ![<<Id, root>>].files[f] = inventory[f]]
    /\ Status(phase)
    /\ step' = IF \A f \in ChunkFiles : copies'[<<Id, root>>].files[f] # Absent
               THEN "manifest" ELSE step
    /\ UNCHANGED <<Keeping, root, inventory, receipts, phase>>

\* _copy one file that is still as it was listed; progress reports each block.
CopyFile ==
    /\ step = "copy" /\ ~ leftover
    /\ \E f \in ChunkFiles :
           /\ Here.files[f] = Absent /\ source[Id][f] = inventory[f]
           /\ copies' = [copies EXCEPT ![<<Id, root>>].files[f] = inventory[f]]
    /\ Status(phase)
    /\ step' = IF \A f \in ChunkFiles : copies'[<<Id, root>>].files[f] # Absent
               THEN "manifest" ELSE step
    /\ UNCHANGED <<Keeping, root, inventory, receipts, phase>>

\* Source and copies are read again before the manifest is written.
Reread == source[Id] = inventory /\ Here.files = inventory

\* A mutant: the manifest is written from the listing, without the second reading.
ManifestFromListing ==
    /\ step = "manifest"
    /\ copies' = [copies EXCEPT ![<<Id, root>>].manifest = inventory,
                                ![<<Id, root>>].stage = "manifest"]
    /\ step' = "marker"
    /\ UNCHANGED <<Keeping, root, inventory, receipts, phase, health>>
Manifest ==
    /\ step = "manifest" /\ Reread
    /\ copies' = [copies EXCEPT ![<<Id, root>>].manifest = inventory,
                                ![<<Id, root>>].stage = "manifest"]
    /\ step' = "marker"
    /\ UNCHANGED <<Keeping, root, inventory, receipts, phase, health>>

Marker ==
    /\ step = "marker"
    /\ copies' = [copies EXCEPT ![<<Id, root>>].stage = "marker"]
    /\ step' = "link"
    /\ UNCHANGED <<Keeping, root, inventory, receipts, phase, health>>

\* COMPLETE.json, last; then the other destination, or the end of the chunk.
Link ==
    /\ step = "link"
    /\ copies' = [copies EXCEPT ![<<Id, root>>].stage = "complete"]
    /\ receipts' = [receipts EXCEPT ![root] = inventory]
    /\ root' = "archive"
    /\ step' = IF root = "capture" THEN "reserve" ELSE IF prune THEN "verify" ELSE "next"
    /\ UNCHANGED <<Keeping, inventory, phase, health>>

-----------------------------------------------------------------------------
(* remove_verified_spool_duplicate.                                        *)

BothSealed ==
    \A r \in Roots :
        /\ receipts[r] = source[Id]
        /\ copies[<<Id, r>>].stage = "complete"
        /\ copies[<<Id, r>>].manifest = receipts[r]
        /\ copies[<<Id, r>>].files = receipts[r]
Verify ==
    /\ step = "verify" /\ BothSealed
    /\ late' = {d \in late : d[1] # Id}
    /\ step' = "unlink"
    /\ UNCHANGED <<work, root, inventory, receipts, source, removed, copies, phase,
                   health, leftover, changes>>

\* A mutant: a file is unlinked by its name alone.
UnlinkByName ==
    /\ step = "unlink"
    /\ \E f \in ChunkFiles :
           /\ source[Id][f] # Absent
           /\ source' = [source EXCEPT ![Id][f] = Absent]
           /\ removed' = [removed EXCEPT ![Id][f] = source[Id][f]]
    /\ step' = IF source'[Id] = Nothing THEN "next" ELSE step
    /\ UNCHANGED <<work, root, inventory, receipts, copies, phase, health, leftover,
                   changes, late>>

\* Each file is unlinked only as it was listed.
Unlink ==
    /\ step = "unlink"
    /\ \E f \in ChunkFiles :
           /\ source[Id][f] # Absent /\ source[Id][f] = receipts["capture"][f]
           /\ source' = [source EXCEPT ![Id][f] = Absent]
           /\ removed' = [removed EXCEPT ![Id][f] = source[Id][f]]
    /\ step' = IF source'[Id] = Nothing THEN "next" ELSE step
    /\ UNCHANGED <<work, root, inventory, receipts, copies, phase, health, leftover,
                   changes, late>>

\* A copy, a re-read or a removal that does not find what it must.
Mismatch ==
    /\ \/ step = "copy" /\ \E f \in ChunkFiles : Here.files[f] = Absent
                                                  /\ source[Id][f] # inventory[f]
       \/ step = "manifest" /\ ~ Reread
       \/ step = "verify" /\ ~ BothSealed
       \/ step = "unlink" /\ \E f \in ChunkFiles : source[Id][f] # Absent
                                                    /\ source[Id][f] # receipts["capture"][f]
    /\ Failed
    /\ UNCHANGED <<work, leftover, changes, late>>

\* The status after each chunk, and after the last one.
NextChunk ==
    /\ step = "next" /\ ~ leftover
    /\ Status(phase)
    /\ IF chunk < Chunks
       THEN chunk' = chunk + 1 /\ step' = "capture" /\ phase' = "capturing"
       ELSE UNCHANGED chunk /\ step' = "finish" /\ phase' = "completed"
    /\ UNCHANGED <<prune, campaign, root, inventory, receipts, source, removed, copies,
                   leftover, changes, late>>
Finish ==
    /\ step = "finish" /\ ~ leftover
    /\ Status(phase) /\ step' = "ended"
    /\ UNCHANGED <<work, root, inventory, receipts, source, removed, copies, phase,
                   leftover, changes, late>>

-----------------------------------------------------------------------------
\* Someone else changes a file of this chunk, in the spool or in a destination.
Change ==
    /\ changes < MaxChanges /\ changes' = changes + 1
    /\ \E f \in ChunkFiles :
           \/ /\ source[Id][f] = Closed
              /\ source' = [source EXCEPT ![Id][f] = Changed]
              /\ UNCHANGED <<copies, late>>
           \/ \E r \in Roots :
                 /\ copies[<<Id, r>>].files[f] = Closed
                 /\ copies' = [copies EXCEPT ![<<Id, r>>].files[f] = Changed]
                 /\ late' = IF copies[<<Id, r>>].stage = "reserved" THEN late
                            ELSE late \cup {<<Id, r>>}
                 /\ UNCHANGED source
    /\ UNCHANGED <<work, step, root, inventory, receipts, removed, phase, health, leftover>>

CampaignNext ==
    \/ Tick \/ CloseChunk \/ Reserve \/ CopyFile \/ Manifest \/ Marker \/ Link
    \/ Verify \/ Unlink \/ NextChunk \/ Finish
    \/ Blocked \/ Mismatch \/ Interrupt \/ ReportFailure \/ CampaignDies \/ NextCampaign
    \/ Change

CampaignSpec == CampaignInit /\ [][CampaignNext]_campaignVars

-----------------------------------------------------------------------------
(* What makes a campaign correct.                                          *)

\* A file leaves the spool only when both destinations hold it sealed, as it was
\* then; only a change after the last reading of a destination can undo that.
\* (publish_closed_chunk and remove_verified_spool_duplicate.)
SpoolNeverLastCopy ==
    \A i \in Ids, f \in ChunkFiles, r \in Roots :
        removed[i][f] # Absent =>
            /\ copies[<<i, r>>].stage = "complete"
            /\ copies[<<i, r>>].files[f] = removed[i][f] \/ <<i, r>> \in late

\* A destination that carries COMPLETE.json holds every file its manifest lists,
\* wherever the process died and whoever changed the source meanwhile.
\* (publish_closed_chunk: COMPLETE is published last.)
SealedIsWhole ==
    \A d \in DOMAIN copies :
        copies[d].stage = "complete" =>
            /\ \A f \in ChunkFiles : copies[d].manifest[f] # Absent
            /\ copies[d].files = copies[d].manifest \/ d \in late

\* runtime-health.json says completed only of a campaign with all its copies
\* sealed, and no campaign seals a copy before the document names it: one whose
\* status cannot be written publishes nothing.  (collect_campaign, _status.)
ReportIsTrue ==
    /\ health.phase = "completed" =>
           \A k \in 1 .. Chunks, r \in Roots :
               copies[<< <<health.campaign, k>>, r>>].stage = "complete"
    /\ \A k \in 1 .. Chunks, r \in Roots :
           copies[<< <<campaign, k>>, r>>].stage = "complete" => health.campaign = campaign
=============================================================================
