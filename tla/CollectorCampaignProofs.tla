----------------------- MODULE CollectorCampaignProofs -----------------------
(***************************************************************************)
(* CollectorCampaign for any files, chunks, campaigns and changes: a sealed *)
(* copy is whole, the spool never gives up a file it alone holds, and the   *)
(* status document says completed only of a campaign that is.               *)
(***************************************************************************)
EXTENDS CollectorCampaign, TLAPS

After(i) == i[1] > campaign \/ (i[1] = campaign /\ i[2] > chunk)

\* What lies ahead of the campaign is untouched: the chunks after the current
\* one and, until its first reservation, the current one.
AheadUntouched ==
    \A i \in Ids : After(i) \/ (i = Id /\ step = "capture") =>
        /\ removed[i] = Nothing
        /\ \A r \in Roots : copies[<<i, r>>] = NoCopy

\* Where a publication stands.
PublicationStep ==
    /\ step \in {"copy", "manifest"} => Here.stage = "reserved"
    /\ step = "manifest" => \A f \in ChunkFiles : Here.files[f] # Absent
    /\ step = "marker" => Here.stage = "manifest"
    /\ step = "link" => Here.stage = "marker"

\* From the manifest on, a copy is what its manifest lists.
ManifestIsWhole ==
    \A d \in Ids \X Roots :
        copies[d].stage \in {"manifest", "marker", "complete"} =>
            /\ \A f \in ChunkFiles : copies[d].manifest[f] # Absent
            /\ copies[d].files = copies[d].manifest \/ d \in late

\* Nothing of a chunk is removed before its verification.
NothingRemovedYet ==
    step \in {"capture", "reserve", "copy", "manifest", "marker", "link", "verify"} =>
        removed[Id] = Nothing

\* While files are removed both copies are sealed as they were read.
UnlinkIsSafe ==
    step = "unlink" =>
        \A r \in Roots :
            /\ copies[<<Id, r>>].stage = "complete"
            /\ copies[<<Id, r>>].files = receipts["capture"] \/ <<Id, r>> \in late

Complete(i) == \A r \in Roots : copies[<<i, r>>].stage = "complete"

\* The chunks behind the current one are sealed, and so is the current one at its end.
ChunksSealed ==
    /\ \A k \in 1 .. Chunks : k < chunk => Complete(<<campaign, k>>)
    /\ step \in {"reserve", "copy", "manifest", "marker", "link"} /\ root = "archive" =>
           copies[<<Id, "capture">>].stage = "complete"
    /\ step \in {"verify", "unlink", "next", "finish"} => Complete(Id)
    /\ step = "finish" => chunk = Chunks

\* What the status document says and will say.
StatusKnown ==
    /\ phase = "completed" => step \in {"finish", "ended"}
    /\ step \in {"manifest", "marker", "link", "verify", "unlink", "next", "finish"} =>
           health.campaign = campaign
    /\ health.phase = "completed" => health.campaign \in 1 .. campaign

CampaignInv ==
    /\ CampaignTypeOK
    /\ AheadUntouched
    /\ PublicationStep
    /\ ManifestIsWhole
    /\ NothingRemovedYet
    /\ UnlinkIsSafe
    /\ ChunksSealed
    /\ StatusKnown
    /\ SpoolNeverLastCopy
    /\ ReportIsTrue

LEMMA CopyChanges ==
    ASSUME CampaignTypeOK, NEW i \in Ids, NEW r \in Roots, NEW c \in Copies,
           copies' = [copies EXCEPT ![<<i, r>>] = c]
    PROVE  /\ copies' \in [Ids \X Roots -> Copies]
           /\ copies'[<<i, r>>] = c
           /\ \A j \in Ids, s \in Roots :
                  <<j, s>> # <<i, r>> => copies'[<<j, s>>] = copies[<<j, s>>]
BY DEF CampaignTypeOK

LEMMA CurrentId ==
    CampaignTypeOK => /\ Id \in Ids /\ root \in Roots /\ Here \in Copies
                      /\ Id[1] = campaign /\ Id[2] = chunk
                      /\ \A r \in Roots : copies[<<Id, r>>] \in Copies
BY DEF CampaignTypeOK, Id, Ids, Here

-----------------------------------------------------------------------------
(* Publishing one copy.                                                    *)

\* A step of publish_closed_chunk touches one copy, which is not sealed yet.
Publishes(c) ==
    /\ Here.stage # "complete"
    /\ copies' = [copies EXCEPT ![<<Id, root>>] = c]
    /\ UNCHANGED <<work, source, removed, late>>
    /\ step' # "capture" /\ phase # "completed"
    /\ health' = health \/ health' = [phase |-> phase, campaign |-> campaign]

\* Whole: what the manifest lists is there, unless it was changed since.
Whole(c) ==
    c.stage \in {"manifest", "marker", "complete"} =>
        /\ \A f \in ChunkFiles : c.manifest[f] # Absent
        /\ c.files = c.manifest \/ <<Id, root>> \in late

LEMMA PublicationCopies ==
    ASSUME CampaignInv, NEW c \in Copies, Publishes(c)
    PROVE  /\ Id' = Id /\ copies' \in [Ids \X Roots -> Copies]
           /\ copies'[<<Id, root>>] = c
           /\ \A j \in Ids, s \in Roots :
                  <<j, s>> # <<Id, root>> => copies'[<<j, s>>] = copies[<<j, s>>]
BY CurrentId, CopyChanges DEF CampaignInv, Publishes, Id, work

LEMMA PublicationKeepsOthers ==
    ASSUME CampaignInv, NEW c \in Copies, Publishes(c)
    PROVE  AheadUntouched' /\ SpoolNeverLastCopy'
<1> USE CurrentId, PublicationCopies DEF CampaignInv
<1>1. AheadUntouched'
  <2> SUFFICES ASSUME NEW i \in Ids, After(i)' \/ (i = Id' /\ step' = "capture")
               PROVE  removed'[i] = Nothing /\ \A r \in Roots : copies'[<<i, r>>] = NoCopy
    BY DEF AheadUntouched
  <2>1. i # Id /\ After(i)
    BY DEF Publishes, After, work, CampaignTypeOK
  <2>2. removed[i] = Nothing /\ \A r \in Roots : copies[<<i, r>>] = NoCopy
    BY <2>1 DEF AheadUntouched
  <2> QED  BY <2>1, <2>2 DEF Publishes
<1>2. SpoolNeverLastCopy'
  <2> SUFFICES ASSUME NEW i \in Ids, NEW f \in ChunkFiles, NEW r \in Roots,
                      removed'[i][f] # Absent
               PROVE  /\ copies'[<<i, r>>].stage = "complete"
                      /\ copies'[<<i, r>>].files[f] = removed'[i][f] \/ <<i, r>> \in late'
    BY DEF SpoolNeverLastCopy
  <2>1. removed' = removed /\ late' = late
    BY DEF Publishes
  <2>2. /\ copies[<<i, r>>].stage = "complete"
        /\ copies[<<i, r>>].files[f] = removed[i][f] \/ <<i, r>> \in late
    BY <2>1 DEF SpoolNeverLastCopy
  <2>3. <<i, r>> # <<Id, root>>
    BY <2>2 DEF Publishes, Here
  <2> QED  BY <2>1, <2>2, <2>3
<1> QED  BY <1>1, <1>2

LEMMA PublicationKeepsWhole ==
    ASSUME CampaignInv, NEW c \in Copies, Publishes(c), Whole(c)
    PROVE  ManifestIsWhole'
<1> USE CurrentId, PublicationCopies DEF CampaignInv
<1> SUFFICES ASSUME NEW i \in Ids, NEW r \in Roots,
                    copies'[<<i, r>>].stage \in {"manifest", "marker", "complete"}
             PROVE  /\ \A f \in ChunkFiles : copies'[<<i, r>>].manifest[f] # Absent
                    /\ copies'[<<i, r>>].files = copies'[<<i, r>>].manifest
                       \/ <<i, r>> \in late'
  BY DEF ManifestIsWhole
<1>1. late' = late
  BY DEF Publishes
<1>2. CASE <<i, r>> = <<Id, root>>
  BY <1>1, <1>2 DEF Whole
<1>3. CASE <<i, r>> # <<Id, root>>
  BY <1>1, <1>3 DEF ManifestIsWhole
<1> QED  BY <1>2, <1>3

LEMMA PublicationReported ==
    ASSUME CampaignInv, NEW c \in Copies, Publishes(c),
           c.stage = "complete" => health.campaign = campaign
    PROVE  ReportIsTrue' /\ (health'.phase = "completed" => health'.campaign \in 1 .. campaign')
<1> USE CurrentId, PublicationCopies DEF CampaignInv
<1>1. campaign' = campaign /\ campaign \in 1 .. MaxCampaigns
  BY DEF Publishes, work, CampaignTypeOK
<1>2. ASSUME health'.phase = "completed"
      PROVE  health' = health /\ health.campaign \in 1 .. campaign /\ health.campaign # campaign
  <2>1. health' = health
    BY <1>2 DEF Publishes
  <2>2. health.campaign \in 1 .. campaign
    BY <1>2, <2>1 DEF StatusKnown
  <2>3. copies[<< <<health.campaign, chunk>>, root>>].stage = "complete"
    BY <1>2, <2>1 DEF ReportIsTrue, CampaignTypeOK
  <2>4. health.campaign # campaign
    BY <2>3 DEF Publishes, Here, Id
  <2> QED  BY <2>1, <2>2, <2>4
<1>3. ASSUME health'.phase = "completed", NEW k \in 1 .. Chunks, NEW r \in Roots
      PROVE  copies'[<< <<health'.campaign, k>>, r>>].stage = "complete"
  <2>1. <<health.campaign, k>> \in Ids /\ <<health.campaign, k>> # Id
    BY <1>1, <1>2, <1>3 DEF Ids, Id, CampaignTypeOK
  <2>2. copies[<< <<health.campaign, k>>, r>>].stage = "complete"
    BY <1>2, <1>3 DEF ReportIsTrue
  <2> QED  BY <1>2, <1>3, <2>1, <2>2
<1>4. ASSUME NEW k \in 1 .. Chunks, NEW r \in Roots,
             copies'[<< <<campaign, k>>, r>>].stage = "complete"
      PROVE  health'.campaign = campaign
  <2>1. <<campaign, k>> \in Ids
    BY <1>1 DEF Ids
  <2>2. health.campaign = campaign
    BY <1>4, <2>1 DEF ReportIsTrue
  <2> QED  BY <2>2 DEF Publishes
<1>5. ReportIsTrue'
  BY <1>1, <1>3, <1>4 DEF ReportIsTrue
<1> QED  BY <1>1, <1>2, <1>5

LEMMA BehindSealed ==
    ASSUME CampaignInv, NEW c \in Copies, Publishes(c)
    PROVE  \A k \in 1 .. Chunks : k < chunk' => Complete(<<campaign, k>>)' /\ campaign' = campaign
<1> USE CurrentId, PublicationCopies DEF CampaignInv
<1> SUFFICES ASSUME NEW k \in 1 .. Chunks, k < chunk'
             PROVE  Complete(<<campaign, k>>)' /\ campaign' = campaign
  OBVIOUS
<1>1. campaign' = campaign /\ chunk' = chunk
  BY DEF Publishes, work
<1>2. <<campaign, k>> \in Ids /\ <<campaign, k>> # Id
  BY <1>1 DEF Ids, Id, CampaignTypeOK
<1>3. Complete(<<campaign, k>>)
  BY <1>1 DEF ChunksSealed
<1> QED  BY <1>1, <1>2, <1>3 DEF Complete

\* A step that stays within the publication keeps what is sealed behind it.
LEMMA OthersSealed ==
    ASSUME CampaignInv, NEW c \in Copies, Publishes(c), root' = root,
           step \in {"reserve", "copy", "manifest", "marker"},
           step' \in {"copy", "manifest", "marker", "link"}
    PROVE  ChunksSealed'
<1> USE CurrentId, PublicationCopies DEF CampaignInv
<1>1. \A k \in 1 .. Chunks : k < chunk' => Complete(<<campaign, k>>)' /\ campaign' = campaign
  BY BehindSealed
<1>2. root = "archive" => copies'[<<Id, "capture">>].stage = "complete"
  BY DEF ChunksSealed, Roots
<1> QED  BY <1>1, <1>2 DEF ChunksSealed

-----------------------------------------------------------------------------
(* The steps of publish_closed_chunk, one lemma each.                      *)

LEMMA ReserveStep == ASSUME CampaignInv, Reserve PROVE CampaignInv'
<1> DEFINE c == [Here EXCEPT !.stage = "reserved"]
<1> USE CurrentId DEF CampaignInv
<1>1. c \in Copies /\ c.stage = "reserved" /\ c.files = Here.files
  BY DEF Copies, Stages
<1>2. Publishes(c) /\ Whole(c)
  BY <1>1 DEF Reserve, Keeping, Publishes, Whole, Here, StatusKnown
<1> HIDE DEF c
<1>3. AheadUntouched' /\ SpoolNeverLastCopy' /\ ManifestIsWhole' /\ ReportIsTrue'
      /\ (health'.phase = "completed" => health'.campaign \in 1 .. campaign')
  BY <1>1, <1>2, PublicationKeepsOthers, PublicationKeepsWhole, PublicationReported
<1>4. CampaignTypeOK'
  BY <1>1, <1>2, PublicationCopies DEF Reserve, Keeping, work, CampaignTypeOK, Working
<1>5. PublicationStep'
  BY <1>1, <1>2, PublicationCopies DEF Reserve, PublicationStep, Here
<1>6. NothingRemovedYet' /\ UnlinkIsSafe'
  BY <1>1, <1>2, PublicationCopies DEF Reserve, Keeping, NothingRemovedYet, UnlinkIsSafe
<1>7. ChunksSealed'
  BY <1>1, <1>2, OthersSealed DEF Reserve, Publishes
<1>8. StatusKnown'
  BY <1>3 DEF Reserve, Keeping, StatusKnown
<1> QED  BY <1>3, <1>4, <1>5, <1>6, <1>7, <1>8

LEMMA CopyFileStep == ASSUME CampaignInv, CopyFile PROVE CampaignInv'
<1> USE CurrentId DEF CampaignInv
<1>0. PICK f \in ChunkFiles :
          /\ Here.files[f] = Absent /\ source[Id][f] = inventory[f]
          /\ copies' = [copies EXCEPT ![<<Id, root>>].files[f] = inventory[f]]
  BY DEF CopyFile
<1> DEFINE c == [Here EXCEPT !.files[f] = inventory[f]]
<1>1. c \in Copies /\ c.stage = Here.stage
  BY DEF Copies, Listing, CampaignTypeOK
<1>a. Here.stage = "reserved" /\ phase # "completed"
  BY DEF CopyFile, PublicationStep, StatusKnown
<1>b. copies' = [copies EXCEPT ![<<Id, root>>] = c]
  BY <1>0 DEF Here
<1>c. health' = [phase |-> phase, campaign |-> campaign]
  BY DEF CopyFile, Status
<1>2. Publishes(c) /\ Whole(c)
  BY <1>1, <1>a, <1>b, <1>c DEF CopyFile, Keeping, Publishes, Whole
<1> HIDE DEF c
<1>3. AheadUntouched' /\ SpoolNeverLastCopy' /\ ManifestIsWhole' /\ ReportIsTrue'
      /\ (health'.phase = "completed" => health'.campaign \in 1 .. campaign')
  BY <1>1, <1>2, <1>a, PublicationKeepsOthers, PublicationKeepsWhole, PublicationReported
<1>4. CampaignTypeOK'
  <2>1. step' \in Working /\ health' = [phase |-> phase, campaign |-> campaign]
    BY <1>c DEF CopyFile, Working
  <2>2. health' \in [phase : {"none", "capturing", "publishing", "completed", "failed"},
                     campaign : 0 .. MaxCampaigns]
    BY <2>1 DEF CampaignTypeOK
  <2>3. UNCHANGED <<work, source, removed, leftover, changes, late, root, inventory,
                    receipts, phase>>
    BY DEF CopyFile, Keeping
  <2> QED  BY <1>1, <1>2, <2>1, <2>2, <2>3, PublicationCopies DEF work, CampaignTypeOK
<1>5. PublicationStep'
  BY <1>1, <1>2, <1>a, PublicationCopies DEF CopyFile, PublicationStep, Here
<1>6. NothingRemovedYet' /\ UnlinkIsSafe'
  BY <1>1, <1>2, PublicationCopies DEF CopyFile, Keeping, NothingRemovedYet, UnlinkIsSafe
<1>7. ChunksSealed'
  BY <1>1, <1>2, OthersSealed DEF CopyFile, Publishes
<1>8. StatusKnown'
  BY <1>3, <1>a, <1>c DEF CopyFile, Keeping, work, StatusKnown
<1> QED  BY <1>3, <1>4, <1>5, <1>6, <1>7, <1>8

LEMMA ManifestStep == ASSUME CampaignInv, Manifest PROVE CampaignInv'
<1> DEFINE c == [Here EXCEPT !.manifest = inventory, !.stage = "manifest"]
<1> USE CurrentId DEF CampaignInv
<1>1. c \in Copies /\ c.stage = "manifest" /\ c.files = Here.files /\ c.manifest = inventory
  BY DEF Copies, Stages, CampaignTypeOK
<1>a. Here.stage = "reserved" /\ Here.files = inventory /\ phase # "completed"
      /\ \A f \in ChunkFiles : Here.files[f] # Absent
  BY DEF Manifest, Reread, PublicationStep, StatusKnown
<1>b. copies' = [copies EXCEPT ![<<Id, root>>] = c]
  BY DEF Manifest, Here
<1>2. Publishes(c) /\ Whole(c)
  BY <1>1, <1>a, <1>b DEF Manifest, Keeping, Publishes, Whole
<1> HIDE DEF c
<1>3. AheadUntouched' /\ SpoolNeverLastCopy' /\ ManifestIsWhole' /\ ReportIsTrue'
      /\ (health'.phase = "completed" => health'.campaign \in 1 .. campaign')
  BY <1>1, <1>2, PublicationKeepsOthers, PublicationKeepsWhole, PublicationReported
<1>4. CampaignTypeOK'
  BY <1>1, <1>2, PublicationCopies DEF Manifest, Keeping, work, CampaignTypeOK, Working
<1>5. PublicationStep'
  BY <1>1, <1>2, PublicationCopies DEF Manifest, Keeping, PublicationStep, Here
<1>6. NothingRemovedYet' /\ UnlinkIsSafe'
  BY <1>1, <1>2, PublicationCopies DEF Manifest, Keeping, NothingRemovedYet, UnlinkIsSafe
<1>7. ChunksSealed'
  BY <1>1, <1>2, OthersSealed DEF Manifest, Publishes
<1>8. StatusKnown'
  BY <1>3 DEF Manifest, Keeping, work, StatusKnown
<1> QED  BY <1>3, <1>4, <1>5, <1>6, <1>7, <1>8

LEMMA MarkerStep == ASSUME CampaignInv, Marker PROVE CampaignInv'
<1> DEFINE c == [Here EXCEPT !.stage = "marker"]
<1> USE CurrentId DEF CampaignInv
<1>1. c \in Copies /\ c.stage = "marker" /\ c.files = Here.files /\ c.manifest = Here.manifest
  BY DEF Copies, Stages
<1>a. Here.stage = "manifest" /\ phase # "completed"
  BY DEF Marker, PublicationStep, StatusKnown
<1>b. copies' = [copies EXCEPT ![<<Id, root>>] = c]
  BY DEF Marker, Here
<1>2. Publishes(c) /\ Whole(c)
  BY <1>1, <1>a, <1>b DEF Marker, Keeping, Publishes, Whole, ManifestIsWhole, Here
<1> HIDE DEF c
<1>3. AheadUntouched' /\ SpoolNeverLastCopy' /\ ManifestIsWhole' /\ ReportIsTrue'
      /\ (health'.phase = "completed" => health'.campaign \in 1 .. campaign')
  BY <1>1, <1>2, PublicationKeepsOthers, PublicationKeepsWhole, PublicationReported
<1>4. CampaignTypeOK'
  BY <1>1, <1>2, PublicationCopies DEF Marker, Keeping, work, CampaignTypeOK, Working
<1>5. PublicationStep'
  BY <1>1, <1>2, PublicationCopies DEF Marker, Keeping, PublicationStep, Here
<1>6. NothingRemovedYet' /\ UnlinkIsSafe'
  BY <1>1, <1>2, PublicationCopies DEF Marker, Keeping, NothingRemovedYet, UnlinkIsSafe
<1>7. ChunksSealed'
  BY <1>1, <1>2, OthersSealed DEF Marker, Publishes
<1>8. StatusKnown'
  BY <1>3 DEF Marker, Keeping, work, StatusKnown
<1> QED  BY <1>3, <1>4, <1>5, <1>6, <1>7, <1>8

LEMMA LinkStep == ASSUME CampaignInv, Link PROVE CampaignInv'
<1> DEFINE c == [Here EXCEPT !.stage = "complete"]
<1> USE CurrentId DEF CampaignInv
<1>1. c \in Copies /\ c.stage = "complete" /\ c.files = Here.files /\ c.manifest = Here.manifest
  BY DEF Copies, Stages
<1>a. Here.stage = "marker" /\ phase # "completed" /\ health.campaign = campaign
  BY DEF Link, PublicationStep, StatusKnown
<1>b. copies' = [copies EXCEPT ![<<Id, root>>] = c]
  BY DEF Link, Here
<1>c. step' \in {"reserve", "verify", "next"}
  BY DEF Link
<1>2. Publishes(c) /\ Whole(c)
  BY <1>1, <1>a, <1>b, <1>c DEF Link, Keeping, Publishes, Whole, ManifestIsWhole, Here
<1> HIDE DEF c
<1>3. AheadUntouched' /\ SpoolNeverLastCopy' /\ ManifestIsWhole' /\ ReportIsTrue'
      /\ (health'.phase = "completed" => health'.campaign \in 1 .. campaign')
  BY <1>1, <1>2, <1>a, PublicationKeepsOthers, PublicationKeepsWhole, PublicationReported
<1>4. CampaignTypeOK'
  BY <1>1, <1>2, <1>c, PublicationCopies
     DEF Link, Keeping, work, CampaignTypeOK, Working, Roots
<1>5. PublicationStep'
  BY <1>c DEF PublicationStep
<1>6. NothingRemovedYet' /\ UnlinkIsSafe'
  BY <1>1, <1>2, <1>c, PublicationCopies DEF Link, Keeping, NothingRemovedYet, UnlinkIsSafe
<1>7. ChunksSealed'
  <2>1. \A k \in 1 .. Chunks : k < chunk' => Complete(<<campaign, k>>)' /\ campaign' = campaign
    BY <1>1, <1>2, BehindSealed DEF Publishes
  <2>2. copies'[<<Id', "capture">>].stage = "complete"
    BY <1>1, <1>2, PublicationCopies DEF Link, ChunksSealed, Roots
  <2>3. step' \in {"verify", "next"} => Complete(Id)'
    BY <1>1, <1>2, <2>2, PublicationCopies DEF Link, Complete, Roots
  <2> QED  BY <1>c, <2>1, <2>2, <2>3 DEF ChunksSealed
<1>8. StatusKnown'
  BY <1>3, <1>a, <1>c DEF Link, Keeping, work, StatusKnown
<1> QED  BY <1>3, <1>4, <1>5, <1>6, <1>7, <1>8

-----------------------------------------------------------------------------
(* Steps that leave the copies alone.                                      *)

\* What only depends on the copies and on what was removed.
LEMMA CopiesKept ==
    ASSUME CampaignInv, UNCHANGED <<copies, removed, late>>
    PROVE  ManifestIsWhole' /\ SpoolNeverLastCopy'
BY DEF CampaignInv, ManifestIsWhole, SpoolNeverLastCopy

\* The document is left, or written with a phase that is not completed while
\* nothing of a later campaign is sealed.
LEMMA ReportKept ==
    ASSUME CampaignInv, UNCHANGED <<copies, campaign>>,
           health' = health \/ health' = [phase |-> phase, campaign |-> campaign],
           phase = "completed" => step = "finish" \/ health' = health
    PROVE  ReportIsTrue' /\ (health'.phase = "completed" => health'.campaign \in 1 .. campaign')
<1> USE CurrentId DEF CampaignInv
<1>1. CASE health' = health
  BY <1>1 DEF ReportIsTrue, StatusKnown
<1>2. CASE health' = [phase |-> phase, campaign |-> campaign] /\ phase # "completed"
  BY <1>2 DEF ReportIsTrue
<1>3. CASE health' = [phase |-> phase, campaign |-> campaign] /\ step = "finish"
  <2>1. \A k \in 1 .. Chunks, r \in Roots : copies[<< <<campaign, k>>, r>>].stage = "complete"
    <3> SUFFICES ASSUME NEW k \in 1 .. Chunks PROVE Complete(<<campaign, k>>)
      BY DEF Complete
    <3>1. chunk = Chunks /\ (k = chunk \/ k < chunk)
      BY <1>3 DEF ChunksSealed, CampaignTypeOK
    <3> QED  BY <1>3, <3>1 DEF ChunksSealed, Id
  <2> QED  BY <1>3, <2>1 DEF ReportIsTrue, CampaignTypeOK
<1> QED  BY <1>1, <1>2, <1>3

\* The campaign stops, or stays where it is.
LEMMA StopKeeps ==
    ASSUME CampaignInv, UNCHANGED <<work, root, inventory, receipts, source, removed,
                                    copies, changes, late>>,
           step' \in {"failed", "ended"} \/ step' = step,
           leftover' \in BOOLEAN,
           phase' = phase \/ phase' = "failed",
           step' = "failed" => phase' = "failed",
           step' = step => phase' = phase,
           health' = health \/ health' = [phase |-> phase, campaign |-> campaign],
           phase = "completed" => step = "finish" \/ health' = health
    PROVE  CampaignInv'
<1> USE DEF CampaignInv
<1>1. CampaignTypeOK'
  <2>1. health' \in [phase : {"none", "capturing", "publishing", "completed", "failed"},
                     campaign : 0 .. MaxCampaigns]
    BY DEF CampaignTypeOK
  <2>2. phase' \in {"capturing", "publishing", "completed", "failed"}
        /\ step' \in Working \cup {"failed", "ended"}
    BY DEF CampaignTypeOK
  <2> QED  BY <2>1, <2>2 DEF CampaignTypeOK, work
<1>2. AheadUntouched'
  BY DEF AheadUntouched, After, Id, work
<1>3. PublicationStep' /\ NothingRemovedYet' /\ UnlinkIsSafe'
  BY DEF PublicationStep, NothingRemovedYet, UnlinkIsSafe, Here, Id, work
<1>4. ChunksSealed'
  BY DEF ChunksSealed, Complete, Id, work
<1>5. ManifestIsWhole' /\ SpoolNeverLastCopy' /\ ReportIsTrue'
      /\ (health'.phase = "completed" => health'.campaign \in 1 .. campaign')
  BY CopiesKept, ReportKept DEF work
<1>6. StatusKnown'
  BY <1>5 DEF StatusKnown, work, CampaignTypeOK
<1> QED  BY <1>1, <1>2, <1>3, <1>4, <1>5, <1>6

LEMMA QuietSteps ==
    ASSUME CampaignInv, Tick \/ ReportFailure \/ Interrupt \/ CampaignDies \/ Blocked
                        \/ Mismatch \/ Finish
    PROVE  CampaignInv'
<1>1. leftover \in BOOLEAN /\ (phase = "completed" => step \in {"finish", "ended"})
  BY DEF CampaignInv, CampaignTypeOK, StatusKnown
<1>2. CASE Tick
  BY <1>1, <1>2, StopKeeps DEF Tick, Status, work
<1>3. CASE ReportFailure
  BY <1>1, <1>3, StopKeeps DEF ReportFailure, Status, work
<1>4. CASE Interrupt
  BY <1>1, <1>4, StopKeeps DEF Interrupt, Failed, work, Working
<1>5. CASE CampaignDies
  BY <1>1, <1>5, StopKeeps DEF CampaignDies, work
<1>6. CASE Blocked
  BY <1>1, <1>6, StopKeeps DEF Blocked, Failed, work
<1>7. CASE Mismatch
  BY <1>1, <1>7, StopKeeps DEF Mismatch, Failed, work
<1>8. CASE Finish
  BY <1>1, <1>8, StopKeeps DEF Finish, Status, work
<1> QED  BY <1>2, <1>3, <1>4, <1>5, <1>6, <1>7, <1>8

\* A later file set: nothing of what lies ahead was touched.
LEMMA CloseChunkStep == ASSUME CampaignInv, CloseChunk PROVE CampaignInv'
<1> USE CurrentId DEF CampaignInv
<1>1. /\ step = "capture" /\ step' = "reserve" /\ phase' = "publishing" /\ root' = "capture"
      /\ UNCHANGED <<prune, campaign, chunk, inventory, removed, copies, health, leftover,
                     changes, late>> /\ Id' = Id
  BY DEF CloseChunk, work, Id
<1>2. CampaignTypeOK'
  <2>1. [f \in ChunkFiles |-> Closed] \in Listing /\ Nothing \in Listing
    BY DEF Listing, Nothing
  <2>2. source' \in [Ids -> Listing] /\ receipts' \in [Roots -> Listing]
    BY <2>1 DEF CloseChunk, CampaignTypeOK
  <2> QED  BY <1>1, <2>2 DEF CampaignTypeOK, Working, Roots
<1>3. removed[Id] = Nothing
  BY <1>1 DEF NothingRemovedYet
<1>4. AheadUntouched'
  BY <1>1 DEF AheadUntouched, After
<1>5. PublicationStep' /\ NothingRemovedYet' /\ UnlinkIsSafe'
  BY <1>1, <1>3 DEF PublicationStep, NothingRemovedYet, UnlinkIsSafe
<1>6. ChunksSealed'
  BY <1>1 DEF ChunksSealed, Complete
<1>7. ManifestIsWhole' /\ SpoolNeverLastCopy' /\ ReportIsTrue'
      /\ (health'.phase = "completed" => health'.campaign \in 1 .. campaign')
  BY <1>1, CopiesKept, ReportKept
<1>8. StatusKnown'
  BY <1>1, <1>7 DEF StatusKnown
<1> QED  BY <1>2, <1>4, <1>5, <1>6, <1>7, <1>8

LEMMA NextChunkStep == ASSUME CampaignInv, NextChunk PROVE CampaignInv'
<1> USE CurrentId DEF CampaignInv
<1>1. /\ step = "next" /\ phase # "completed"
      /\ UNCHANGED <<prune, campaign, root, inventory, receipts, source, removed, copies,
                     leftover, changes, late>>
      /\ health' = [phase |-> phase, campaign |-> campaign]
  BY DEF NextChunk, Status, StatusKnown
<1>2. campaign \in 1 .. MaxCampaigns /\ chunk \in 1 .. Chunks /\ Chunks \in Nat
      /\ MaxCampaigns \in Nat
  BY CampaignBounds DEF CampaignTypeOK
<1>3. \/ chunk < Chunks /\ chunk' = chunk + 1 /\ step' = "capture" /\ phase' = "capturing"
      \/ chunk = Chunks /\ chunk' = chunk /\ step' = "finish" /\ phase' = "completed"
  BY <1>2 DEF NextChunk
<1>4. CampaignTypeOK'
  <2>1. health' \in [phase : {"none", "capturing", "publishing", "completed", "failed"},
                     campaign : 0 .. MaxCampaigns]
    BY <1>1 DEF CampaignTypeOK
  <2> QED  BY <1>1, <1>3, <1>2, <2>1 DEF CampaignTypeOK, Working
<1>5. AheadUntouched'
  <2> SUFFICES ASSUME NEW i \in Ids, After(i)' \/ (i = Id' /\ step' = "capture")
               PROVE  removed'[i] = Nothing /\ \A r \in Roots : copies'[<<i, r>>] = NoCopy
    BY DEF AheadUntouched
  <2>1. After(i)
    BY <1>1, <1>3, <1>2 DEF After, Id, Ids
  <2> QED  BY <1>1, <2>1 DEF AheadUntouched
<1>6. PublicationStep' /\ UnlinkIsSafe'
  BY <1>3 DEF PublicationStep, UnlinkIsSafe
<1>7. NothingRemovedYet'
  <2>1. Id' \in Ids
    BY <1>1, <1>3, <1>2 DEF Id, Ids
  <2> QED  BY <1>3, <1>5, <2>1 DEF NothingRemovedYet, AheadUntouched
<1>8. ChunksSealed'
  <2>1. Complete(Id) /\ \A k \in 1 .. Chunks : k < chunk => Complete(<<campaign, k>>)
    BY <1>1 DEF ChunksSealed
  <2>2. \A k \in 1 .. Chunks : k < chunk' => Complete(<<campaign, k>>)
    BY <1>3, <1>2, <2>1 DEF Id
  <2>3. step' = "finish" => Complete(Id)' /\ chunk' = Chunks
    BY <1>1, <1>3, <2>1 DEF Complete, Id
  <2> QED  BY <1>1, <1>3, <2>2, <2>3 DEF ChunksSealed, Complete
<1>9. ManifestIsWhole' /\ SpoolNeverLastCopy' /\ ReportIsTrue'
      /\ (health'.phase = "completed" => health'.campaign \in 1 .. campaign')
  BY <1>1, CopiesKept, ReportKept
<1>10. StatusKnown'
  BY <1>1, <1>3, <1>9 DEF StatusKnown
<1> QED  BY <1>4, <1>5, <1>6, <1>7, <1>8, <1>9, <1>10

LEMMA NextCampaignStep == ASSUME CampaignInv, NextCampaign PROVE CampaignInv'
<1> USE CurrentId DEF CampaignInv
<1>1. /\ campaign < MaxCampaigns /\ campaign' = campaign + 1 /\ chunk' = 1
      /\ step' = "capture" /\ root' = "capture" /\ phase' = "capturing"
      /\ inventory' = Nothing /\ receipts' = [r \in Roots |-> Nothing]
      /\ UNCHANGED <<prune, source, removed, copies, changes, late>>
      /\ \/ UNCHANGED <<leftover, health>>
         \/ leftover' = FALSE /\ health' = [phase |-> "none", campaign |-> 0]
  BY DEF NextCampaign
<1>2. campaign \in 1 .. MaxCampaigns /\ chunk \in 1 .. Chunks /\ Chunks \in Nat
      /\ MaxCampaigns \in Nat
  BY CampaignBounds DEF CampaignTypeOK
<1>3. CampaignTypeOK'
  <2>1. Nothing \in Listing
    BY DEF Listing, Nothing
  <2>2. health' \in [phase : {"none", "capturing", "publishing", "completed", "failed"},
                     campaign : 0 .. MaxCampaigns]
    <3>1. CASE health' = health
      BY <3>1 DEF CampaignTypeOK
    <3>2. CASE health' = [phase |-> "none", campaign |-> 0]
      BY <1>2, <3>2
    <3> QED  BY <1>1, <3>1, <3>2
  <2>3. campaign' \in 1 .. MaxCampaigns /\ chunk' \in 1 .. Chunks
    BY <1>1, <1>2
  <2>4. step' \in Working /\ root' \in Roots /\ leftover' \in BOOLEAN
        /\ phase' \in {"capturing", "publishing", "completed", "failed"}
    BY <1>1 DEF Working, Roots, CampaignTypeOK
  <2> QED  BY <1>1, <2>1, <2>2, <2>3, <2>4 DEF CampaignTypeOK
<1>4. \A i \in Ids : i[1] > campaign =>
          removed[i] = Nothing /\ \A r \in Roots : copies[<<i, r>>] = NoCopy
  BY DEF AheadUntouched, After
<1>5. AheadUntouched'
  <2> SUFFICES ASSUME NEW i \in Ids, After(i)' \/ (i = Id' /\ step' = "capture")
               PROVE  removed'[i] = Nothing /\ \A r \in Roots : copies'[<<i, r>>] = NoCopy
    BY DEF AheadUntouched
  <2>1. i[1] > campaign
    BY <1>1, <1>2 DEF After, Id, Ids
  <2> QED  BY <1>1, <1>4, <2>1
<1>6. PublicationStep' /\ UnlinkIsSafe' /\ ChunksSealed'
  BY <1>1, <1>2 DEF PublicationStep, UnlinkIsSafe, ChunksSealed
<1>7. NothingRemovedYet'
  <2>1. Id' \in Ids /\ Id'[1] > campaign
    BY <1>1, <1>2 DEF Id, Ids
  <2> QED  BY <1>1, <1>4, <2>1 DEF NothingRemovedYet
<1>8. ManifestIsWhole' /\ SpoolNeverLastCopy'
  BY <1>1, CopiesKept
<1>9. health'.phase = "completed" => health' = health /\ health.campaign \in 1 .. campaign
  BY <1>1 DEF StatusKnown
<1>10. ReportIsTrue'
  <2>1. \A k \in 1 .. Chunks, r \in Roots :
            copies[<< <<campaign', k>>, r>>].stage # "complete"
    <3> SUFFICES ASSUME NEW k \in 1 .. Chunks, NEW r \in Roots
                 PROVE  copies[<< <<campaign', k>>, r>>] = NoCopy
      <4>1. NoCopy.stage # "complete"
        BY DEF NoCopy
      <4> QED  BY <4>1
    <3>1. <<campaign', k>> \in Ids /\ <<campaign', k>>[1] > campaign
      BY <1>1, <1>2 DEF Ids
    <3> QED  BY <1>4, <3>1
  <2> QED  BY <1>1, <1>9, <2>1 DEF ReportIsTrue
<1>11. StatusKnown'
  BY <1>1, <1>2, <1>9 DEF StatusKnown
<1> QED  BY <1>3, <1>5, <1>6, <1>7, <1>8, <1>10, <1>11

-----------------------------------------------------------------------------
(* remove_verified_spool_duplicate.                                        *)

LEMMA VerifyStep == ASSUME CampaignInv, Verify PROVE CampaignInv'
<1> USE CurrentId DEF CampaignInv
<1>1. /\ step = "verify" /\ step' = "unlink" /\ late' = {d \in late : d[1] # Id}
      /\ UNCHANGED <<prune, campaign, chunk, root, inventory, receipts, source, removed,
                     copies, phase, health, leftover, changes>> /\ Id' = Id
  BY DEF Verify, work, Id
<1>2. \A r \in Roots : /\ copies[<<Id, r>>].stage = "complete"
                       /\ copies[<<Id, r>>].files = source[Id]
                       /\ copies[<<Id, r>>].manifest = source[Id]
                       /\ receipts[r] = source[Id]
  BY DEF Verify, BothSealed
<1>3. CampaignTypeOK'
  BY <1>1 DEF CampaignTypeOK, Working
<1>4. AheadUntouched' /\ PublicationStep' /\ NothingRemovedYet'
  BY <1>1 DEF AheadUntouched, After, PublicationStep, NothingRemovedYet
<1>5. UnlinkIsSafe'
  BY <1>1, <1>2 DEF UnlinkIsSafe, Roots
<1>6. ChunksSealed'
  BY <1>1 DEF ChunksSealed, Complete
<1>7. ReportIsTrue' /\ StatusKnown'
  BY <1>1, ReportKept DEF StatusKnown
<1>8. ManifestIsWhole'
  <2> SUFFICES ASSUME NEW i \in Ids, NEW r \in Roots,
                      copies[<<i, r>>].stage \in {"manifest", "marker", "complete"}
               PROVE  /\ \A f \in ChunkFiles : copies[<<i, r>>].manifest[f] # Absent
                      /\ copies[<<i, r>>].files = copies[<<i, r>>].manifest
                         \/ <<i, r>> \in late'
    BY <1>1 DEF ManifestIsWhole
  <2>1. /\ \A f \in ChunkFiles : copies[<<i, r>>].manifest[f] # Absent
        /\ copies[<<i, r>>].files = copies[<<i, r>>].manifest \/ <<i, r>> \in late
    BY DEF ManifestIsWhole
  <2>2. CASE i = Id
    BY <1>2, <2>1, <2>2
  <2>3. CASE i # Id
    BY <1>1, <2>1, <2>3
  <2> QED  BY <2>2, <2>3
<1>9. SpoolNeverLastCopy'
  <2> SUFFICES ASSUME NEW i \in Ids, NEW f \in ChunkFiles, NEW r \in Roots,
                      removed[i][f] # Absent
               PROVE  /\ copies[<<i, r>>].stage = "complete"
                      /\ copies[<<i, r>>].files[f] = removed[i][f] \/ <<i, r>> \in late'
    BY <1>1 DEF SpoolNeverLastCopy
  <2>1. i # Id
    BY <1>1 DEF NothingRemovedYet, Nothing
  <2> QED  BY <1>1, <2>1 DEF SpoolNeverLastCopy
<1> QED  BY <1>3, <1>4, <1>5, <1>6, <1>7, <1>8, <1>9

LEMMA UnlinkStep == ASSUME CampaignInv, Unlink PROVE CampaignInv'
<1> USE CurrentId DEF CampaignInv
<1>1. /\ step = "unlink" /\ step' \in {"unlink", "next"}
      /\ UNCHANGED <<prune, campaign, chunk, root, inventory, receipts, copies, phase,
                     health, leftover, changes, late>> /\ Id' = Id
  BY DEF Unlink, work, Id
<1>2. PICK f \in ChunkFiles :
          /\ source[Id][f] # Absent /\ source[Id][f] = receipts["capture"][f]
          /\ source' = [source EXCEPT ![Id][f] = Absent]
          /\ removed' = [removed EXCEPT ![Id][f] = source[Id][f]]
  BY DEF Unlink
<1>3. /\ removed' \in [Ids -> Listing] /\ source' \in [Ids -> Listing]
      /\ \A j \in Ids : j # Id => removed'[j] = removed[j]
      /\ removed'[Id][f] = receipts["capture"][f]
      /\ \A g \in ChunkFiles : g # f => removed'[Id][g] = removed[Id][g]
  BY <1>2 DEF CampaignTypeOK, Listing
<1>4. CampaignTypeOK'
  BY <1>1, <1>3 DEF CampaignTypeOK, Working
<1>5. AheadUntouched'
  <2> SUFFICES ASSUME NEW i \in Ids, After(i)' \/ (i = Id' /\ step' = "capture")
               PROVE  removed'[i] = Nothing /\ \A r \in Roots : copies'[<<i, r>>] = NoCopy
    BY DEF AheadUntouched
  <2>1. After(i) /\ i # Id
    BY <1>1 DEF After, CampaignTypeOK
  <2> QED  BY <1>1, <1>3, <2>1 DEF AheadUntouched
<1>6. PublicationStep' /\ NothingRemovedYet' /\ UnlinkIsSafe'
  BY <1>1 DEF PublicationStep, NothingRemovedYet, UnlinkIsSafe
<1>7. ChunksSealed'
  BY <1>1 DEF ChunksSealed, Complete
<1>8. ReportIsTrue' /\ StatusKnown'
  BY <1>1, ReportKept DEF StatusKnown
<1>9. ManifestIsWhole'
  BY <1>1 DEF ManifestIsWhole
<1>10. SpoolNeverLastCopy'
  <2> SUFFICES ASSUME NEW i \in Ids, NEW g \in ChunkFiles, NEW r \in Roots,
                      removed'[i][g] # Absent
               PROVE  /\ copies[<<i, r>>].stage = "complete"
                      /\ copies[<<i, r>>].files[g] = removed'[i][g] \/ <<i, r>> \in late
    BY <1>1 DEF SpoolNeverLastCopy
  <2>1. CASE i = Id /\ g = f
    BY <1>1, <1>3, <2>1 DEF UnlinkIsSafe
  <2>2. CASE i # Id \/ g # f
    BY <1>3, <2>2 DEF SpoolNeverLastCopy
  <2> QED  BY <2>1, <2>2
<1> QED  BY <1>4, <1>5, <1>6, <1>7, <1>8, <1>9, <1>10

-----------------------------------------------------------------------------
(* Someone else changes a file.                                            *)

LEMMA ChangeStep == ASSUME CampaignInv, Change PROVE CampaignInv'
<1> USE CurrentId DEF CampaignInv
<1>1. /\ changes' = changes + 1 /\ Id' = Id
      /\ UNCHANGED <<prune, campaign, chunk, step, root, inventory, receipts, removed,
                     phase, health, leftover>>
  BY DEF Change, work, Id
<1>2. CASE UNCHANGED <<copies, late>>
  <2>1. source' \in [Ids -> Listing]
    <3>1. CASE source' = source
      BY <3>1 DEF CampaignTypeOK
    <3>2. ASSUME NEW f \in ChunkFiles, source' = [source EXCEPT ![Id][f] = Changed]
          PROVE  source' \in [Ids -> Listing]
      BY <3>2 DEF CampaignTypeOK, Listing
    <3> QED  BY <3>1, <3>2 DEF Change
  <2>2. CampaignTypeOK'
    BY <1>1, <1>2, <2>1 DEF CampaignTypeOK
  <2>3. AheadUntouched' /\ PublicationStep' /\ NothingRemovedYet' /\ UnlinkIsSafe'
    BY <1>1, <1>2 DEF AheadUntouched, After, PublicationStep, NothingRemovedYet,
                      UnlinkIsSafe, Here
  <2>4. ChunksSealed' /\ StatusKnown'
    BY <1>1, <1>2 DEF ChunksSealed, Complete, StatusKnown
  <2>5. ManifestIsWhole' /\ SpoolNeverLastCopy' /\ ReportIsTrue'
    BY <1>1, <1>2 DEF ManifestIsWhole, SpoolNeverLastCopy, ReportIsTrue
  <2> QED  BY <2>2, <2>3, <2>4, <2>5
<1>3. ASSUME NEW f \in ChunkFiles, NEW r \in Roots,
             copies[<<Id, r>>].files[f] = Closed,
             copies' = [copies EXCEPT ![<<Id, r>>].files[f] = Changed],
             late' = IF copies[<<Id, r>>].stage = "reserved" THEN late
                     ELSE late \cup {<<Id, r>>},
             UNCHANGED source
      PROVE  CampaignInv'
  <2> DEFINE c == [copies[<<Id, r>>] EXCEPT !.files[f] = Changed]
  <2>1. /\ c \in Copies /\ c.stage = copies[<<Id, r>>].stage
        /\ c.manifest = copies[<<Id, r>>].manifest
        /\ \A g \in ChunkFiles : c.files[g] # Absent \/ c.files[g] = copies[<<Id, r>>].files[g]
    <3> DEFINE old == copies[<<Id, r>>]  fs == [old.files EXCEPT ![f] = Changed]
    <3>1. /\ old.files \in Listing /\ old.manifest \in Listing /\ old.stage \in Stages
          /\ old = [files |-> old.files, manifest |-> old.manifest, stage |-> old.stage]
      BY DEF Copies
    <3>2. /\ fs \in Listing
          /\ \A g \in ChunkFiles : fs[g] # Absent \/ fs[g] = old.files[g]
      BY <3>1 DEF Listing, Changed, Absent
    <3>3. c = [files |-> fs, manifest |-> old.manifest, stage |-> old.stage]
      BY <3>1
    <3> HIDE DEF c, fs, old
    <3>4. c \in Copies /\ c.files = fs /\ c.stage = old.stage /\ c.manifest = old.manifest
      BY <3>1, <3>2, <3>3 DEF Copies
    <3> QED  BY <3>2, <3>4 DEF old
  <2>2. copies' = [copies EXCEPT ![<<Id, r>>] = c]
    BY <1>3
  <2> HIDE DEF c
  <2>3. /\ copies' \in [Ids \X Roots -> Copies] /\ copies'[<<Id, r>>] = c
        /\ \A j \in Ids, s \in Roots :
               <<j, s>> # <<Id, r>> => copies'[<<j, s>>] = copies[<<j, s>>]
    BY <2>1, <2>2, CopyChanges
  <2>4. \A j \in Ids, s \in Roots : copies'[<<j, s>>].stage = copies[<<j, s>>].stage
    BY <2>1, <2>3
  <2>5. late \subseteq late' /\ late' \subseteq Ids \X Roots
        /\ (c.stage # "reserved" => <<Id, r>> \in late')
    BY <1>3, <2>1 DEF CampaignTypeOK
  <2>6. CampaignTypeOK'
    <3>1. changes' \in Nat
      BY <1>1 DEF CampaignTypeOK
    <3> QED  BY <1>1, <1>3, <2>3, <2>5, <3>1 DEF CampaignTypeOK
  <2>7. AheadUntouched'
    <3> SUFFICES ASSUME NEW i \in Ids, After(i) \/ (i = Id /\ step = "capture")
                 PROVE  removed[i] = Nothing /\ \A s \in Roots : copies'[<<i, s>>] = NoCopy
      BY <1>1 DEF AheadUntouched, After
    <3>1. removed[i] = Nothing /\ \A s \in Roots : copies[<<i, s>>] = NoCopy
      BY DEF AheadUntouched
    <3>2. i # Id
      BY <1>3, <3>1 DEF NoCopy, Nothing, Closed, Absent
    <3> QED  BY <2>3, <3>1, <3>2
  <2>8. PublicationStep'
    <3>1. \A g \in ChunkFiles : Here.files[g] # Absent => Here'.files[g] # Absent
      BY <1>1, <2>1, <2>3 DEF Here
    <3>2. Here'.stage = Here.stage
      BY <1>1, <2>4 DEF Here
    <3> QED  BY <1>1, <3>1, <3>2 DEF PublicationStep
  <2>9. ManifestIsWhole'
    <3> SUFFICES ASSUME NEW j \in Ids, NEW s \in Roots,
                        copies'[<<j, s>>].stage \in {"manifest", "marker", "complete"}
                 PROVE  /\ \A g \in ChunkFiles : copies'[<<j, s>>].manifest[g] # Absent
                        /\ copies'[<<j, s>>].files = copies'[<<j, s>>].manifest
                           \/ <<j, s>> \in late'
      BY DEF ManifestIsWhole
    <3>1. /\ \A g \in ChunkFiles : copies[<<j, s>>].manifest[g] # Absent
          /\ copies[<<j, s>>].files = copies[<<j, s>>].manifest \/ <<j, s>> \in late
      BY <2>4 DEF ManifestIsWhole
    <3>2. CASE <<j, s>> = <<Id, r>>
      BY <2>1, <2>3, <2>5, <3>1, <3>2
    <3>3. CASE <<j, s>> # <<Id, r>>
      BY <2>3, <2>5, <3>1, <3>3
    <3> QED  BY <3>2, <3>3
  <2>10. NothingRemovedYet'
    BY <1>1 DEF NothingRemovedYet
  <2>11. UnlinkIsSafe'
    <3> SUFFICES ASSUME step = "unlink", NEW s \in Roots
                 PROVE  /\ copies'[<<Id, s>>].stage = "complete"
                        /\ copies'[<<Id, s>>].files = receipts["capture"]
                           \/ <<Id, s>> \in late'
      BY <1>1 DEF UnlinkIsSafe
    <3>1. /\ copies[<<Id, s>>].stage = "complete"
          /\ copies[<<Id, s>>].files = receipts["capture"] \/ <<Id, s>> \in late
      BY DEF UnlinkIsSafe
    <3>2. CASE s = r
      BY <2>1, <2>3, <2>5, <3>1, <3>2
    <3>3. CASE s # r
      BY <2>3, <2>5, <3>1, <3>3
    <3> QED  BY <3>2, <3>3
  <2>12. ChunksSealed'
    <3>1. \A k \in 1 .. Chunks : <<campaign, k>> \in Ids
      BY DEF Ids, CampaignTypeOK
    <3> QED  BY <1>1, <2>4, <3>1 DEF ChunksSealed, Complete, Roots
  <2>13. StatusKnown'
    BY <1>1 DEF StatusKnown
  <2>14. SpoolNeverLastCopy'
    <3> SUFFICES ASSUME NEW j \in Ids, NEW g \in ChunkFiles, NEW s \in Roots,
                        removed[j][g] # Absent
                 PROVE  /\ copies'[<<j, s>>].stage = "complete"
                        /\ copies'[<<j, s>>].files[g] = removed[j][g] \/ <<j, s>> \in late'
      BY <1>1 DEF SpoolNeverLastCopy
    <3>1. /\ copies[<<j, s>>].stage = "complete"
          /\ copies[<<j, s>>].files[g] = removed[j][g] \/ <<j, s>> \in late
      BY DEF SpoolNeverLastCopy
    <3>2. CASE <<j, s>> = <<Id, r>>
      BY <2>1, <2>3, <2>5, <3>1, <3>2
    <3>3. CASE <<j, s>> # <<Id, r>>
      BY <2>3, <2>5, <3>1, <3>3
    <3> QED  BY <3>2, <3>3
  <2>15. ReportIsTrue'
    <3>1. \A k \in 1 .. Chunks : <<campaign, k>> \in Ids
      BY DEF Ids, CampaignTypeOK
    <3>2. ASSUME health.phase = "completed"
          PROVE  \A k \in 1 .. Chunks : <<health.campaign, k>> \in Ids
      BY <3>2 DEF StatusKnown, Ids, CampaignTypeOK
    <3> QED  BY <1>1, <2>4, <3>1, <3>2 DEF ReportIsTrue
  <2> QED  BY <2>6, <2>7, <2>8, <2>9, <2>10, <2>11, <2>12, <2>13, <2>14, <2>15
<1> QED  BY <1>2, <1>3 DEF Change

-----------------------------------------------------------------------------
LEMMA CampaignStarts == CampaignInit => CampaignInv
<1> SUFFICES ASSUME CampaignInit PROVE CampaignInv
  OBVIOUS
<1> USE CampaignBounds DEF CampaignInit
<1>1. NoCopy \in Copies /\ Nothing \in Listing /\ NoCopy.stage = "absent"
  BY DEF NoCopy, Copies, Nothing, Listing, Stages
<1>2. CampaignTypeOK
  <2>1. /\ prune \in BOOLEAN /\ leftover \in BOOLEAN /\ changes \in Nat
        /\ late \subseteq Ids \X Roots /\ root \in Roots
    BY DEF Roots
  <2>2. campaign \in 1 .. MaxCampaigns /\ chunk \in 1 .. Chunks
    BY CampaignBounds
  <2>3. step \in Working /\ phase \in {"capturing", "publishing", "completed", "failed"}
    BY DEF Working
  <2>4. /\ inventory \in Listing /\ receipts \in [Roots -> Listing]
        /\ {source, removed} \subseteq [Ids -> Listing] /\ copies \in [Ids \X Roots -> Copies]
    BY <1>1
  <2>5. health \in [phase : {"none", "capturing", "publishing", "completed", "failed"},
                    campaign : 0 .. MaxCampaigns]
    OBVIOUS
  <2> QED  BY <2>1, <2>2, <2>3, <2>4, <2>5 DEF CampaignTypeOK
<1>3. \A i \in Ids : removed[i] = Nothing /\ \A r \in Roots : copies[<<i, r>>] = NoCopy
  OBVIOUS
<1>4. AheadUntouched
  BY <1>3 DEF AheadUntouched
<1>5. PublicationStep /\ UnlinkIsSafe /\ ChunksSealed /\ StatusKnown
  BY DEF PublicationStep, UnlinkIsSafe, ChunksSealed, StatusKnown
<1>6. NothingRemovedYet
  BY <1>2, <1>3, CurrentId DEF NothingRemovedYet
<1>7. SpoolNeverLastCopy
  BY <1>3 DEF SpoolNeverLastCopy, Nothing
<1>8. ManifestIsWhole
  BY <1>1 DEF ManifestIsWhole
<1>9. ReportIsTrue
  <2>1. \A k \in 1 .. Chunks, r \in Roots : copies[<< <<campaign, k>>, r>>] = NoCopy
    BY DEF Ids
  <2> QED  BY <1>1, <2>1 DEF ReportIsTrue
<1> QED  BY <1>2, <1>4, <1>5, <1>6, <1>7, <1>8, <1>9 DEF CampaignInv

LEMMA CampaignInductive == CampaignInv /\ [CampaignNext]_campaignVars => CampaignInv'
<1> SUFFICES ASSUME CampaignInv, [CampaignNext]_campaignVars PROVE CampaignInv'
  OBVIOUS
<1>1. CASE UNCHANGED campaignVars
  <2> USE <1>1 DEF campaignVars, CampaignInv
  <2>1. CampaignTypeOK'
    BY DEF CampaignTypeOK
  <2>2. AheadUntouched' /\ PublicationStep' /\ NothingRemovedYet' /\ UnlinkIsSafe'
    BY DEF AheadUntouched, After, PublicationStep, NothingRemovedYet, UnlinkIsSafe, Here, Id
  <2>3. ChunksSealed' /\ StatusKnown' /\ ManifestIsWhole'
    BY DEF ChunksSealed, Complete, StatusKnown, ManifestIsWhole, Id
  <2>4. SpoolNeverLastCopy' /\ ReportIsTrue'
    BY DEF SpoolNeverLastCopy, ReportIsTrue
  <2> QED  BY <2>1, <2>2, <2>3, <2>4
<1>2. CASE CampaignNext
  BY <1>2, QuietSteps, CloseChunkStep, ReserveStep, CopyFileStep, ManifestStep, MarkerStep,
     LinkStep, VerifyStep, UnlinkStep, NextChunkStep, NextCampaignStep, ChangeStep
     DEF CampaignNext
<1> QED  BY <1>1, <1>2

\* The invariant holds in every reachable state of every campaign.
\* (collect_campaign, publish_closed_chunk, remove_verified_spool_duplicate.)
THEOREM CampaignCorrect == CampaignSpec => []CampaignInv
BY CampaignStarts, CampaignInductive, PTL DEF CampaignSpec

\* Whatever the number of files, chunks, campaigns and changes, and wherever the
\* process dies: a file leaves the spool only when both destinations hold it.
\* (remove_verified_spool_duplicate.)
THEOREM SpoolHeldElsewhere == CampaignSpec => []SpoolNeverLastCopy
<1>1. CampaignInv => SpoolNeverLastCopy
  BY DEF CampaignInv
<1> QED  BY <1>1, CampaignCorrect, PTL

\* A destination that carries COMPLETE.json holds every file its manifest lists.
\* (publish_closed_chunk.)
THEOREM SealedCopyIsWhole == CampaignSpec => []SealedIsWhole
<1>1. CampaignInv => SealedIsWhole
  BY DEF CampaignInv, CampaignTypeOK, ManifestIsWhole, SealedIsWhole
<1> QED  BY <1>1, CampaignCorrect, PTL

\* runtime-health.json says completed only of a campaign whose every chunk is sealed,
\* and nothing is sealed that it does not name. (collect_campaign, _status.)
THEOREM StatusReportIsTrue == CampaignSpec => []ReportIsTrue
<1>1. CampaignInv => ReportIsTrue
  BY DEF CampaignInv
<1> QED  BY <1>1, CampaignCorrect, PTL
=============================================================================
