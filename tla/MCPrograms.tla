------------------------------ MODULE MCPrograms ------------------------------
(***************************************************************************)
(* Six programs of the repository that share nothing, checked by one run:   *)
(* a behaviour is one of them while the others rest in one initial state.   *)
(***************************************************************************)
EXTENDS VenueBooks, CollectorCampaign, ParquetWriter, PricePrecision, PaperRun, HistFunding

VARIABLE program

programVars == <<program, bookVars, campaignVars, writerVars, gridVars, runVars, fundingVars>>

Rest(what) == program # what

\* Changes alternate between two price levels.
TwoLevels == {0, 1}
AlternatingLevels == [n \in 1 .. MaxBookChanges |-> n % 2]

Init ==
    /\ program \in {"books", "campaign", "writer", "grid", "run", "funding"}
    /\ BooksInit /\ (Rest("books") => venue = "spot")
    /\ CampaignInit /\ (Rest("campaign") => ~ prune)
    /\ WriterInit
    /\ IF Rest("grid") THEN quoted = 1 /\ side = "BUY" /\ use = "adverse" /\ rounded = 1
       ELSE GridInit
    /\ RunInit
    /\ FundingInit /\ (Rest("funding") => day = 0)

Books ==
    /\ program = "books" /\ BooksNext
    /\ UNCHANGED <<campaignVars, writerVars, gridVars, runVars, fundingVars>>
Campaign ==
    /\ program = "campaign" /\ CampaignNext
    /\ UNCHANGED <<bookVars, writerVars, gridVars, runVars, fundingVars>>
Writer ==
    /\ program = "writer" /\ WriterNext
    /\ UNCHANGED <<bookVars, campaignVars, gridVars, runVars, fundingVars>>
Grid ==
    /\ program = "grid" /\ GridNext
    /\ UNCHANGED <<bookVars, campaignVars, writerVars, runVars, fundingVars>>
Run ==
    /\ program = "run" /\ RunNext
    /\ UNCHANGED <<bookVars, campaignVars, writerVars, gridVars, fundingVars>>
Funding ==
    /\ program = "funding" /\ FundingNext
    /\ UNCHANGED <<bookVars, campaignVars, writerVars, gridVars, runVars>>

Next == (Books \/ Campaign \/ Writer \/ Grid \/ Run \/ Funding) /\ UNCHANGED program

Spec == Init /\ [][Next]_programVars /\ (program = "writer" => WriterFairness)
=============================================================================
