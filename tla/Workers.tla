------------------------------ MODULE Workers ------------------------------
(***************************************************************************)
(* The components main.py runs a cleanup worker for, side by side:         *)
(* purchase plans, exports and share links.  They share no state: a        *)
(* behaviour is one of the component chosen at its start.  PurchasePlans   *)
(* is extended, the others are instances.                                  *)
(***************************************************************************)
EXTENDS PurchasePlans

CONSTANTS
    \* ExportJobs
    Jobs, MaxStops,
    \* Shares
    Users, Durations, Permanent, MaxShares, MaxEdits, MaxTime

\* A link that expires does so after some seconds.
ASSUME DurationsAssumption == Durations \subseteq Nat

VARIABLES
    chosen,
    row, asked, file, tmp, task, cancelled, server, unlink, stops,
    expires, issued, edit, edits, cleanup, time

planning == vars
exporting == <<row, asked, file, tmp, task, cancelled, server, unlink, stops>>
sharing == <<expires, issued, edit, edits, cleanup, time>>
allVars == <<chosen, planning, exporting, sharing>>

Exports == INSTANCE ExportJobs
Sharing == INSTANCE Shares

AllInit ==
    /\ chosen \in {"plans", "exports", "links"}
    /\ Init /\ Exports!Init /\ Sharing!Init

OfPlans(step) == chosen = "plans" /\ step /\ UNCHANGED <<chosen, exporting, sharing>>
OfExports(step) == chosen = "exports" /\ step /\ UNCHANGED <<chosen, planning, sharing>>
OfLinks(step) == chosen = "links" /\ step /\ UNCHANGED <<chosen, planning, exporting>>

AllNext == OfPlans(Next) \/ OfExports(Exports!Next) \/ OfLinks(Sharing!Next)

\* The fairness of PurchasePlans and of ExportJobs.
AllFairness ==
    /\ \A r \in Requests : WF_allVars(OfPlans(Fail(r) \/ Commit(r)))
    /\ WF_allVars(OfPlans(cleanup_moved_plans_once))
    /\ \A j \in Jobs : WF_allVars(OfExports(Exports!JobStep(j)))
    /\ WF_allVars(OfExports(Exports!ServerStep))

AllSpec == AllInit /\ [][AllNext]_allVars /\ AllFairness

\* As ExportJobs says: nothing but a cancellation parts a successful job from its file.
OnlyCancelledLacksFile == Exports!OnlyCancelledLacksFile

\* As ExportJobs says: a started export is over some day.
StartedExportEnds == Exports!StartedExportEnds

\* As Shares says: cleaning takes no link that works.
WorkingLinksStay == Sharing!WorkingLinksStay
=============================================================================
