----------------------------- MODULE MCCollection -----------------------------
(***************************************************************************)
(* Small instances for TLC of the components whose progress matters: the   *)
(* collection plan and the collection of news sources.  They share no      *)
(* variable; a behaviour exercises one of them, its part, under the        *)
(* fairness of that part, and leaves the other as it begins.               *)
(***************************************************************************)
EXTENDS CollectionPlan, Sources

VARIABLE part

\* Every market is on one exchange.
MCPlatformOf == [m \in Market |-> CHOOSE p \in Platform : TRUE]

\* A feed that loses its document's link, and gains an entry whose date is missing at
\* first.
MCEntry(id, url, text, dated) == [id |-> id, url |-> url, text |-> text, dated |-> dated]
MCVersions ==
  <<[entries |-> <<MCEntry("a", "p", 1, TRUE)>>, flaws |-> {"truncated"}],
    [entries |-> <<MCEntry("a", "x", 2, TRUE), MCEntry("b", "p", 2, FALSE)>>, flaws |-> {}],
    [entries |-> <<MCEntry("b", "p", 2, TRUE)>>, flaws |-> {}]>>
MCBody == [s \in EvidenceSource |-> MCVersions]

MCInit == part \in {"plan", "sources"} /\ PlanInit /\ SourcesInit

Others(p) ==
    /\ IF p = "plan" THEN TRUE ELSE UNCHANGED planVars
    /\ IF p = "sources" THEN TRUE ELSE UNCHANGED newsVars

MCNext ==
    /\ \/ part = "plan" /\ PlanNext
       \/ part = "sources" /\ SourcesNext
    /\ Others(part)
    /\ UNCHANGED part

allVars == <<part, planVars, newsVars>>

\* PlanFairness and SourcesFairness, each in the behaviours of its part: a part
\* at rest owes no step.
PlanIs(A) == part = "plan" /\ A
SourcesAre(A) == part = "sources" /\ A
MCFairness ==
    /\ WF_planVars(PlanIs(Publish)) /\ WF_planVars(PlanIs(Collect))
    /\ \A w \in NewsWorker : WF_newsVars(SourcesAre(NewsStep(w)))
    /\ \A s \in EvidenceSource :
         /\ WF_newsVars(SourcesAre(SourceDue(s))) /\ WF_newsVars(SourcesAre(LeaseLapses(s)))
         /\ SF_newsVars(SourcesAre(\E w \in NewsWorker : PollSource(w, s)))
         /\ \A x \in ExternalId :
              /\ WF_newsVars(SourcesAre(DocumentDue(s, x)))
              /\ SF_newsVars(SourcesAre(\E w \in NewsWorker : PollDocument(w, s, x)))

MCSpec == MCInit /\ [][MCNext]_allVars /\ MCFairness

\* The properties of progress, of the behaviours of their parts.
PlanSettles == part = "plan" => PlanIsApplied
SourcesSettle == part = "sources" => SourcesAreCollected
=============================================================================
