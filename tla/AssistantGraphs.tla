--------------------------- MODULE AssistantGraphs ---------------------------
(***************************************************************************)
(* The graph of a research assistant: what compile_graph accepts           *)
(* (assistant.py) and what one execution of an accepted graph does         *)
(* (assistant_runtime.py): every node sees a selection of the context that *)
(* fits its budget and the answers of its parents, cites references, and   *)
(* one failing node ends the run.  Leases, cancellation from outside and   *)
(* publication are those of AgentRuns.                                     *)
(***************************************************************************)
EXTENDS Integers, FiniteSets, FiniteSetsExt, SequencesExt, Ordering

CONSTANTS
    KindOf,             \* the kinds of the nodes a graph may have, by node id, a number
    Edges,              \* the sets of connections a graph may have
    Contexts,           \* frozen contexts: sequences of [id, kind, size]
    SkillKinds,         \* the kinds of reference each skill asks for
    Budget,             \* 32 000 bytes of references in a packet
    NoNode

ASSUME GraphsAssumption ==
    /\ Budget \in Nat
    /\ \A k \in KindOf : /\ IsFiniteSet(DOMAIN k) /\ DOMAIN k \subseteq Int
                         /\ NoNode \notin DOMAIN k

VARIABLES
    kinds, edges, context,      \* the graph and what its run is given
    unplaced, ancestors, order,\* compile_graph's loop
    graphPhase,
    due,                        \* nodes of the workflow's current round, not yet run
    active,                     \* the node waiting for its provider
    outputs,                    \* what each node that has run cites
    calls                       \* usage["provider_calls"]

graphVars == <<kinds, edges, context, unplaced, ancestors, order, graphPhase, due, active,
               outputs, calls>>

Nodes == DOMAIN kinds
OfKind(k) == {n \in Nodes : kinds[n] = k}
Parents(n) == {e[1] : e \in {x \in edges : x[2] = n}}

\* The checks before the loop of compile_graph.
WellFormed ==
    /\ Cardinality(OfKind("risk")) = 1 /\ Cardinality(OfKind("review")) = 1
    /\ Cardinality(Nodes) >= 3
    /\ \A e \in edges : e[1] # e[2] /\ {e[1], e[2]} \subseteq Nodes

Refused == UNCHANGED <<unplaced, ancestors, order, due>> /\ graphPhase' = "refused"

\* One round of the loop: the nodes none of whose parents remain.
Level ==
    /\ graphPhase = "compiling" /\ (WellFormed => unplaced # {})
    /\ LET ready == {n \in unplaced : Parents(n) \intersect unplaced = {}}
       IN IF ~WellFormed \/ ready = {} THEN Refused
          ELSE /\ ancestors' = [n \in DOMAIN ancestors \union ready |->
                    IF n \in ready
                    THEN Parents(n) \union UNION {ancestors[p] : p \in Parents(n)}
                    ELSE ancestors[n]]
               /\ order' = order \o Sorted(ready)
               /\ unplaced' = unplaced \ ready
               /\ UNCHANGED <<graphPhase, due>>
    /\ UNCHANGED <<kinds, edges, context, active, outputs, calls>>

\* Mutant: a direct connection of the risk reviewer to the entry review suffices.
RoutedToReview(risk, review) == Parents(review) = {risk}
Routed(risk, review) ==
    /\ Parents(review) = {risk} /\ ancestors[risk] = Nodes \ {risk, review}
    /\ Last(order) = review

\* The checks after it; the workflow starts with the nodes without parents.
Compiled ==
    /\ graphPhase = "compiling" /\ WellFormed /\ unplaced = {}
    /\ LET risk == CHOOSE n \in OfKind("risk") : TRUE
           review == CHOOSE n \in OfKind("review") : TRUE
       IN IF Routed(risk, review)
          THEN /\ graphPhase' = "running"
               /\ due' = {n \in Nodes : Parents(n) = {}}
               /\ UNCHANGED <<unplaced, ancestors, order>>
          ELSE Refused
    /\ UNCHANGED <<kinds, edges, context, active, outputs, calls>>

-----------------------------------------------------------------------------
\* A packet

Required(ref) == ref.id \in {"market", "rules", "paper-entry"}
NotRequired(ref) == ~Required(ref)

\* node_input: the references every packet needs come first.
EntryFirst(refs) == SelectSeq(refs, Required) \o SelectSeq(refs, NotRequired)

\* node_skill: whatever its skill, a node asks for references of every kind.
NodeKinds(n) == UNION {SkillKinds[k] : k \in DOMAIN SkillKinds}

Include(scope, ref) ==
    IF scope.size + ref.size > Budget THEN scope
    ELSE [ids |-> scope.ids \union {ref.id}, size |-> scope.size + ref.size]

\* scoped_context: whole references in order, those that still fit.
Packet(refs, wanted) ==
    FoldLeft(Include, [ids |-> {}, size |-> 0],
             SelectSeq(EntryFirst(refs), LAMBDA ref : ref.kind \in wanted)).ids
Scope(n) == Packet(context, NodeKinds(n))

\* stage_input refuses a packet in which a peer cites what is not in scope.
PeersInScope(n) == \A p \in Parents(n) : outputs[p] \subseteq Scope(n)
RequiredInScope(n) ==
    \A i \in DOMAIN context : Required(context[i]) => context[i].id \in Scope(n)

-----------------------------------------------------------------------------
\* A run; rounds are LangGraph's, one node at a time

Running == graphPhase = "running" /\ active = NoNode
UnchangedGraph == UNCHANGED <<kinds, edges, context, unplaced, ancestors, order>>

BeginNode(n) ==
    /\ Running /\ n \in due
    /\ IF PeersInScope(n) /\ RequiredInScope(n)
       THEN /\ calls' = calls + 1 /\ active' = n /\ UNCHANGED graphPhase
       ELSE /\ graphPhase' = IF RequiredInScope(n) THEN "peer outside scope" ELSE "failed"
            /\ UNCHANGED <<calls, active>>
    /\ UnchangedGraph /\ UNCHANGED <<due, outputs>>

\* A round ends with its last node; the next is of the nodes all of whose parents
\* have now run.
DueAfter(n) ==
    IF due # {n} THEN due \ {n}
    ELSE {m \in Nodes \ (DOMAIN outputs \union {n}) : Parents(m) \subseteq DOMAIN outputs \union {n}}

\* The provider answers; validate_stage refuses unknown references.
Answer(cited) ==
    /\ graphPhase = "running" /\ active # NoNode
    /\ active' = NoNode
    /\ IF cited \subseteq Scope(active)
       THEN /\ outputs' = [n \in DOMAIN outputs \union {active} |->
                              IF n = active THEN cited ELSE outputs[n]]
            /\ due' = DueAfter(active)
            /\ graphPhase' = IF kinds[active] = "review" THEN "published" ELSE "running"
       ELSE graphPhase' = "failed" /\ UNCHANGED <<outputs, due>>
    /\ UnchangedGraph /\ UNCHANGED calls

\* The provider fails, or the run was cancelled or lost its lease meanwhile.
NodeFails ==
    /\ graphPhase = "running" /\ active # NoNode
    /\ graphPhase' = "failed" /\ active' = NoNode
    /\ UnchangedGraph /\ UNCHANGED <<due, outputs, calls>>

GraphsStart ==
    /\ unplaced = Nodes /\ ancestors = <<>> /\ order = <<>>
    /\ graphPhase = "compiling" /\ due = {} /\ active = NoNode
    /\ outputs = <<>> /\ calls = 0

GraphsInit == kinds \in KindOf /\ edges \in Edges /\ context \in Contexts /\ GraphsStart

Cited == {{context[i].id} : i \in DOMAIN context} \union {{"unknown"}}

GraphsNext ==
    \/ Level \/ Compiled \/ NodeFails
    \/ \E n \in Nodes : BeginNode(n)
    \/ \E cited \in Cited : Answer(cited)

GraphsSpec == GraphsInit /\ [][GraphsNext]_graphVars

-----------------------------------------------------------------------------

\* Nodes that reach n along connections, without the loop: n is in every set that a
\* connection out of the node or of the set does not leave.
Above(n) ==
    {m \in Nodes : \A reached \in SUBSET Nodes :
       (\A e \in edges : e[1] \in reached \union {m} => e[2] \in reached) => n \in reached}

\* compile_graph decides what its docstring says: a graph without cycles in which
\* every analyst reaches the only risk reviewer, which alone feeds the only review.
AcceptedIsWellRouted ==
    graphPhase # "compiling" =>
      (graphPhase # "refused" <=>
         /\ WellFormed
         /\ \A n \in Nodes : n \notin Above(n)
         /\ \A risk \in OfKind("risk"), review \in OfKind("review") :
              Above(risk) = Nodes \ {risk, review} /\ Parents(review) = {risk})

\* A node runs once its parents have; the review is last, sees a risk review of
\* all the analysts, and the calls made are those the run reserved.  A node that cites
\* what it was shown never makes a later one fail.
RunsFollowTheGraph ==
    /\ \A n \in DOMAIN outputs : Parents(n) \subseteq DOMAIN outputs
    /\ graphPhase = "published" => DOMAIN outputs = Nodes
    /\ calls <= Cardinality(Nodes)
    /\ graphPhase # "peer outside scope"

GraphsOK == AcceptedIsWellRouted /\ RunsFollowTheGraph
=============================================================================
