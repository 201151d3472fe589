------------------------------ MODULE Assistants ------------------------------
(***************************************************************************)
(* An organization's research assistants (agents/assistants.py): drafts    *)
(* members edit, the versions published from them, the default assistant   *)
(* the paper experiments use and trial runs of a saved draft.              *)
(*                                                                         *)
(* A member works on a page that showed one revision; every request names  *)
(* that revision and runs behind the organization's lock, in one step.  A  *)
(* graph is a value; ValidGraph are those compile_graph accepts (module    *)
(* AssistantGraphs).                                                       *)
(***************************************************************************)
EXTENDS Integers, FiniteSets, SequencesExt

CONSTANTS
    Editor,         \* members who may run agents
    Assistant, DefaultAssistant,
    Graph, ValidGraph, DefaultGraph,
    Name, DefaultName,
    MaxAssistants,  \* 30
    MaxVersionsKept,\* 100
    MaxSaves, MaxTrials,    \* bounds
    NoForm

ASSUME AssistantsAssumption ==
    /\ DefaultGraph \in ValidGraph /\ ValidGraph \subseteq Graph
    /\ DefaultAssistant \in Assistant /\ DefaultName \notin Name
    /\ {MaxAssistants, MaxVersionsKept, MaxSaves, MaxTrials} \subseteq Nat

VARIABLES
    drafts,         \* Assistant rows; revision 0 is no row
    versions,       \* of each assistant, its AssistantVersion rows by number
    page,           \* what each editor's page shows
    trials          \* assistant graphs of trial runs enqueued, newest last

assistantVars == <<drafts, versions, page, trials>>

NoDraft == [name |-> DefaultName, graph |-> DefaultGraph, revision |-> 0]
DraftExists(a) == drafts[a].revision > 0
Kept == {a \in Assistant : DraftExists(a)}
Page(a, row) == [assistant |-> a, name |-> row.name, graph |-> row.graph, revision |-> row.revision]

\* A page is loaded, and may be old when it is used.
Load(e, a) ==
    /\ DraftExists(a)
    /\ page' = [page EXCEPT ![e] = Page(a, drafts[a])]
    /\ page' # page
    /\ UNCHANGED <<drafts, versions, trials>>

\* create, of the default graph or as a copy.
Create(e, a, name, source) ==
    /\ ~DraftExists(a) /\ a # DefaultAssistant
    /\ Cardinality(Kept) < MaxAssistants
    /\ source \in {NoForm} \union Kept
    /\ LET row == [name |-> name, revision |-> 1,
                   graph |-> IF source = NoForm THEN DefaultGraph ELSE drafts[source].graph]
       IN drafts' = [drafts EXCEPT ![a] = row] /\ page' = [page EXCEPT ![e] = Page(a, row)]
    /\ UNCHANGED <<versions, trials>>

\* Mutant: any revision will do.
LockedAnyRevision(e) == page[e] # NoForm
\* locked: the page's revision is the saved one.
LockedFor(e) == page[e] # NoForm /\ drafts[page[e].assistant].revision = page[e].revision

\* save
SaveDraft(e, name, graph) ==
    /\ LockedFor(e) /\ page[e].assistant # DefaultAssistant
    /\ page[e].revision <= MaxSaves
    /\ LET a == page[e].assistant
           row == [name |-> name, graph |-> graph, revision |-> drafts[a].revision + 1]
       IN drafts' = [drafts EXCEPT ![a] = row] /\ page' = [page EXCEPT ![e] = Page(a, row)]
    /\ UNCHANGED <<versions, trials>>

Released(a) ==
    versions[a] # <<>> /\ Last(versions[a]).graph = drafts[a].graph
    /\ Last(versions[a]).name = drafts[a].name

\* release: the draft becomes a version unless it already is the last one.
Release(e, a) ==
    /\ drafts'[a].graph \in ValidGraph
    /\ IF Released(a) THEN UNCHANGED versions
       ELSE /\ Len(versions[a]) < MaxVersionsKept
            /\ versions' = [versions EXCEPT ![a] =
                 Append(@, [name |-> drafts'[a].name, graph |-> drafts'[a].graph, by |-> e])]

Publish(e) ==
    /\ LockedFor(e) /\ UNCHANGED drafts
    /\ Release(e, page[e].assistant)
    /\ UNCHANGED <<page, trials>>

\* default_version: get_or_create of the default assistant, then its release.
DefaultVersion(e) ==
    /\ drafts' = IF DraftExists(DefaultAssistant) THEN drafts
                 ELSE [drafts EXCEPT ![DefaultAssistant].revision = 1]
    /\ Release(e, DefaultAssistant)
    /\ UNCHANGED <<page, trials>>

\* trial: of the saved draft the page shows.
Trial(e) ==
    /\ LockedFor(e) /\ Len(trials) < MaxTrials
    /\ drafts[page[e].assistant].graph \in ValidGraph
    /\ trials' = Append(trials, [by |-> e, graph |-> drafts[page[e].assistant].graph])
    /\ UNCHANGED <<drafts, versions, page>>

AssistantsInit ==
    /\ drafts = [a \in Assistant |-> NoDraft] /\ versions = [a \in Assistant |-> <<>>]
    /\ page = [e \in Editor |-> NoForm] /\ trials = <<>>

AssistantsNext ==
    \E e \in Editor :
      \/ \E a \in Assistant : Load(e, a)
      \/ \E a \in Assistant, name \in Name, source \in {NoForm} \union Assistant :
           Create(e, a, name, source)
      \/ \E name \in Name, graph \in Graph : SaveDraft(e, name, graph)
      \/ Publish(e)
      \/ DefaultVersion(e)
      \/ Trial(e)

AssistantsSpec == AssistantsInit /\ [][AssistantsNext]_assistantVars

-----------------------------------------------------------------------------

\* What a member publishes or tries is what the page showed, though others save in
\* between; the default assistant's version is the default graph.
PublishedAsShown ==
    [][/\ \A a \in Assistant : Len(versions'[a]) > Len(versions[a]) =>
             LET v == Last(versions'[a])
             IN IF page[v.by] # NoForm /\ page[v.by].assistant = a
                THEN v.name = page[v.by].name /\ v.graph = page[v.by].graph
                ELSE a = DefaultAssistant /\ v.graph = DefaultGraph
       /\ trials' # trials => Last(trials').graph = page[Last(trials').by].graph]_assistantVars

\* Versions are only appended, differ from the one before and can be compiled: a paper
\* experiment that names one keeps its graph, and publishing again adds nothing.
VersionsAreDistinct ==
    \A a \in Assistant : \A n \in 1..Len(versions[a]) :
      /\ versions[a][n].graph \in ValidGraph
      /\ n > 1 => \/ versions[a][n].graph # versions[a][n - 1].graph
                  \/ versions[a][n].name # versions[a][n - 1].name

\* Editors who save, publish and try at the same time get what they saw, and the
\* versions kept differ.
VersionsAreSound == []VersionsAreDistinct /\ PublishedAsShown
=============================================================================
