------------------------------- MODULE Sources ------------------------------
(***************************************************************************)
(* News feeds and official documents: the workers of runnewsworker poll a  *)
(* feed under a lease (B/research/news.py), then the document of one item  *)
(* (B/research/documents.py), while an operator reconfigures the source    *)
(* (B/research/source_controls.py) and the publisher goes on publishing.   *)
(*                                                                         *)
(* A poll is three steps: the lease is taken, the publisher answers, the   *)
(* answer is stored.  Time is what falls due or lapses.  A lease is named  *)
(* by the worker that took it, which has one request at a time.  The body  *)
(* of a feed is what parse_feed_result makes of it; its validator (ETag,   *)
(* Last-Modified) is its version.                                          *)
(***************************************************************************)
EXTENDS Naturals, SequencesExt

CONSTANTS
    NewsWorker, EvidenceSource, DocumentSource, ExternalId,
    Link,             \* links of the entries
    PageUrl,          \* those that validate_url accepts
    Body,             \* Body[s]: the versions of the feed: entries and flaws
    PageVersions,     \* bound: versions of a page
    NewsFaults,       \* bound: edits of a source, failed or late requests, stopped workers
    NoWorker, NoJob, NoDocument

ASSUME SourcesAssumption ==
    /\ DocumentSource \subseteq EvidenceSource
    /\ \A s \in EvidenceSource : Len(Body[s]) > 0
    /\ {PageVersions, NewsFaults} \subseteq Nat
    /\ PageUrl \subseteq Link /\ NoWorker \notin NewsWorker

\* An entry may give no publication date; one with a date of the future is rejected.
Entry == [id : ExternalId, url : Link, text : Nat, dated : BOOLEAN]

\* The parser keeps one entry of a link in a body (seen_urls), and the texts of a link
\* are numbered as the publisher gives them.
ASSUME PublisherAssumption ==
    \A s \in EvidenceSource :
        /\ Body[s] \in Seq([entries : Seq(Entry), flaws : SUBSET {"rejected", "truncated"}])
        /\ \A v, later \in DOMAIN Body[s] :
              v <= later => \A e \in ToSet(Body[s][v].entries), f \in ToSet(Body[s][later].entries) :
                               e.url = f.url => e.text <= f.text

VARIABLES
    sources,     \* EvidenceSource rows
    items,       \* EvidenceItem rows of each source, with their revisions
    newsWorkers, \* what each worker does next, and its request
    feeds,       \* the version of each feed the publisher has published
    pageVersion, \* the version of each page
    newsFaults

newsVars == <<sources, items, newsWorkers, feeds, pageVersion, newsFaults>>

NewSource == [enabled |-> TRUE, due |-> TRUE, lease |-> NoWorker, lapsed |-> FALSE, etag |-> 0, result |-> "",
              count |-> 0, rejected |-> FALSE, undated |-> FALSE, succeeded |-> FALSE]
NoItem == [revisions |-> <<>>, due |-> FALSE, lease |-> NoWorker]
NewsFault == newsFaults < NewsFaults /\ newsFaults' = newsFaults + 1

-----------------------------------------------------------------------------
(* Feeds.                                                                  *)

Turn(w, next, job) == newsWorkers' = [newsWorkers EXCEPT ![w] = [turn |-> next, job |-> job]]

\* Mutant: a lapsed lease is not taken over.
PollableUnleased(s) == sources[s].enabled /\ sources[s].due /\ sources[s].lease = NoWorker

\* select_for_update(skip_locked): a due source nobody holds a lease of.
Pollable(s) == sources[s].enabled /\ sources[s].due /\ (sources[s].lease = NoWorker \/ sources[s].lapsed)

PollSource(w, s) ==
    /\ newsWorkers[w].turn = "source" /\ newsWorkers[w].job = NoJob
    /\ Pollable(s)
    /\ sources' = [sources EXCEPT ![s].due = FALSE, ![s].lease = w, ![s].lapsed = FALSE]
    /\ Turn(w, "source", [source |-> s, reply |-> "none", version |-> 0,
                          etag |-> IF sources[s].count > 0 THEN sources[s].etag ELSE 0])
    /\ UNCHANGED <<items, feeds, pageVersion, newsFaults>>

NothingToPoll(w) ==
    /\ newsWorkers[w].turn = "source" /\ newsWorkers[w].job = NoJob
    /\ \A s \in EvidenceSource : ~Pollable(s)
    /\ Turn(w, "document", NoJob)
    /\ UNCHANGED <<sources, items, feeds, pageVersion, newsFaults>>

\* fetch_feed: the present body, or 304 for the validator that was sent.
FeedAnswers(w) ==
    LET job == newsWorkers[w].job
        present == feeds[job.source]
    IN
    /\ newsWorkers[w].turn = "source" /\ job # NoJob
    /\ job.reply = "none"
    /\ Turn(w, "source", [job EXCEPT !.version = present,
                                     !.reply = IF job.etag = present THEN "unmodified" ELSE "body"])
    /\ UNCHANGED <<sources, items, feeds, pageVersion, newsFaults>>

\* The item an entry belongs to: its identity, or else a link the source gave before.
ItemOf(rows, e) ==
    IF rows[e.id].revisions # <<>> THEN e.id
    ELSE LET same == {x \in ExternalId : \E r \in ToSet(rows[x].revisions) : r.url = e.url}
         IN  IF same = {} THEN e.id ELSE CHOOSE x \in same : TRUE

Latest(item) == Last(item.revisions)

\* persist_entry: a revision if anything changed, the date too; the document stays with
\* its link.
Revised(item, e) ==
    LET seen == item.revisions # <<>>
        document == IF seen /\ Latest(item).url = e.url THEN Latest(item).document ELSE NoDocument
        revision == [url |-> e.url, text |-> e.text, dated |-> e.dated, document |-> document]
    IN  IF seen /\ Latest(item) = revision THEN item
        ELSE [item EXCEPT !.revisions = Append(item.revisions, revision), !.due = TRUE]
WithEntry(rows, e) == [rows EXCEPT ![ItemOf(rows, e)] = Revised(@, e)]

WithEntries(rows, body) == FoldLeft(WithEntry, rows, body.entries)

Undated(body) == \E e \in ToSet(body.entries) : ~e.dated
Partial(body) == body.flaws # {} \/ Undated(body)

BodyResult(body) ==
    IF body.entries = <<>> THEN "empty" ELSE IF Partial(body) THEN "partial" ELSE "updated"

\* After a 304 the result is what is known of the stored body.
UnmodifiedResult(source) ==
    IF source.result = "failed" /\ source.succeeded
    THEN IF source.count = 0 THEN "empty"
         ELSE IF source.rejected \/ source.undated THEN "partial" ELSE "unchanged"
    ELSE IF source.result \in {"empty", "partial"} THEN source.result ELSE "unchanged"

\* Mutant: an answer is stored without looking at the lease.
MayStoreAnyAnswer(w, s) == sources[s].enabled

\* The lease is still this poll's: none has taken it over, no edit has cleared it.
MayStore(w, s) == sources[s].lease = w /\ sources[s].enabled

\* What is recorded of a source after a body, or after a 304.
Read(source, version, body) ==
    [source EXCEPT !.lease = NoWorker, !.succeeded = TRUE, !.result = BodyResult(body),
                   !.count = Len(body.entries),
                   !.rejected = "rejected" \in body.flaws, !.undated = Undated(body),
                   !.etag = IF body.entries = <<>> THEN 0 ELSE version]
Unmodified(source) ==
    [source EXCEPT !.lease = NoWorker, !.succeeded = TRUE, !.result = UnmodifiedResult(source)]

StoreAnswer(w) ==
    LET job == newsWorkers[w].job
        s == job.source
        body == Body[s][job.version]
        read == job.reply = "body"
    IN
    /\ newsWorkers[w].turn = "source" /\ job # NoJob
    /\ job.reply # "none"
    /\ Turn(w, "document", NoJob)
    /\ IF MayStore(w, s)
       THEN /\ items' = IF read THEN [items EXCEPT ![s] = WithEntries(items[s], body)] ELSE items
            /\ sources' = [sources EXCEPT ![s] = IF read THEN Read(sources[s], job.version, body)
                                                 ELSE Unmodified(sources[s])]
       ELSE UNCHANGED <<items, sources>>
    /\ UNCHANGED <<feeds, pageVersion, newsFaults>>

\* The request, the parsing or the transaction failed.
PollFails(w) ==
    LET s == newsWorkers[w].job.source IN
    /\ newsWorkers[w].turn = "source" /\ newsWorkers[w].job # NoJob
    /\ NewsFault
    /\ Turn(w, "document", NoJob)
    /\ sources' = IF ~MayStore(w, s) THEN sources
                  ELSE [sources EXCEPT ![s].lease = NoWorker, ![s].result = "failed", ![s].etag = 0]
    /\ UNCHANGED <<items, feeds, pageVersion>>

-----------------------------------------------------------------------------
(* Documents.                                                              *)

\* A document is due of an item whose latest revision has a publication date.
Awaits(s, x) ==
    /\ s \in DocumentSource /\ sources[s].enabled
    /\ items[s][x].due /\ items[s][x].revisions # <<>> /\ Latest(items[s][x]).dated

PollDocument(w, s, x) ==
    /\ newsWorkers[w].turn = "document" /\ newsWorkers[w].job = NoJob
    /\ Awaits(s, x)
    /\ items' = [items EXCEPT ![s][x].lease = w, ![s][x].due = FALSE]
    /\ Turn(w, "document", [source |-> s, item |-> x, url |-> Latest(items[s][x]).url, version |-> 0])
    /\ UNCHANGED <<sources, feeds, pageVersion, newsFaults>>

NoDocumentToPoll(w) ==
    /\ newsWorkers[w].turn = "document" /\ newsWorkers[w].job = NoJob
    /\ \A s \in EvidenceSource, x \in ExternalId : ~Awaits(s, x)
    /\ Turn(w, "source", NoJob)
    /\ UNCHANGED <<sources, items, feeds, pageVersion, newsFaults>>

PageAnswers(w) ==
    LET job == newsWorkers[w].job IN
    /\ newsWorkers[w].turn = "document" /\ job # NoJob
    /\ job.version = 0 /\ job.url \in PageUrl
    /\ Turn(w, "document", [job EXCEPT !.version = pageVersion[job.url]])
    /\ UNCHANGED <<sources, items, feeds, pageVersion, newsFaults>>

HoldsItem(w, s, x) == sources[s].enabled /\ items[s][x].lease = w

\* persist_document: only for the link it was fetched for; an unchanged text makes
\* no revision.
WithDocument(item, job) ==
    LET previous == Latest(item)
        document == [url |-> job.url, version |-> job.version]
        moved == previous.url # job.url
    IN  [item EXCEPT !.lease = NoWorker, !.due = moved,
                     !.revisions = IF moved \/ previous.document = document THEN item.revisions
                                   ELSE Append(item.revisions, [previous EXCEPT !.document = document])]

StoreDocument(w) ==
    LET job == newsWorkers[w].job IN
    /\ newsWorkers[w].turn = "document" /\ job # NoJob
    /\ job.version > 0
    /\ Turn(w, "source", NoJob)
    /\ items' = IF ~HoldsItem(w, job.source, job.item) THEN items
                ELSE [items EXCEPT ![job.source][job.item] = WithDocument(items[job.source][job.item], job)]
    /\ UNCHANGED <<sources, feeds, pageVersion, newsFaults>>

\* A refused link always fails; the item is tried again later.
DocumentFails(w) ==
    LET job == newsWorkers[w].job IN
    /\ newsWorkers[w].turn = "document" /\ job # NoJob
    /\ IF job.url \in PageUrl THEN NewsFault ELSE UNCHANGED newsFaults
    /\ Turn(w, "source", NoJob)
    /\ items' = IF items[job.source][job.item].lease # w THEN items
                ELSE [items EXCEPT ![job.source][job.item].lease = NoWorker]
    /\ UNCHANGED <<sources, feeds, pageVersion>>

-----------------------------------------------------------------------------
(* Operators, publishers, stopped workers and time.                        *)

ConfigureSource(s, enabled) ==
    /\ NewsFault
    /\ sources' = [sources EXCEPT ![s].enabled = enabled, ![s].lease = NoWorker, ![s].due = TRUE]
    /\ items' = [items EXCEPT ![s] = [x \in ExternalId |-> [items[s][x] EXCEPT !.lease = NoWorker]]]
    /\ UNCHANGED <<newsWorkers, feeds, pageVersion>>

PublishFeed(s) ==
    /\ feeds[s] < Len(Body[s])
    /\ feeds' = [feeds EXCEPT ![s] = @ + 1]
    /\ UNCHANGED <<sources, items, newsWorkers, pageVersion, newsFaults>>

PublishPage(u) ==
    /\ pageVersion[u] < PageVersions
    /\ pageVersion' = [pageVersion EXCEPT ![u] = @ + 1]
    /\ UNCHANGED <<sources, items, newsWorkers, feeds, newsFaults>>

StopNewsWorker(w) ==
    /\ NewsFault
    /\ Turn(w, "source", NoJob)
    /\ UNCHANGED <<sources, items, feeds, pageVersion>>

SourceDue(s) ==
    /\ ~sources[s].due
    /\ sources' = [sources EXCEPT ![s].due = TRUE]
    /\ UNCHANGED <<items, newsWorkers, feeds, pageVersion, newsFaults>>

\* A request times out after ten seconds, so an answer that comes after its lease
\* of two minutes, or a document's five, is a fault.
Outlasted(outlasted) == IF outlasted THEN NewsFault ELSE UNCHANGED newsFaults

AtWork(w, turn) ==
    w # NoWorker /\ newsWorkers[w].turn = turn /\ newsWorkers[w].job # NoJob

\* Another worker may take the lease over.
LeaseLapses(s) ==
    /\ sources[s].lease # NoWorker /\ ~sources[s].lapsed
    /\ sources' = [sources EXCEPT ![s].lapsed = TRUE]
    /\ LET w == sources[s].lease
       IN  Outlasted(AtWork(w, "source") /\ newsWorkers[w].job.source = s)
    /\ UNCHANGED <<items, newsWorkers, feeds, pageVersion>>

DocumentDue(s, x) ==
    /\ items[s][x].revisions # <<>> /\ ~items[s][x].due
    /\ items' = [items EXCEPT ![s][x].due = TRUE]
    /\ LET w == items[s][x].lease
       IN  Outlasted(AtWork(w, "document") /\ newsWorkers[w].job.source = s /\ newsWorkers[w].job.item = x)
    /\ UNCHANGED <<sources, newsWorkers, feeds, pageVersion>>

-----------------------------------------------------------------------------
SourcesInit ==
    /\ sources = [s \in EvidenceSource |-> NewSource]
    /\ items = [s \in EvidenceSource |-> [x \in ExternalId |-> NoItem]]
    /\ newsWorkers = [w \in NewsWorker |-> [turn |-> "source", job |-> NoJob]]
    /\ feeds = [s \in EvidenceSource |-> 1]
    /\ pageVersion = [u \in PageUrl |-> 1]
    /\ newsFaults = 0

NewsStep(w) ==
    \/ NothingToPoll(w) \/ FeedAnswers(w) \/ StoreAnswer(w)
    \/ NoDocumentToPoll(w) \/ PageAnswers(w) \/ StoreDocument(w)
    \/ \E s \in EvidenceSource : PollSource(w, s) \/ \E x \in ExternalId : PollDocument(w, s, x)
    \/ DocumentFails(w)

NewsTime == \E s \in EvidenceSource : \/ SourceDue(s) \/ LeaseLapses(s)
                                      \/ \E x \in ExternalId : DocumentDue(s, x)

SourcesNext ==
    \/ \E w \in NewsWorker : NewsStep(w) \/ PollFails(w) \/ StopNewsWorker(w)
    \/ \E s \in EvidenceSource : PublishFeed(s) \/ \E enabled \in BOOLEAN : ConfigureSource(s, enabled)
    \/ \E u \in PageUrl : PublishPage(u)
    \/ NewsTime

\* The longest due comes first, so none is passed over for ever.
SourcesFairness ==
    /\ \A w \in NewsWorker : WF_newsVars(NewsStep(w))
    /\ \A s \in EvidenceSource :
         /\ WF_newsVars(SourceDue(s)) /\ WF_newsVars(LeaseLapses(s))
         /\ SF_newsVars(\E w \in NewsWorker : PollSource(w, s))
         /\ \A x \in ExternalId : /\ WF_newsVars(DocumentDue(s, x))
                                 /\ SF_newsVars(\E w \in NewsWorker : PollDocument(w, s, x))

SourcesSpec == SourcesInit /\ [][SourcesNext]_newsVars /\ SourcesFairness

-----------------------------------------------------------------------------
Stored(s, e) == \E x \in ExternalId : \E r \in ToSet(items[s][x].revisions) : r.url = e.url /\ r.text = e.text

\* Types, and documents stand with the link they were read from: a link that
\* changes while its page is fetched never gets the page of the old one.
DocumentsMatchLinks ==
    /\ \A s \in EvidenceSource : sources[s].lease \in NewsWorker \cup {NoWorker}
    /\ \A s \in EvidenceSource, x \in ExternalId :
         \A r \in ToSet(items[s][x].revisions) :
             r.document # NoDocument => r.document.url = r.url
                                        /\ r.document.version \in 1..pageVersion[r.url]

\* A source whose validator stands for a body (so that the next answer may be 304)
\* has stored every entry the parser kept of it, and shows whether the body was
\* incomplete; no kept entry is lost behind a 304.
ValidatorStandsForStored ==
    \A s \in EvidenceSource :
        LET body == Body[s][sources[s].etag] IN
        sources[s].etag > 0 =>
            /\ \A e \in ToSet(body.entries) : Stored(s, e)
            /\ (sources[s].result = "partial") <=> Partial(body)

\* A late answer is never recorded over a newer one: along an item's revisions the
\* text of a link, and the document read from it, only move forward.
NewestAnswerWins ==
    \A s \in EvidenceSource, x \in ExternalId :
        LET revisions == items[s][x].revisions IN
        \A i, j \in DOMAIN revisions :
            i < j /\ revisions[i].url = revisions[j].url =>
                /\ revisions[i].text <= revisions[j].text
                /\ NoDocument \notin {revisions[i].document, revisions[j].document} =>
                     revisions[i].document.version <= revisions[j].document.version

\* The present entries of a source that stays enabled are stored in the end, and the
\* documents of those whose publication date is known, whatever worker stopped with a
\* lease.
SourcesAreCollected ==
    \A s \in EvidenceSource :
        <>[](sources[s].enabled =>
               /\ \A e \in ToSet(Body[s][feeds[s]].entries) : Stored(s, e)
               /\ s \in DocumentSource =>
                    \A x \in ExternalId :
                        LET revisions == items[s][x].revisions IN
                        revisions # <<>> /\ Last(revisions).dated /\ Last(revisions).url \in PageUrl =>
                            /\ Last(revisions).document # NoDocument
                            /\ Last(revisions).document.version = pageVersion[Last(revisions).url])

\* What is stored of a source stands together: documents with links, validators with
\* bodies, links with the newest answer.
SourcesOK == DocumentsMatchLinks /\ ValidatorStandsForStored /\ NewestAnswerWins
=============================================================================
