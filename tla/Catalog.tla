------------------------------- MODULE Catalog -------------------------------
(***************************************************************************)
(* The market directory: collectors scan the pages of each exchange and    *)
(* journal them (R/catalog.rs), the worker merges them into one table of   *)
(* markets (B/markets/catalog.py, reconcile_page).                         *)
(*                                                                         *)
(* A collector has one journal and one pending page for all exchanges.     *)
(* Its cursor moves in memory when a page is staged; the page must reach   *)
(* ClickHouse before the next one is asked for.  The exchange's directory  *)
(* does not change during a scan, and a market's details are named by the  *)
(* time of the page they were read from.                                   *)
(***************************************************************************)
EXTENDS Naturals, Sequences, FiniteSetsExt

CONSTANTS
    Scanner,            \* collectors, each with a journal of its own
    Exchange, Listing,  \* Listing[e]: the pages of e, each a set of markets
    MaxPages,           \* pages per scan: catalog_max_pages
    StageMayFail,       \* whether the save of a staged page may fail
    MaxScans,           \* bound: scans a collector begins of an exchange
    CatalogFaults,      \* bound: failed calls and saves, stops
    NoPage

Listed == UNION {UNION {Listing[e][k] : k \in 1..Len(Listing[e])} : e \in Exchange}

\* A row of market_catalog_pages.
CatalogPage ==
    [id : Nat, exchange : Exchange, scan : Nat, number : Nat, at : Nat, items : SUBSET Listed,
     state : {"complete", "capped", "scanning"}]

ASSUME CatalogAssumption ==
    /\ \A e \in Exchange : Len(Listing[e]) \in Nat \ {0}
    /\ MaxPages \in Nat \ {0} /\ MaxScans \in Nat /\ CatalogFaults \in Nat
    /\ StageMayFail \in BOOLEAN /\ NoPage \notin CatalogPage

VARIABLES
    journals,     \* Spool.journal of each collector: page id, pending page, scans
    journalFiles, \* journal.json
    pages,        \* market_catalog_pages: the page of each collector and page id
    positions,    \* CatalogCheckpoint.page_id of each collector
    directory,    \* CatalogMarket: first_seen_at and last_seen_at
    scans,        \* CatalogScan of each exchange
    now,          \* the time of the last page
    catalogFaults

catalogVars == <<journals, journalFiles, pages, positions, directory, scans, now, catalogFaults>>

NewScan == [scan |-> 0, cursor |-> 0, finished |-> TRUE]
NoScan == [at |-> 0, by |-> NoPage, scan |-> 0, state |-> "none"]
Unseen == [first |-> 0, last |-> 0]

Fault == catalogFaults < CatalogFaults /\ catalogFaults' = catalogFaults + 1

\* A save that fails leaves the old file, or the new one if only the directory
\* could not be synced.
SaveJournal(c, mayFail) ==
    \/ journalFiles' = [journalFiles EXCEPT ![c] = journals'[c]] /\ UNCHANGED catalogFaults
    \/ /\ mayFail /\ Fault
       /\ journalFiles' \in {journalFiles, [journalFiles EXCEPT ![c] = journals'[c]]}

-----------------------------------------------------------------------------
(* The collector: tick of catalog.rs.                                      *)

\* Where the next page is asked for: a finished scan is followed by a new one.
Begun(s) == IF s.finished THEN [scan |-> s.scan + 1, cursor |-> 0, finished |-> FALSE] ELSE s

\* parse_page: the page after the cursor, and the cursor after it.
Parsed(c, e, s) ==
    LET k == s.cursor + 1
        complete == k = Len(Listing[e])
        finished == complete \/ k >= MaxPages
    IN  [page |-> [id |-> journals[c].id + 1, exchange |-> e, scan |-> s.scan,
                   number |-> k, at |-> now + 1, items |-> Listing[e][k],
                   state |-> IF complete THEN "complete"
                             ELSE IF finished THEN "capped" ELSE "scanning"],
         scan |-> [s EXCEPT !.cursor = k, !.finished = finished]]

MayScan(c, e) ==
    /\ journals[c].pending = NoPage
    /\ journals[c].scans[e].finished => journals[c].scans[e].scan < MaxScans

ReadPage(c, e) ==
    LET next == Parsed(c, e, Begun(journals[c].scans[e])) IN
    /\ MayScan(c, e)
    /\ now' = now + 1
    /\ journals' = [journals EXCEPT
         ![c] = [id |-> next.page.id, pending |-> next.page,
                 scans |-> [journals[c].scans EXCEPT ![e] = next.scan]]]
    /\ SaveJournal(c, StageMayFail)
    /\ UNCHANGED <<pages, positions, directory, scans>>

\* No answer, or one that parse_page refuses: the cursor stays, a new scan may
\* have begun, and the error handler saves the journal as it is.
ReadFails(c, e) ==
    /\ MayScan(c, e)
    /\ Fault
    /\ journals' = [journals EXCEPT ![c].scans[e] = Begun(@)]
    /\ journalFiles' = [journalFiles EXCEPT ![c] = journals'[c]]
    /\ UNCHANGED <<pages, positions, directory, scans, now>>

Inserted(c) ==
    LET p == journals[c].pending IN
    [pages EXCEPT ![c] = [k \in DOMAIN @ \cup {p.id} |-> IF k = p.id THEN p ELSE @[k]]]

\* deliver: the page is pending until ClickHouse has confirmed it.
DeliverPage(c) ==
    /\ journals[c].pending # NoPage
    /\ pages' = Inserted(c)
    /\ journals' = [journals EXCEPT ![c].pending = NoPage]
    /\ SaveJournal(c, TRUE)
    /\ UNCHANGED <<positions, directory, scans, now>>

\* The insert failed, or its reply was lost; the handler saves the journal.
DeliveryFails(c) ==
    /\ journals[c].pending # NoPage
    /\ Fault
    /\ pages' \in {pages, Inserted(c)}
    /\ journalFiles' = [journalFiles EXCEPT ![c] = journals[c]]
    /\ UNCHANGED <<journals, positions, directory, scans, now>>

\* A stop may fall between the insert and the save that records it.
StopScanner(c) ==
    /\ Fault
    /\ pages' \in {pages} \cup (IF journals[c].pending = NoPage THEN {} ELSE {Inserted(c)})
    /\ journals' = [journals EXCEPT ![c] = journalFiles[c]]
    /\ UNCHANGED <<journalFiles, positions, directory, scans, now>>

-----------------------------------------------------------------------------
(* The worker: reconcile_page, under the lock of the collector's checkpoint.*)
(* The pages were listed before, so any of them may be offered; one that   *)
(* was merged already is skipped, one that leaves a gap is an error.       *)

\* Mutant: the page merged last decides.
MergedInOrder(m, p) == [first |-> IF directory[m] = Unseen THEN p.at ELSE directory[m].first, last |-> p.at]

Merged(m, p) ==
    LET row == directory[m] IN
    IF row = Unseen THEN [first |-> p.at, last |-> p.at]
    ELSE [first |-> IF row.first > p.at THEN p.at ELSE row.first,
          last |-> IF row.last <= p.at THEN p.at ELSE row.last]

ReconcilePage(c, p) ==
    /\ p.id = positions[c] + 1
    /\ directory' = [m \in Listed |-> IF m \in p.items THEN Merged(m, p) ELSE directory[m]]
    /\ scans' = [scans EXCEPT
         ![p.exchange] = IF @.at <= p.at
                         THEN [at |-> p.at, by |-> c, scan |-> p.scan, state |-> p.state]
                         ELSE @]
    /\ positions' = [positions EXCEPT ![c] = p.id]
    /\ UNCHANGED <<journals, journalFiles, pages, now, catalogFaults>>

-----------------------------------------------------------------------------
CatalogInit ==
    /\ journals = [c \in Scanner |->
                     [id |-> 0, pending |-> NoPage, scans |-> [e \in Exchange |-> NewScan]]]
    /\ journalFiles = journals
    /\ pages = [c \in Scanner |-> <<>>]
    /\ positions = [c \in Scanner |-> 0]
    /\ directory = [m \in Listed |-> Unseen]
    /\ scans = [e \in Exchange |-> NoScan]
    /\ now = 0
    /\ catalogFaults = 0

Scan(c) == DeliverPage(c) \/ \E e \in Exchange : ReadPage(c, e)
ScanFails(c) == DeliveryFails(c) \/ StopScanner(c) \/ \E e \in Exchange : ReadFails(c, e)
Reconcile(c) == \E k \in DOMAIN pages[c] : ReconcilePage(c, pages[c][k])

CatalogNext == \E c \in Scanner : Scan(c) \/ ScanFails(c) \/ Reconcile(c)

CatalogSpec == CatalogInit /\ [][CatalogNext]_catalogVars

-----------------------------------------------------------------------------
CatalogTypeOK ==
    /\ \A c \in Scanner : positions[c] \in 0..journals[c].id /\ positions[c] \in Nat
    /\ \A m \in Listed : directory[m].first \in 0..now /\ directory[m].last \in 0..now
    /\ catalogFaults \in 0..CatalogFaults

Reconciled(c) == {pages[c][k] : k \in {k \in DOMAIN pages[c] : k <= positions[c]}}

\* The directory depends on which pages were merged, not on the order in which
\* the pages of several collectors arrived, or how often they were delivered.
DirectoryIsMerged ==
    \A m \in Listed :
        LET times == {p.at : p \in {q \in UNION {Reconciled(c) : c \in Scanner} : m \in q.items}}
        IN  directory[m] = IF times = {} THEN Unseen
                           ELSE [first |-> Min(times), last |-> Max(times)]

\* A scan shown as complete has read, and merged, every page of the exchange:
\* failures and stops skip none (catalog.rs: "replayed from disk before any
\* cursor can advance").
CompleteScansAreComplete ==
    \A e \in Exchange :
        scans[e].state = "complete" =>
            {p.number : p \in {q \in Reconciled(scans[e].by) :
                                 q.exchange = e /\ q.scan = scans[e].scan}}
              = 1..Len(Listing[e])

\* What the directory and the progress of its scans say is true, whatever failed,
\* stopped or arrived late.
CatalogOK == CatalogTypeOK /\ DirectoryIsMerged /\ CompleteScansAreComplete
=============================================================================
