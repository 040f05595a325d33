------------------------------ MODULE EventPages ------------------------------
(***************************************************************************)
(* GET /v1/query/events (api/query.py, query.py, db/query.py): an          *)
(* investigator walks through the events of a window page by page, newest  *)
(* first, with a signed cursor that is bound to the query it came from.    *)
(* Between two pages, and between the two statements of one page, ingest   *)
(* commits rows anywhere in the order (occurrence times are the phones')   *)
(* and the symbolizer moves rows from their raw to their canonical Issue.  *)
(*                                                                         *)
(* READ COMMITTED: a statement sees the rows committed when it starts.  A  *)
(* cursor holds the occurrence time and the id of the last row of a page;  *)
(* both columns are immutable, so the row itself stands for them.          *)
(***************************************************************************)
EXTENDS Naturals, FiniteSets

CONSTANTS
    Event,          \* rows that may be committed to inbox_events
    Time, Id,       \* occurrence_timestamp_ms and id of a row
    Raw,            \* raw_incident_fingerprint of a row
    Canonical,      \* fingerprint of its symbolized stack
    Fingerprint,
    NoFingerprint,  \* SQL NULL, or no fingerprint in the query
    Absent,         \* the row is not committed yet
    Query,          \* what the client may ask for
    Terms,          \* Terms[q]: its scope, window, release, module and name
    InWindow,       \* InWindow[q]: the rows inside its scope and window
    InFilter,       \* InFilter[q]: the rows its release, module and name select
    Asks,           \* Asks[q]: its fingerprint, if any
    NoCursor,
    MaxLimit        \* query_max_limit

VARIABLES
    fingerprint,    \* incident_fingerprint of each row
    request,        \* the running handler
    cursor,         \* the cursor the client holds
    phase,          \* its listing: not "begun", "open" or "complete"
    filter,         \* history: what the first page of the listing was bound to
    steady,         \* history: rows that match it since the first page was read
    returned,       \* history: rows the client was given
    repeated,       \* history: rows it was given twice
    issues          \* history: Issues its pages were read for

pagingVars == <<fingerprint, request, cursor, phase, filter, steady, returned, repeated, issues>>

AnyFingerprint == Fingerprint \cup {NoFingerprint}

ASSUME RowAssumption ==
    /\ IsFiniteSet(Event)
    /\ Time \in [Event -> Nat] /\ Id \in [Event -> Nat]
    /\ \A d, e \in Event : Id[d] = Id[e] => d = e
    /\ Raw \in [Event -> AnyFingerprint] /\ Canonical \in [Event -> Fingerprint]
    /\ NoFingerprint \notin Fingerprint /\ Absent \notin AnyFingerprint

ASSUME QueryAssumption ==
    /\ InWindow \in [Query -> SUBSET Event] /\ InFilter \in [Query -> SUBSET Event]
    /\ Asks \in [Query -> AnyFingerprint]
    /\ \A p, q \in Query : Terms[p] = Terms[q] =>
          InWindow[p] = InWindow[q] /\ InFilter[p] = InFilter[q]
    /\ NoCursor \notin Event
    /\ MaxLimit \in Nat \ {0}

(* What cursor_filter_hash digests.                                        *)
Filters == [terms: {Terms[q] : q \in Query}, fingerprint: AnyFingerprint]

Cursors == [at: Event, filter: Filters]

ASSUME CursorAssumption == NoCursor \notin Cursors

(* pc is the next step of the handler: resolve the fingerprint and check   *)
(* the cursor, read the page, or commit the audit row and answer.          *)
Requests ==
    [pc: {"idle", "resolve", "list", "answer"},
     query: Query,
     cursor: Cursors \cup {NoCursor},
     filter: Filters,
     page: SUBSET Event,
     next: Event \cup {NoCursor}]   \* row of the next cursor

PagingTypeOK ==
    /\ fingerprint \in [Event -> AnyFingerprint \cup {Absent}]
    /\ request \in Requests
    /\ cursor \in Cursors \cup {NoCursor}
    /\ phase \in {"begun", "open", "complete"}
    /\ filter \in Filters
    /\ steady \subseteq Event /\ returned \subseteq Event /\ repeated \subseteq Event
    /\ issues \subseteq AnyFingerprint

PagingInit ==
    /\ fingerprint = [e \in Event |-> Absent]
    /\ \E q \in Query :
          /\ filter = [terms |-> Terms[q], fingerprint |-> Asks[q]]
          /\ request = [pc |-> "idle", query |-> q, cursor |-> NoCursor, filter |-> filter,
                        page |-> {}, next |-> NoCursor]
    /\ cursor = NoCursor /\ phase = "begun"
    /\ steady = {} /\ returned = {} /\ repeated = {} /\ issues = {}

-----------------------------------------------------------------------------
(* ORDER BY occurrence_timestamp_ms DESC, id DESC: e comes after at.       *)
Below(e, at) == Time[e] < Time[at] \/ (Time[e] = Time[at] /\ Id[e] < Id[at])

(* Slip: the cursor forgets the order of rows of one instant.              *)
PastCursorByTime(e, at) == Time[e] < Time[at]

(* The cursor's predicate in the WHERE clause.                             *)
PastCursor(e, at) == Time[e] < Time[at] \/ (Time[e] = Time[at] /\ Id[e] < Id[at])

(* The row matches what the query is bound to.                             *)
Matches(e, q, fp) ==
    /\ fingerprint[e] # Absent
    /\ e \in InWindow[q] \cap InFilter[q]
    /\ fp \in {NoFingerprint, fingerprint[e]}

(* Slip: the digest leaves the fingerprint out.                            *)
CursorFilterHashUnbound(q, fp) == [terms |-> Terms[q], fingerprint |-> NoFingerprint]

CursorFilterHash(q, fp) == [terms |-> Terms[q], fingerprint |-> fp]

(* resolve_issue_fingerprint reads the distinct Issues of the rows in the  *)
(* window whose raw fingerprint is the one asked for.                      *)
ResolvedIssues(q) ==
    {fingerprint[e] : e \in {x \in InWindow[q] :
        Raw[x] = Asks[q] /\ fingerprint[x] \notin {Absent, NoFingerprint}}}

(* The fingerprints the handler may go on with: none when the link is      *)
(* ambiguous (409).                                                        *)
Resolution(q) ==
    IF Asks[q] = NoFingerprint \/ ResolvedIssues(q) = {} THEN {Asks[q]}
    ELSE {fp \in ResolvedIssues(q) : \A other \in ResolvedIssues(q) : other = fp}

(* decode_cursor: the signature verifies and the digest is the query's.    *)
CursorAccepted(cur, bound) == IF cur = NoCursor THEN TRUE ELSE cur.filter = bound

-----------------------------------------------------------------------------
(* An ingest transaction commits the row.                                  *)
IngestRow(e) ==
    /\ fingerprint[e] = Absent
    /\ fingerprint' = [fingerprint EXCEPT ![e] = Raw[e]]
    /\ UNCHANGED <<request, cursor, phase, filter, steady, returned, repeated, issues>>

(* The symbolizer stores its result: the row moves to its canonical Issue, *)
(* and out of the listing when that is bound to another one.               *)
SymbolizeRow(e) ==
    /\ fingerprint[e] \notin {Absent, NoFingerprint, Canonical[e]}
    /\ fingerprint' = [fingerprint EXCEPT ![e] = Canonical[e]]
    /\ steady' = IF filter.fingerprint \in {NoFingerprint, Canonical[e]}
                 THEN steady ELSE steady \ {e}
    /\ UNCHANGED <<request, cursor, phase, filter, returned, repeated, issues>>

Begin(q, cur) ==
    /\ request.pc = "idle"
    /\ request' = [request EXCEPT !.pc = "resolve", !.query = q, !.cursor = cur]

(* The client starts a listing.                                            *)
FirstPage(q) ==
    /\ Begin(q, NoCursor)
    /\ cursor' = NoCursor /\ phase' = "begun"
    /\ returned' = {} /\ repeated' = {} /\ issues' = {}
    /\ UNCHANGED <<fingerprint, filter, steady>>

(* The client sends the cursor it holds, perhaps with another query than   *)
(* the one it came from.                                                   *)
NextPage(q) ==
    /\ phase = "open"
    /\ Begin(q, cursor)
    /\ UNCHANGED <<fingerprint, cursor, phase, filter, steady, returned, repeated, issues>>

(* The first statement and the check of the cursor; a 409 or a 400 ends    *)
(* the request.                                                            *)
ResolveAndCheck ==
    /\ request.pc = "resolve"
    /\ \E fp \in Resolution(request.query) :
          LET bound == CursorFilterHash(request.query, fp) IN
          /\ CursorAccepted(request.cursor, bound)
          /\ request' = [request EXCEPT !.pc = "list",
                                        !.filter = [terms |-> Terms[request.query],
                                                    fingerprint |-> fp]]
    /\ UNCHANGED <<fingerprint, cursor, phase, filter, steady, returned, repeated, issues>>

(* A request ends without an answer the client can use: parameters, link   *)
(* or cursor refused, statement cancelled after QUERY_TIMEOUT_SECONDS,     *)
(* commit failed, connection lost.                                         *)
EndUnanswered ==
    /\ request.pc # "idle"
    /\ request' = [request EXCEPT !.pc = "idle"]
    /\ UNCHANGED <<fingerprint, cursor, phase, filter, steady, returned, repeated, issues>>

-----------------------------------------------------------------------------
Candidates ==
    {e \in Event :
        /\ Matches(e, request.query, request.filter.fingerprint)
        /\ IF request.cursor = NoCursor THEN TRUE ELSE PastCursor(e, request.cursor.at)}

(* The first n rows in the order of the statement.                         *)
Top(cand, n) == {e \in cand : Cardinality({x \in cand : Below(e, x)}) < n}

(* Slip: the next cursor is made from the first row of the page.           *)
IsCursorRowFirst(e, page) == e \in page /\ \A x \in page \ {e} : Below(x, e)

(* events[-1].                                                             *)
IsCursorRow(e, page) == e \in page /\ \A x \in page \ {e} : Below(e, x)

(* list_scoped_events: limit + 1 rows are read to learn whether there are  *)
(* more.                                                                   *)
ListScopedEvents(limit) ==
    /\ request.pc = "list"
    /\ LET page == Top(Candidates, limit)
       IN \E next \in Event \cup {NoCursor} :
             /\ IF Candidates = page THEN next = NoCursor ELSE IsCursorRow(next, page)
             /\ request' = [request EXCEPT !.pc = "answer", !.page = page, !.next = next]
    /\ IF request.cursor = NoCursor
       THEN filter' = request.filter /\ steady' = Candidates
       ELSE UNCHANGED <<filter, steady>>
    /\ UNCHANGED <<fingerprint, cursor, phase, returned, repeated, issues>>

(* The audit row is committed and the page reaches the client.             *)
Answer ==
    /\ request.pc = "answer"
    /\ request' = [request EXCEPT !.pc = "idle"]
    /\ \/ /\ request.next = NoCursor
          /\ cursor' = NoCursor /\ phase' = "complete"
       \/ /\ request.next # NoCursor
          /\ cursor' = [at |-> request.next,
                        filter |-> CursorFilterHash(request.query, request.filter.fingerprint)]
          /\ phase' = "open"
    /\ returned' = returned \cup request.page
    /\ repeated' = repeated \cup (returned \cap request.page)
    /\ issues' = issues \cup {request.filter.fingerprint}
    /\ UNCHANGED <<fingerprint, filter, steady>>

PagingNext ==
    \/ \E e \in Event : IngestRow(e) \/ SymbolizeRow(e)
    \/ \E q \in Query : FirstPage(q) \/ NextPage(q)
    \/ ResolveAndCheck
    \/ EndUnanswered
    \/ \E n \in 1..MaxLimit : ListScopedEvents(n)
    \/ Answer

PagingSpec == PagingInit /\ [][PagingNext]_pagingVars

-----------------------------------------------------------------------------
(* One listing never gives the client the same row twice, whatever is      *)
(* committed between its pages.                                            *)
NoEventTwice == repeated = {}

(* A listing that ran to its end (an answer without a next cursor) gave    *)
(* the client every row that matched it from the first page on.            *)
NoneSkipped == phase = "complete" => steady \subseteq returned

(* All pages of one listing were read for the same Issue: when             *)
(* symbolization changes what a raw link resolves to, the old cursor is    *)
(* refused, and no page widens the listing to another Issue.               *)
OneIssue == \A a, b \in issues : a = b

(* The cursor the client is given next is strictly below the one it sent,  *)
(* so a listing of finitely many rows ends.                                *)
CursorAdvances ==
    request.pc = "answer" /\ request.cursor # NoCursor /\ request.next # NoCursor
        => Below(request.next, request.cursor.at)

-----------------------------------------------------------------------------
(* The inductive invariant, in parts.                                      *)

(* A running request has the cursor the client holds; a listing without an *)
(* answer has returned nothing.                                            *)
CursorHeld ==
    /\ (phase = "open") <=> (cursor # NoCursor)
    /\ request.pc # "idle" => request.cursor = cursor /\ phase # "complete"
    /\ phase = "begun" => returned = {} /\ issues = {}

(* All pages of a listing are read for what its first page was bound to.   *)
FilterHeld ==
    /\ phase = "open" => cursor.filter = filter
    /\ issues \subseteq {filter.fingerprint}
    /\ request.pc \in {"list", "answer"} =>
          /\ request.filter.terms = Terms[request.query]
          /\ request.cursor # NoCursor => request.filter = filter
    /\ request.pc = "answer" => request.filter = filter

(* Steady rows match the filter whichever query with its terms is sent.    *)
SteadyMatches ==
    \A e \in steady, q \in Query :
        Terms[q] = filter.terms => Matches(e, q, filter.fingerprint)

(* The cursor separates what was returned from what is still to come.      *)
CursorSeparates ==
    phase = "open" =>
        /\ \A e \in returned : ~Below(e, cursor.at)
        /\ \A e \in steady : Below(e, cursor.at) \/ e \in returned

BelowSent(e) == request.cursor # NoCursor => Below(e, request.cursor.at)

(* A page that was read holds all steady rows between the two cursors.     *)
PageHeld ==
    request.pc = "answer" =>
        /\ \A e \in request.page : BelowSent(e)
        /\ request.next = NoCursor => \A e \in steady : BelowSent(e) => e \in request.page
        /\ request.next # NoCursor =>
              /\ request.next \in request.page
              /\ \A e \in request.page : ~Below(e, request.next)
              /\ \A e \in steady : BelowSent(e) => e \in request.page \/ Below(e, request.next)

PagingInv ==
    /\ PagingTypeOK
    /\ CursorHeld
    /\ FilterHeld
    /\ SteadyMatches
    /\ CursorSeparates
    /\ PageHeld
    /\ NoEventTwice
    /\ NoneSkipped
===============================================================================
