---------------------------- MODULE QueryProofs ----------------------------
(***************************************************************************)
(* Theorems about EventPages, for any rows, queries and page sizes:        *)
(* PagingInv is inductive, and with it no listing repeats a row, skips a   *)
(* steady one, or changes its Issue.  Theorems about EvidenceReads, for    *)
(* any rows and requests: the audit log tells what was answered, nothing   *)
(* raw leaves after pruning, and decisions are audited.                    *)
(***************************************************************************)
EXTENDS EventPages, EvidenceReads, FiniteSetTheorems, TLAPS

-----------------------------------------------------------------------------
(* The order of the statement is a strict linear order of the rows.        *)
LEMMA BelowOrder ==
    /\ \A d, e \in Event : Below(d, e) => ~Below(e, d)
    /\ \A d, e, f \in Event : Below(d, e) /\ Below(e, f) => Below(d, f)
    /\ \A d, e \in Event : d = e \/ Below(d, e) \/ Below(e, d)
<1>1. \A e \in Event : Time[e] \in Nat /\ Id[e] \in Nat
  BY RowAssumption
<1>2. \A d, e \in Event : Below(d, e) => ~Below(e, d)
  BY <1>1, SMT DEF Below
<1>3. \A d, e, f \in Event : Below(d, e) /\ Below(e, f) => Below(d, f)
  BY <1>1, SMT DEF Below
<1>4. \A d, e \in Event : d = e \/ Below(d, e) \/ Below(e, d)
  BY <1>1, RowAssumption, SMT DEF Below
<1> QED
  BY <1>2, <1>3, <1>4

(* The first n rows are closed upwards: LIMIT cuts only at the end.        *)
LEMMA TopClosed ==
    ASSUME NEW C \in SUBSET Event, NEW n \in Nat,
           NEW e \in Top(C, n), NEW d \in C, Below(e, d)
    PROVE  d \in Top(C, n)
<1> DEFINE Above(y) == {x \in C : Below(y, x)}
<1>1. e \in C /\ e \in Event /\ d \in Event
  BY DEF Top
<1>2. Above(d) \subseteq Above(e)
  BY <1>1, BelowOrder, Zenon
<1>3. IsFiniteSet(Above(e)) /\ Above(e) \subseteq Event
  BY FS_Subset, RowAssumption
<1>4. Cardinality(Above(d)) <= Cardinality(Above(e))
  BY <1>2, <1>3, FS_Subset
<1>5. Cardinality(Above(d)) \in Nat /\ Cardinality(Above(e)) \in Nat
  BY <1>2, <1>3, FS_Subset, FS_CardinalityType
<1>6. Cardinality(Above(e)) < n
  BY DEF Top
<1>7. Cardinality(Above(d)) < n
  <2> HIDE DEF Above
  <2> QED
    BY <1>4, <1>5, <1>6, SMT
<1> QED
  BY <1>7 DEF Top

(* What a page leaves out lies below its last row.                         *)
LEMMA PageCut ==
    ASSUME NEW C \in SUBSET Event, NEW n \in Nat, NEW last \in Event,
           IsCursorRow(last, Top(C, n))
    PROVE  /\ last \in Top(C, n)
           /\ \A e \in Top(C, n) : ~Below(e, last)
           /\ \A e \in C : e \in Top(C, n) \/ Below(e, last)
<1> DEFINE page == Top(C, n)
<1>1. last \in page /\ page \subseteq C
  BY DEF IsCursorRow, Top
<1>2. \A e \in page : ~Below(e, last)
  <2> SUFFICES ASSUME NEW e \in page PROVE ~Below(e, last)
    OBVIOUS
  <2>1. e \in Event
    BY <1>1
  <2>2. CASE e = last
    BY <2>1, <2>2, BelowOrder
  <2>3. CASE e # last
    <3>1. Below(last, e)
      BY <2>3 DEF IsCursorRow
    <3> QED
      BY <2>1, <3>1, BelowOrder
  <2> QED
    BY <2>2, <2>3
<1>3. \A e \in C : e \in page \/ Below(e, last)
  <2> SUFFICES ASSUME NEW e \in C, ~Below(e, last) PROVE e \in page
    OBVIOUS
  <2>1. e = last \/ Below(last, e)
    BY BelowOrder
  <2>2. CASE e = last
    BY <1>1, <2>2
  <2>3. CASE Below(last, e)
    BY <1>1, <2>3, TopClosed
  <2> QED
    BY <2>1, <2>2, <2>3
<1> QED
  BY <1>1, <1>2, <1>3

-----------------------------------------------------------------------------
(* Records of requests.                                                    *)
LEMMA RequestFields ==
    ASSUME PagingTypeOK
    PROVE  /\ request.pc \in {"idle", "resolve", "list", "answer"}
           /\ request.query \in Query
           /\ request.cursor \in Cursors \cup {NoCursor}
           /\ request.filter \in Filters
           /\ request.page \in SUBSET Event
           /\ request.next \in Event \cup {NoCursor}
           /\ request.cursor # NoCursor => request.cursor.at \in Event
           /\ cursor # NoCursor => cursor.at \in Event /\ cursor.filter \in Filters
BY DEF PagingTypeOK, Requests, Cursors

(* The listing starts in a state of the invariant.                         *)
LEMMA PagingInitial == PagingInit => PagingInv
<1> SUFFICES ASSUME PagingInit PROVE PagingInv
  OBVIOUS
<1>1. PICK q \in Query :
         /\ filter = [terms |-> Terms[q], fingerprint |-> Asks[q]]
         /\ request = [pc |-> "idle", query |-> q, cursor |-> NoCursor, filter |-> filter,
                       page |-> {}, next |-> NoCursor]
  BY DEF PagingInit
<1>2. Asks[q] \in AnyFingerprint
  BY QueryAssumption
<1>3. filter \in Filters
  BY <1>1, <1>2 DEF Filters
<1>4. request \in Requests
  BY <1>1, <1>3 DEF Requests
<1>5. PagingTypeOK
  BY <1>3, <1>4 DEF PagingInit, PagingTypeOK
<1>6. request.pc = "idle"
  BY <1>1
<1>7. CursorHeld /\ FilterHeld /\ SteadyMatches /\ CursorSeparates /\ PageHeld
  BY <1>6 DEF PagingInit, CursorHeld, FilterHeld, SteadyMatches, CursorSeparates, PageHeld
<1>8. NoEventTwice /\ NoneSkipped
  BY DEF PagingInit, NoEventTwice, NoneSkipped
<1> QED
  BY <1>5, <1>7, <1>8 DEF PagingInv

-----------------------------------------------------------------------------
(* Commits of other transactions.                                          *)
LEMMA IngestRowStep ==
    ASSUME PagingInv, NEW e \in Event, IngestRow(e)
    PROVE  PagingInv'
<1> USE DEF PagingInv, IngestRow
<1>1. Raw[e] \in AnyFingerprint
  BY RowAssumption
<1>2. PagingTypeOK'
  BY <1>1 DEF PagingTypeOK
<1>3. SteadyMatches'
  <2> SUFFICES ASSUME NEW x \in steady, NEW q \in Query, Terms[q] = filter.terms
               PROVE  Matches(x, q, filter.fingerprint)'
    BY DEF SteadyMatches
  <2>1. Matches(x, q, filter.fingerprint)
    BY DEF SteadyMatches
  <2>2. x # e /\ x \in Event
    BY <2>1 DEF Matches, PagingTypeOK
  <2>3. fingerprint'[x] = fingerprint[x]
    BY <2>2 DEF PagingTypeOK
  <2> QED
    BY <2>1, <2>3 DEF Matches
<1>4. CursorHeld' /\ FilterHeld' /\ NoEventTwice' /\ NoneSkipped'
  BY DEF CursorHeld, FilterHeld, NoEventTwice, NoneSkipped
<1>5. CursorSeparates' /\ PageHeld'
  BY DEF CursorSeparates, PageHeld, BelowSent, Below
<1> QED
  BY <1>2, <1>3, <1>4, <1>5

LEMMA SymbolizeRowStep ==
    ASSUME PagingInv, NEW e \in Event, SymbolizeRow(e)
    PROVE  PagingInv'
<1> USE DEF PagingInv, SymbolizeRow
<1>1. Canonical[e] \in AnyFingerprint /\ Canonical[e] # Absent
  BY RowAssumption DEF AnyFingerprint
<1>2. steady' \subseteq steady
  OBVIOUS
<1>3. PagingTypeOK'
  BY <1>1, <1>2 DEF PagingTypeOK
<1>4. SteadyMatches'
  <2> SUFFICES ASSUME NEW x \in steady', NEW q \in Query, Terms[q] = filter.terms
               PROVE  Matches(x, q, filter.fingerprint)'
    BY DEF SteadyMatches
  <2>1. Matches(x, q, filter.fingerprint)
    BY <1>2 DEF SteadyMatches
  <2>2. x \in Event
    BY <1>2 DEF PagingTypeOK
  <2>3. CASE x = e
    <3>1. filter.fingerprint \in {NoFingerprint, Canonical[e]}
      BY <2>3
    <3>2. fingerprint'[x] = Canonical[e]
      BY <2>3 DEF PagingTypeOK
    <3> QED
      BY <1>1, <2>1, <3>1, <3>2 DEF Matches
  <2>4. CASE x # e
    <3>1. fingerprint'[x] = fingerprint[x]
      BY <2>2, <2>4 DEF PagingTypeOK
    <3> QED
      BY <2>1, <3>1 DEF Matches
  <2> QED
    BY <2>3, <2>4
<1>5. CursorHeld' /\ FilterHeld' /\ NoEventTwice' /\ NoneSkipped'
  BY <1>2 DEF CursorHeld, FilterHeld, NoEventTwice, NoneSkipped
<1>6. CursorSeparates'
  BY <1>2 DEF CursorSeparates, Below
<1>7. PageHeld'
  BY <1>2 DEF PageHeld, BelowSent, Below
<1> QED
  BY <1>3, <1>4, <1>5, <1>6, <1>7

-----------------------------------------------------------------------------
(* Steps of the client and of the handler.                                 *)
LEMMA SteadyUnchanged ==
    ASSUME SteadyMatches, UNCHANGED <<fingerprint, filter, steady>>
    PROVE  SteadyMatches'
BY DEF SteadyMatches, Matches

LEMMA FirstPageStep ==
    ASSUME PagingInv, NEW q \in Query, FirstPage(q)
    PROVE  PagingInv'
<1> USE DEF PagingInv, FirstPage
<1>1. request' \in Requests /\ request'.pc = "resolve" /\ request'.cursor = NoCursor
  BY DEF Begin, PagingTypeOK, Requests
<1>2. PagingTypeOK'
  BY <1>1 DEF PagingTypeOK
<1>3. SteadyMatches'
  BY SteadyUnchanged
<1>4. CursorHeld' /\ FilterHeld' /\ CursorSeparates' /\ PageHeld'
  BY <1>1 DEF CursorHeld, FilterHeld, CursorSeparates, PageHeld
<1>5. NoEventTwice' /\ NoneSkipped'
  BY DEF NoEventTwice, NoneSkipped
<1> QED
  BY <1>2, <1>3, <1>4, <1>5

LEMMA NextPageStep ==
    ASSUME PagingInv, NEW q \in Query, NextPage(q)
    PROVE  PagingInv'
<1> USE DEF PagingInv, NextPage
<1>1. request' \in Requests /\ request'.pc = "resolve" /\ request'.cursor = cursor
  BY DEF Begin, PagingTypeOK, Requests
<1>2. PagingTypeOK'
  BY <1>1 DEF PagingTypeOK
<1>3. SteadyMatches'
  BY SteadyUnchanged
<1>4. CursorHeld' /\ FilterHeld' /\ PageHeld'
  BY <1>1 DEF CursorHeld, FilterHeld, PageHeld
<1>5. CursorSeparates' /\ NoEventTwice' /\ NoneSkipped'
  BY DEF CursorSeparates, Below, NoEventTwice, NoneSkipped
<1> QED
  BY <1>2, <1>3, <1>4, <1>5

LEMMA ResolveStep ==
    ASSUME PagingInv, ResolveAndCheck
    PROVE  PagingInv'
<1> USE DEF PagingInv, ResolveAndCheck
<1> DEFINE q == request.query
<1>1. q \in Query /\ request.cursor \in Cursors \cup {NoCursor}
  BY RequestFields
<1>2. PICK fp \in Resolution(q) :
         /\ CursorAccepted(request.cursor, CursorFilterHash(q, fp))
         /\ request' = [request EXCEPT !.pc = "list",
                                       !.filter = [terms |-> Terms[q], fingerprint |-> fp]]
  OBVIOUS
<1>3. fp \in AnyFingerprint
  <2>1. Asks[q] \in AnyFingerprint /\ InWindow[q] \subseteq Event
    BY <1>1, QueryAssumption
  <2>2. ResolvedIssues(q) \subseteq AnyFingerprint
    BY <2>1 DEF ResolvedIssues, PagingTypeOK
  <2> QED
    BY <1>2, <2>1, <2>2 DEF Resolution
<1>4. [terms |-> Terms[q], fingerprint |-> fp] \in Filters
  BY <1>1, <1>3 DEF Filters
<1>5. /\ request' \in Requests
      /\ request'.pc = "list" /\ request'.query = q /\ request'.cursor = request.cursor
      /\ request'.filter = [terms |-> Terms[q], fingerprint |-> fp]
  BY <1>2, <1>4 DEF PagingTypeOK, Requests
<1>6. PagingTypeOK'
  BY <1>5 DEF PagingTypeOK
<1>7. SteadyMatches'
  BY SteadyUnchanged
<1>8. CursorHeld'
  BY <1>5 DEF CursorHeld
<1>9. FilterHeld'
  <2>1. request'.filter.terms = Terms[request'.query]
    BY <1>5
  <2>2. request'.cursor # NoCursor => request'.filter = filter'
    <3> SUFFICES ASSUME request.cursor # NoCursor PROVE request'.filter = filter
      BY <1>5
    <3>1. request.cursor = cursor /\ phase = "open"
      BY DEF CursorHeld
    <3>2. request.cursor.filter = CursorFilterHash(q, fp)
      BY <1>2 DEF CursorAccepted
    <3>3. cursor.filter = filter
      BY <3>1 DEF FilterHeld
    <3> QED
      BY <1>5, <3>1, <3>2, <3>3 DEF CursorFilterHash
  <2> QED
    BY <1>5, <2>1, <2>2 DEF FilterHeld
<1>10. PageHeld'
  BY <1>5 DEF PageHeld
<1>11. CursorSeparates' /\ NoEventTwice' /\ NoneSkipped'
  BY DEF CursorSeparates, Below, NoEventTwice, NoneSkipped
<1> QED
  BY <1>6, <1>7, <1>8, <1>9, <1>10, <1>11

LEMMA EndUnansweredStep ==
    ASSUME PagingInv, EndUnanswered
    PROVE  PagingInv'
<1> USE DEF PagingInv, EndUnanswered
<1>1. request' \in Requests /\ request'.pc = "idle"
  BY DEF PagingTypeOK, Requests
<1>2. PagingTypeOK'
  BY <1>1 DEF PagingTypeOK
<1>3. SteadyMatches'
  BY SteadyUnchanged
<1>4. CursorHeld' /\ FilterHeld' /\ PageHeld'
  BY <1>1 DEF CursorHeld, FilterHeld, PageHeld
<1>5. CursorSeparates' /\ NoEventTwice' /\ NoneSkipped'
  BY DEF CursorSeparates, Below, NoEventTwice, NoneSkipped
<1> QED
  BY <1>2, <1>3, <1>4, <1>5

(* Reading a page: what the statement finds is the steady set of a first   *)
(* page, and holds the steady rows below the cursor of a later one.        *)
LEMMA SteadyAreCandidates ==
    ASSUME PagingInv, request.pc = "list", request.cursor # NoCursor,
           NEW e \in steady, Below(e, request.cursor.at)
    PROVE  e \in Candidates
<1> USE DEF PagingInv
<1>1. request.query \in Query /\ e \in Event
  BY RequestFields DEF PagingTypeOK
<1>2. request.filter = filter /\ request.filter.terms = Terms[request.query]
  BY DEF FilterHeld
<1>3. Matches(e, request.query, request.filter.fingerprint)
  BY <1>1, <1>2 DEF SteadyMatches
<1>4. PastCursor(e, request.cursor.at)
  BY DEF PastCursor, Below
<1> QED
  BY <1>1, <1>3, <1>4 DEF Candidates

LEMMA ListStep ==
    ASSUME PagingInv, NEW n \in 1..MaxLimit, ListScopedEvents(n)
    PROVE  PagingInv'
<1> USE DEF PagingInv
<1> DEFINE page == Top(Candidates, n)
<1>1. request.pc = "list" /\ request \in Requests
  BY DEF ListScopedEvents, PagingTypeOK
<1>2. UNCHANGED <<fingerprint, cursor, phase, returned, repeated, issues>>
  BY DEF ListScopedEvents
<1>3. PICK next \in Event \cup {NoCursor} :
         /\ IF Candidates = page THEN next = NoCursor ELSE IsCursorRow(next, page)
         /\ request' = [request EXCEPT !.pc = "answer", !.page = page, !.next = next]
  BY DEF ListScopedEvents
<1>4. Candidates \subseteq Event /\ page \subseteq Candidates /\ n \in Nat
  BY DEF Candidates, Top
<1>5. /\ request' \in Requests
      /\ request'.pc = "answer" /\ request'.query = request.query
      /\ request'.cursor = request.cursor /\ request'.filter = request.filter
      /\ request'.page = page /\ request'.next = next
  <2> HIDE DEF page
  <2> QED
    BY <1>1, <1>3, <1>4 DEF Requests
<1>6. \/ request.cursor = NoCursor /\ filter' = request.filter /\ steady' = Candidates
      \/ request.cursor # NoCursor /\ filter' = filter /\ steady' = steady
  BY DEF ListScopedEvents
<1>7. request.filter \in Filters /\ request.query \in Query
  BY RequestFields
<1>8. request.filter.terms = Terms[request.query]
  BY <1>1 DEF FilterHeld
<1>9. PagingTypeOK'
  BY <1>2, <1>4, <1>5, <1>6, <1>7 DEF PagingTypeOK
<1>10. CursorHeld'
  BY <1>1, <1>2, <1>5 DEF CursorHeld
<1>11. request.cursor = cursor
  BY <1>1 DEF CursorHeld
<1>12. FilterHeld'
  <2>1. CASE request.cursor = NoCursor
    <3>1. phase = "begun" /\ issues = {}
      BY <1>1, <1>11, <2>1 DEF CursorHeld, PagingTypeOK
    <3> QED
      BY <1>2, <1>5, <1>6, <1>8, <2>1, <3>1 DEF FilterHeld
  <2>2. CASE request.cursor # NoCursor
    BY <1>1, <1>2, <1>5, <1>6, <1>8, <2>2 DEF FilterHeld
  <2> QED
    BY <2>1, <2>2
<1>13. SteadyMatches'
  <2>1. CASE request.cursor = NoCursor
    <3> SUFFICES ASSUME NEW e \in Candidates, NEW q \in Query,
                        Terms[q] = request.filter.terms
                 PROVE  Matches(e, q, request.filter.fingerprint)'
      BY <1>2, <1>5, <1>6, <2>1 DEF SteadyMatches, Matches
    <3>1. Matches(e, request.query, request.filter.fingerprint)
      BY DEF Candidates
    <3>2. InWindow[q] = InWindow[request.query] /\ InFilter[q] = InFilter[request.query]
      BY <1>7, <1>8, QueryAssumption
    <3> QED
      BY <1>2, <1>5, <3>1, <3>2 DEF Matches
  <2>2. CASE request.cursor # NoCursor
    BY <1>2, <1>6, <2>2, SteadyUnchanged
  <2> QED
    BY <2>1, <2>2
<1>14. CursorSeparates' /\ NoneSkipped' /\ NoEventTwice'
  <2>1. CASE request.cursor = NoCursor
    <3>1. phase = "begun"
      BY <1>1, <1>11, <2>1 DEF CursorHeld, PagingTypeOK
    <3> QED
      BY <1>2, <3>1 DEF CursorSeparates, NoneSkipped, NoEventTwice
  <2>2. CASE request.cursor # NoCursor
    BY <1>2, <1>6, <2>2 DEF CursorSeparates, Below, NoneSkipped, NoEventTwice
  <2> QED
    BY <2>1, <2>2
<1>15. \A e \in page : BelowSent(e)'
  BY <1>4, <1>5 DEF BelowSent, Candidates, PastCursor, Below
<1>16. \A e \in steady' : BelowSent(e)' => e \in Candidates
  BY <1>1, <1>5, <1>6, SteadyAreCandidates DEF BelowSent, Below
<1>17. next # NoCursor =>
          /\ next \in page
          /\ \A e \in page : ~Below(e, next)
          /\ \A e \in Candidates : e \in page \/ Below(e, next)
  <2> SUFFICES ASSUME next # NoCursor
               PROVE  /\ next \in page
                      /\ \A e \in page : ~Below(e, next)
                      /\ \A e \in Candidates : e \in page \/ Below(e, next)
    OBVIOUS
  <2>1. IsCursorRow(next, page) /\ next \in Event
    BY <1>3
  <2> QED
    BY <1>4, <2>1, PageCut
<1>18. next = NoCursor => Candidates = page
  <2> SUFFICES ASSUME next = NoCursor, Candidates # page PROVE FALSE
    OBVIOUS
  <2>1. next \in page
    BY <1>3 DEF IsCursorRow
  <2> QED
    BY <1>4, <2>1, QueryAssumption
<1>19. PageHeld'
  <2> HIDE DEF page
  <2>1. \A e \in request'.page : BelowSent(e)'
    BY <1>5, <1>15
  <2>2. request'.next = NoCursor => \A e \in steady' : BelowSent(e)' => e \in request'.page
    BY <1>5, <1>16, <1>18
  <2>3. request'.next # NoCursor =>
          /\ request'.next \in request'.page
          /\ \A e \in request'.page : ~Below(e, request'.next)
          /\ \A e \in steady' : BelowSent(e)' => e \in request'.page \/ Below(e, request'.next)
    BY <1>5, <1>16, <1>17
  <2> QED
    BY <2>1, <2>2, <2>3 DEF PageHeld, Below
<1> QED
  BY <1>9, <1>10, <1>12, <1>13, <1>14, <1>19

-----------------------------------------------------------------------------
(* A page that reaches the client is disjoint from what it has, and moves  *)
(* the cursor down.                                                        *)
LEMMA AnswerStep ==
    ASSUME PagingInv, Answer
    PROVE  PagingInv'
<1> USE DEF PagingInv
<1> DEFINE page == request.page
<1> DEFINE next == request.next
<1>1. /\ request.pc = "answer" /\ request \in Requests
      /\ request' = [request EXCEPT !.pc = "idle"]
      /\ returned' = returned \cup page
      /\ repeated' = repeated \cup (returned \cap page)
      /\ issues' = issues \cup {request.filter.fingerprint}
      /\ UNCHANGED <<fingerprint, filter, steady>>
  BY DEF Answer, PagingTypeOK
<1>2. \/ next = NoCursor /\ cursor' = NoCursor /\ phase' = "complete"
      \/ /\ next # NoCursor /\ phase' = "open"
         /\ cursor' = [at |-> next, filter |-> filter]
  <2>1. request.filter = filter /\ filter.terms = Terms[request.query] /\ filter \in Filters
    BY <1>1 DEF FilterHeld, PagingTypeOK
  <2>2. CursorFilterHash(request.query, request.filter.fingerprint) = filter
    BY <2>1 DEF CursorFilterHash, Filters
  <2> QED
    BY <2>2 DEF Answer
<1>3. request' \in Requests /\ request'.pc = "idle"
  BY <1>1 DEF Requests
<1>4. page \subseteq Event /\ next \in Event \cup {NoCursor} /\ filter \in Filters
  BY RequestFields DEF PagingTypeOK
<1>5. cursor' \in Cursors \cup {NoCursor} /\ (next # NoCursor => cursor' \in Cursors)
  BY <1>2, <1>4 DEF Cursors
<1>6. request.filter.fingerprint = filter.fingerprint /\ filter.fingerprint \in AnyFingerprint
  BY <1>1, <1>4 DEF FilterHeld, Filters
<1>7. PagingTypeOK'
  <2> HIDE DEF page, next
  <2>1. returned' \subseteq Event /\ repeated' \subseteq Event
    BY <1>1, <1>4 DEF PagingTypeOK
  <2>2. issues' \subseteq AnyFingerprint
    BY <1>1, <1>6 DEF PagingTypeOK
  <2>3. phase' \in {"begun", "open", "complete"}
    BY <1>2
  <2> QED
    BY <1>1, <1>3, <1>5, <2>1, <2>2, <2>3 DEF PagingTypeOK
<1>8. request.cursor = cursor /\ phase # "complete"
  BY <1>1 DEF CursorHeld
<1>9. returned \cap page = {}
  <2>1. CASE request.cursor = NoCursor
    BY <1>8, <2>1 DEF CursorHeld, PagingTypeOK
  <2>2. CASE request.cursor # NoCursor
    <3>1. \A e \in returned : ~Below(e, cursor.at)
      BY <1>8, <2>2 DEF CursorHeld, CursorSeparates
    <3>2. \A e \in page : Below(e, cursor.at)
      BY <1>1, <1>8, <2>2 DEF PageHeld, BelowSent
    <3> QED
      BY <3>1, <3>2
  <2> QED
    BY <2>1, <2>2
<1>10. NoEventTwice'
  BY <1>1, <1>9 DEF NoEventTwice
<1>11. \A e \in steady : ~BelowSent(e) => e \in returned
  <2> SUFFICES ASSUME NEW e \in steady, request.cursor # NoCursor,
                      ~Below(e, request.cursor.at)
               PROVE  e \in returned
    BY DEF BelowSent
  <2> QED
    BY <1>8 DEF CursorHeld, CursorSeparates
<1>12. NoneSkipped'
  <2> SUFFICES ASSUME phase' = "complete", NEW e \in steady PROVE e \in returned'
    BY <1>1 DEF NoneSkipped
  <2>1. next = NoCursor
    BY <1>2
  <2>2. BelowSent(e) => e \in page
    BY <1>1, <2>1 DEF PageHeld
  <2> QED
    BY <1>1, <1>11, <2>2
<1>13. CursorSeparates'
  <2> SUFFICES ASSUME phase' = "open"
               PROVE  /\ \A e \in returned' : ~Below(e, cursor'.at)
                      /\ \A e \in steady : Below(e, cursor'.at) \/ e \in returned'
    BY <1>1 DEF CursorSeparates, Below
  <2>1. next # NoCursor /\ cursor'.at = next /\ next \in Event
    BY <1>2, <1>4
  <2>2. /\ next \in page
        /\ \A e \in page : ~Below(e, next)
        /\ \A e \in steady : BelowSent(e) => e \in page \/ Below(e, next)
    BY <1>1, <2>1 DEF PageHeld
  <2>3. \A e \in returned : ~Below(e, next)
    <3> SUFFICES ASSUME NEW e \in returned, Below(e, next) PROVE FALSE
      OBVIOUS
    <3>1. cursor # NoCursor /\ phase = "open"
      BY <1>8 DEF CursorHeld, PagingTypeOK
    <3>2. cursor.at \in Event /\ e \in Event
      BY <3>1, RequestFields DEF PagingTypeOK
    <3>3. Below(next, cursor.at)
      BY <1>1, <1>8, <2>2, <3>1 DEF PageHeld, BelowSent
    <3>4. Below(e, cursor.at)
      BY <2>1, <3>2, <3>3, BelowOrder
    <3> QED
      BY <3>1, <3>4 DEF CursorSeparates
  <2>4. \A e \in returned' : ~Below(e, next)
    BY <1>1, <2>2, <2>3
  <2>5. \A e \in steady : Below(e, next) \/ e \in returned'
    BY <1>1, <1>11, <2>2
  <2> QED
    BY <2>1, <2>4, <2>5
<1>14. CursorHeld'
  <2>1. phase' = "open" <=> cursor' # NoCursor
    BY <1>2, <1>5, CursorAssumption
  <2>2. phase' # "begun"
    BY <1>2
  <2> QED
    BY <1>3, <2>1, <2>2 DEF CursorHeld
<1>15. FilterHeld'
  <2>1. phase' = "open" => cursor'.filter = filter'
    BY <1>1, <1>2
  <2>2. issues' \subseteq {filter'.fingerprint}
    BY <1>1, <1>6 DEF FilterHeld
  <2> QED
    BY <1>3, <2>1, <2>2 DEF FilterHeld
<1>16. SteadyMatches'
  BY <1>1, SteadyUnchanged
<1>17. PageHeld'
  BY <1>3 DEF PageHeld
<1> QED
  BY <1>7, <1>10, <1>12, <1>13, <1>14, <1>15, <1>16, <1>17

-----------------------------------------------------------------------------
(* PagingInv holds in every reachable state of the listing, whatever       *)
(* ingest and symbolization commit between its statements.                 *)
THEOREM PagingInductive == PagingSpec => []PagingInv
<1>1. PagingInv /\ [PagingNext]_pagingVars => PagingInv'
  <2> SUFFICES ASSUME PagingInv, [PagingNext]_pagingVars PROVE PagingInv'
    OBVIOUS
  <2>1. CASE \E e \in Event : IngestRow(e) \/ SymbolizeRow(e)
    BY <2>1, IngestRowStep, SymbolizeRowStep
  <2>2. CASE \E q \in Query : FirstPage(q) \/ NextPage(q)
    BY <2>2, FirstPageStep, NextPageStep
  <2>3. CASE ResolveAndCheck
    BY <2>3, ResolveStep
  <2>4. CASE EndUnanswered
    BY <2>4, EndUnansweredStep
  <2>5. CASE \E n \in 1..MaxLimit : ListScopedEvents(n)
    BY <2>5, ListStep
  <2>6. CASE Answer
    BY <2>6, AnswerStep
  <2>7. CASE UNCHANGED pagingVars
    BY <2>7 DEF pagingVars, PagingInv, PagingTypeOK, CursorHeld, FilterHeld, SteadyMatches,
                Matches, CursorSeparates, PageHeld, BelowSent, Below, NoEventTwice, NoneSkipped
  <2> QED
    BY <2>1, <2>2, <2>3, <2>4, <2>5, <2>6, <2>7 DEF PagingNext
<1> QED
  BY <1>1, PagingInitial, PTL DEF PagingSpec

(* Every reachable state of the listing is well typed.                     *)
THEOREM PagingTypeCorrect == PagingSpec => []PagingTypeOK
<1>1. PagingInv => PagingTypeOK
  BY DEF PagingInv
<1> QED
  BY <1>1, PagingInductive, PTL

(* No listing of GET /v1/query/events gives the client a row twice.        *)
THEOREM NoRepetition == PagingSpec => []NoEventTwice
<1>1. PagingInv => NoEventTwice
  BY DEF PagingInv
<1> QED
  BY <1>1, PagingInductive, PTL

(* A listing that ran to its end gave every row that matched it throughout.*)
THEOREM NoOmission == PagingSpec => []NoneSkipped
<1>1. PagingInv => NoneSkipped
  BY DEF PagingInv
<1> QED
  BY <1>1, PagingInductive, PTL

(* The pages of one listing were all read for one Issue.                   *)
THEOREM IssueIsKept == PagingSpec => []OneIssue
<1>1. PagingInv => OneIssue
  BY DEF PagingInv, FilterHeld, OneIssue
<1> QED
  BY <1>1, PagingInductive, PTL

(* Every next cursor is strictly below the one that was sent.              *)
THEOREM ListingsAdvance == PagingSpec => []CursorAdvances
<1>1. PagingInv => CursorAdvances
  BY DEF PagingInv, PageHeld, BelowSent, CursorAdvances
<1> QED
  BY <1>1, PagingInductive, PTL

-----------------------------------------------------------------------------
(* Audited reads and decisions.                                            *)

LEMMA EvidenceInitHolds == EvidenceInit => EvidenceHeld
<1> SUFFICES ASSUME EvidenceInit PROVE EvidenceHeld
    OBVIOUS
<1>1. EvidenceTypeOK
    BY DEF EvidenceInit, EvidenceTypeOK, IdleReader, IdleDecider, ReaderState, DeciderState,
           ReadAnswers
<1>2. ResultsNeedEvidence /\ LoadsHeld /\ IdsHeld
    BY DEF EvidenceInit, ResultsNeedEvidence, LoadsHeld, IdsHeld, IdleReader, IdleDecider
<1>3. LogHeld
    BY DEF EvidenceInit, LogHeld, Logged, IdleReader
<1>4. DecisionsAudited
    BY DEF EvidenceInit, DecisionsAudited
<1> QED BY <1>1, <1>2, <1>3, <1>4 DEF EvidenceHeld

(* Adding a row to a set of audit rows adds its columns to their images.   *)
LEMMA ImageAdded ==
    ASSUME NEW S, NEW row
    PROVE  /\ {a[2] : a \in S \cup {row}} = {a[2] : a \in S} \cup {row[2]}
           /\ {a[3] : a \in S \cup {row}} = {a[3] : a \in S} \cup {row[3]}
OBVIOUS

(* The log of a request while no row of it is added.                       *)
LEMMA LogKept ==
    ASSUME NEW r \in Reader, audits' = audits
    PROVE  Logged(r)' = Logged(r)
BY DEF Logged

(* Steps of the table and of decisions leave what readers hold.            *)
LEMMA ReadersKept ==
    ASSUME EvidenceHeld, UNCHANGED <<reader, atStart>>,
           \A e \in Row : evidence[e] = "pruned" => evidence'[e] = "pruned",
           \A r \in Reader : Logged(r)' = Logged(r)
    PROVE  LoadsHeld' /\ LogHeld'
<1>1. LoadsHeld'
    BY ReaderAssumption DEF EvidenceHeld, LoadsHeld, EvidenceTypeOK
<1>2. LogHeld'
    BY DEF EvidenceHeld, LogHeld, AuditResult, AnswerOf
<1> QED BY <1>1, <1>2

LEMMA TableSteps ==
    ASSUME EvidenceHeld, NEW e \in Row,
           IngestEvidence(e) \/ StoreResult(e) \/ PruneEvidence(e)
    PROVE  EvidenceHeld'
<1>1. EvidenceTypeOK'
    BY DEF EvidenceHeld, EvidenceTypeOK, IngestEvidence, StoreResult, PruneEvidence
<1>2. ResultsNeedEvidence'
    BY DEF EvidenceHeld, EvidenceTypeOK, ResultsNeedEvidence, IngestEvidence, StoreResult,
           PruneEvidence
<1>3. /\ UNCHANGED <<reader, atStart, decider, nextId, decisions, audits>>
      /\ \A x \in Row : evidence[x] = "pruned" => evidence'[x] = "pruned"
    BY DEF EvidenceHeld, EvidenceTypeOK, IngestEvidence, StoreResult, PruneEvidence
<1>4. LoadsHeld' /\ LogHeld'
    BY <1>3, LogKept, ReadersKept
<1>5. IdsHeld' /\ DecisionsAudited'
    BY <1>3 DEF EvidenceHeld, IdsHeld, DecisionsAudited
<1> QED BY <1>1, <1>2, <1>4, <1>5 DEF EvidenceHeld

(* The state of request r after each of its steps, field by field.         *)
LEMMA ReaderMoves ==
    ASSUME EvidenceHeld, NEW r \in Reader, NEW st \in ReaderState, Advance(r, st)
    PROVE  /\ reader' \in [Reader -> ReaderState] /\ reader'[r] = st
           /\ \A q \in Reader \ {r} : reader'[q] = reader[q]
BY DEF EvidenceHeld, EvidenceTypeOK, Advance

LEMMA ReaderFields ==
    ASSUME EvidenceHeld, NEW r \in Reader
    PROVE  /\ \/ ReceiveRead(r) \/ LoadEvent(r) \/ LoadJob(r)
              \/ CommitReadAudit(r) \/ AnswerRead(r) \/ FailRead(r)
              => /\ reader' \in [Reader -> ReaderState]
                 /\ \A q \in Reader \ {r} : reader'[q] = reader[q]
           /\ ReceiveRead(r) => /\ reader'[r].pc = "event" /\ reader'[r].event = reader[r].event
                                /\ reader'[r].result = reader[r].result
                                /\ reader'[r].answer = reader[r].answer
           /\ LoadEvent(r) =>
                 LET row == IF r \in Foreign THEN "absent" ELSE evidence[Target[r]] IN
                 /\ reader'[r].pc = IF row = "absent" THEN "audit" ELSE "job"
                 /\ reader'[r].event = row /\ reader'[r].result = reader[r].result
                 /\ reader'[r].answer = reader[r].answer
           /\ LoadJob(r) => /\ reader'[r].pc = "audit" /\ reader'[r].event = reader[r].event
                            /\ reader'[r].result = result[Target[r]]
                            /\ reader'[r].answer = reader[r].answer
           /\ CommitReadAudit(r) =>
                 /\ reader'[r].pc = "answer" /\ reader'[r].event = reader[r].event
                 /\ reader'[r].result = reader[r].result /\ reader'[r].answer = reader[r].answer
           /\ AnswerRead(r) =>
                 /\ reader'[r].pc = "done" /\ reader'[r].event = reader[r].event
                 /\ reader'[r].result = reader[r].result /\ reader'[r].answer = AnswerOf(r)
           /\ FailRead(r) =>
                 /\ reader'[r].pc = "done" /\ reader'[r].event = reader[r].event
                 /\ reader'[r].result = reader[r].result /\ reader'[r].answer = "error"
<1>0. /\ reader[r] \in ReaderState
      /\ Target[r] \in Row /\ evidence[Target[r]] \in {"absent", "kept", "pruned"}
      /\ result[Target[r]] \in {"null", "stored"}
    BY ReaderAssumption DEF EvidenceHeld, EvidenceTypeOK
<1> DEFINE row == IF r \in Foreign THEN "absent" ELSE evidence[Target[r]]
<1>a. AnswerOf(r) \in ReadAnswers /\ "error" \in ReadAnswers
    BY DEF AnswerOf, ReadAnswers
<1>1. ASSUME ReceiveRead(r)
      PROVE  /\ reader' \in [Reader -> ReaderState]
             /\ \A q \in Reader \ {r} : reader'[q] = reader[q]
             /\ reader'[r].pc = "event" /\ reader'[r].event = reader[r].event
             /\ reader'[r].result = reader[r].result /\ reader'[r].answer = reader[r].answer
    <2> DEFINE st == [reader[r] EXCEPT !.pc = "event"]
    <2>1. st \in ReaderState
        BY <1>0, <1>a DEF ReaderState
    <2>2. Advance(r, st)
        BY <1>1 DEF ReceiveRead
    <2>3. /\ reader' \in [Reader -> ReaderState] /\ reader'[r] = st
          /\ \A q \in Reader \ {r} : reader'[q] = reader[q]
        BY <2>1, <2>2, ReaderMoves
    <2> QED BY <1>0, <2>3 DEF ReaderState
<1>2. ASSUME LoadEvent(r)
      PROVE  /\ reader' \in [Reader -> ReaderState]
             /\ \A q \in Reader \ {r} : reader'[q] = reader[q]
             /\ reader'[r].pc = IF row = "absent" THEN "audit" ELSE "job"
             /\ reader'[r].event = row /\ reader'[r].result = reader[r].result
             /\ reader'[r].answer = reader[r].answer
    <2> DEFINE st == [reader[r] EXCEPT !.pc = IF row = "absent" THEN "audit" ELSE "job", !.event = row]
    <2>1. st \in ReaderState
        BY <1>0, <1>a DEF ReaderState
    <2>2. Advance(r, st)
        BY <1>2 DEF LoadEvent
    <2>3. /\ reader' \in [Reader -> ReaderState] /\ reader'[r] = st
          /\ \A q \in Reader \ {r} : reader'[q] = reader[q]
        BY <2>1, <2>2, ReaderMoves
    <2> QED BY <1>0, <2>3 DEF ReaderState
<1>3. ASSUME LoadJob(r)
      PROVE  /\ reader' \in [Reader -> ReaderState]
             /\ \A q \in Reader \ {r} : reader'[q] = reader[q]
             /\ reader'[r].pc = "audit" /\ reader'[r].event = reader[r].event
             /\ reader'[r].result = result[Target[r]]
             /\ reader'[r].answer = reader[r].answer
    <2> DEFINE st == [reader[r] EXCEPT !.pc = "audit", !.result = result[Target[r]]]
    <2>1. st \in ReaderState
        BY <1>0, <1>a DEF ReaderState
    <2>2. Advance(r, st)
        BY <1>3 DEF LoadJob
    <2>3. /\ reader' \in [Reader -> ReaderState] /\ reader'[r] = st
          /\ \A q \in Reader \ {r} : reader'[q] = reader[q]
        BY <2>1, <2>2, ReaderMoves
    <2> QED BY <1>0, <2>3 DEF ReaderState
<1>4. ASSUME CommitReadAudit(r)
      PROVE  /\ reader' \in [Reader -> ReaderState]
             /\ \A q \in Reader \ {r} : reader'[q] = reader[q]
             /\ reader'[r].pc = "answer" /\ reader'[r].event = reader[r].event
             /\ reader'[r].result = reader[r].result /\ reader'[r].answer = reader[r].answer
    <2> DEFINE st == [reader[r] EXCEPT !.pc = "answer"]
    <2>1. st \in ReaderState
        BY <1>0, <1>a DEF ReaderState
    <2>2. Advance(r, st)
        BY <1>4 DEF CommitReadAudit
    <2>3. /\ reader' \in [Reader -> ReaderState] /\ reader'[r] = st
          /\ \A q \in Reader \ {r} : reader'[q] = reader[q]
        BY <2>1, <2>2, ReaderMoves
    <2> QED BY <1>0, <2>3 DEF ReaderState
<1>5. ASSUME AnswerRead(r)
      PROVE  /\ reader' \in [Reader -> ReaderState]
             /\ \A q \in Reader \ {r} : reader'[q] = reader[q]
             /\ reader'[r].pc = "done" /\ reader'[r].event = reader[r].event
             /\ reader'[r].result = reader[r].result /\ reader'[r].answer = AnswerOf(r)
    <2> DEFINE st == [reader[r] EXCEPT !.pc = "done", !.answer = AnswerOf(r)]
    <2>1. st \in ReaderState
        BY <1>0, <1>a DEF ReaderState
    <2>2. Advance(r, st)
        BY <1>5 DEF AnswerRead
    <2>3. /\ reader' \in [Reader -> ReaderState] /\ reader'[r] = st
          /\ \A q \in Reader \ {r} : reader'[q] = reader[q]
        BY <2>1, <2>2, ReaderMoves
    <2> QED BY <1>0, <2>3 DEF ReaderState
<1>6. ASSUME FailRead(r)
      PROVE  /\ reader' \in [Reader -> ReaderState]
             /\ \A q \in Reader \ {r} : reader'[q] = reader[q]
             /\ reader'[r].pc = "done" /\ reader'[r].event = reader[r].event
             /\ reader'[r].result = reader[r].result /\ reader'[r].answer = "error"
    <2> DEFINE st == [reader[r] EXCEPT !.pc = "done", !.answer = "error"]
    <2>1. st \in ReaderState
        BY <1>0, <1>a DEF ReaderState
    <2>2. Advance(r, st)
        BY <1>6 DEF FailRead
    <2>3. /\ reader' \in [Reader -> ReaderState] /\ reader'[r] = st
          /\ \A q \in Reader \ {r} : reader'[q] = reader[q]
        BY <2>1, <2>2, ReaderMoves
    <2> QED BY <1>0, <2>3 DEF ReaderState
<1> QED BY <1>1, <1>2, <1>3, <1>4, <1>5, <1>6

(* What a step of request r has to show: types, what r holds, the log.     *)
LEMMA ReaderSteps ==
    ASSUME EvidenceHeld, NEW r \in Reader,
           \/ ReceiveRead(r) \/ LoadEvent(r) \/ LoadJob(r)
           \/ CommitReadAudit(r) \/ AnswerRead(r) \/ FailRead(r)
    PROVE  EvidenceHeld'
<1>0. /\ reader[r] \in ReaderState /\ Target[r] \in Row /\ r \notin Decider
      /\ reader[r].pc \in {"idle", "event", "job", "audit", "answer", "done"}
    BY ReaderAssumption DEF EvidenceHeld, EvidenceTypeOK, ReaderState
<1>1. /\ reader' \in [Reader -> ReaderState]
      /\ \A q \in Reader \ {r} : reader'[q] = reader[q]
    BY ReaderFields
<1>2. /\ UNCHANGED <<evidence, result, decider, nextId, decisions>>
      /\ \A q \in Reader \ {r} : atStart'[q] = atStart[q]
      /\ atStart'[r] = IF ReceiveRead(r) THEN evidence[Target[r]] ELSE atStart[r]
      /\ atStart' \in [Reader -> {"absent", "kept", "pruned"}]
    BY <1>0 DEF ReceiveRead, LoadEvent, LoadJob, CommitReadAudit, AnswerRead, FailRead, Advance,
              EvidenceHeld, EvidenceTypeOK
<1>4. EvidenceTypeOK'
    BY <1>1, <1>2 DEF EvidenceHeld, EvidenceTypeOK
<1>5. ResultsNeedEvidence' /\ IdsHeld'
    BY <1>2 DEF EvidenceHeld, ResultsNeedEvidence, IdsHeld
<1>6. LoadsHeld'
    <2>1. ASSUME NEW q \in Reader, q # r
          PROVE  /\ reader'[q] = reader[q] /\ atStart'[q] = atStart[q]
                 /\ evidence'[Target[q]] = evidence[Target[q]]
        BY <1>1, <1>2, <2>1
    <2>2. /\ reader'[r].pc \in {"idle", "event"} =>
                reader'[r].event = "none" /\ reader'[r].result = "null"
          /\ reader'[r].pc \in {"job", "audit", "answer"} => reader'[r].event # "none"
        <3>1. CASE ReceiveRead(r)
            BY <1>0, <3>1, ReaderFields DEF ReceiveRead, EvidenceHeld, LoadsHeld
        <3>2. CASE LoadEvent(r)
            <4>1. evidence[Target[r]] # "none"
                BY <1>0 DEF EvidenceHeld, EvidenceTypeOK
            <4> QED BY <3>2, <4>1, ReaderFields
        <3>3. CASE LoadJob(r)
            <4>1. reader[r].event # "none"
                BY <3>3 DEF LoadJob, EvidenceHeld, LoadsHeld
            <4> QED BY <3>3, <4>1, ReaderFields
        <3>4. CASE CommitReadAudit(r)
            BY <3>4, ReaderFields DEF CommitReadAudit, EvidenceHeld, LoadsHeld
        <3>5. CASE AnswerRead(r) \/ FailRead(r)
            BY <3>5, ReaderFields
        <3> QED BY <3>1, <3>2, <3>3, <3>4, <3>5
    <2>3. reader'[r].pc # "idle" /\ atStart'[r] = "pruned" =>
              /\ evidence'[Target[r]] = "pruned"
              /\ reader'[r].event # "kept" /\ reader'[r].result = "null"
        <3>1. CASE ReceiveRead(r)
            BY <1>0, <1>2, <3>1, ReaderFields DEF ReceiveRead, EvidenceHeld, LoadsHeld
        <3>2. CASE ~ReceiveRead(r)
            <4>1. atStart'[r] = atStart[r] /\ reader[r].pc # "idle"
                BY <1>2, <3>2 DEF LoadEvent, LoadJob, CommitReadAudit, AnswerRead, FailRead
            <4>2. atStart[r] = "pruned" =>
                      /\ evidence[Target[r]] = "pruned" /\ result[Target[r]] = "null"
                      /\ reader[r].event # "kept" /\ reader[r].result = "null"
                BY <1>0, <4>1 DEF EvidenceHeld, LoadsHeld, ResultsNeedEvidence
            <4>3. CASE LoadEvent(r)
                BY <1>2, <4>1, <4>2, <4>3, ReaderFields
            <4>4. CASE LoadJob(r)
                BY <1>2, <4>1, <4>2, <4>4, ReaderFields
            <4>5. CASE CommitReadAudit(r) \/ AnswerRead(r) \/ FailRead(r)
                BY <1>2, <4>1, <4>2, <4>5, ReaderFields
            <4> QED BY <3>2, <4>3, <4>4, <4>5
        <3> QED BY <3>1, <3>2
    <2> SUFFICES ASSUME NEW q \in Reader
                 PROVE  /\ reader'[q].pc \in {"idle", "event"} =>
                              reader'[q].event = "none" /\ reader'[q].result = "null"
                        /\ reader'[q].pc \in {"job", "audit", "answer"} => reader'[q].event # "none"
                        /\ reader'[q].pc # "idle" /\ atStart'[q] = "pruned" =>
                              /\ evidence'[Target[q]] = "pruned"
                              /\ reader'[q].event # "kept" /\ reader'[q].result = "null"
        BY DEF LoadsHeld
    <2>4. CASE q = r
        BY <2>2, <2>3, <2>4
    <2>5. CASE q # r
        BY <2>1, <2>5 DEF EvidenceHeld, LoadsHeld
    <2> QED BY <2>4, <2>5
<1>7. LogHeld'
    <2>1. \A q \in Reader \ {r} : Logged(q)' = Logged(q)
        <3>1. CASE audits' = audits
            BY <3>1, LogKept
        <3>2. CASE audits' = audits \cup {<<r, Target[r], AuditResult(r)>>}
            BY <3>2 DEF Logged
        <3> QED BY <3>1, <3>2 DEF ReceiveRead, LoadEvent, LoadJob, CommitReadAudit, AnswerRead,
                  FailRead
    <2>2. \A q \in Reader \ {r} : AuditResult(q)' = AuditResult(q) /\ AnswerOf(q)' = AnswerOf(q)
        BY <1>1 DEF AuditResult, AnswerOf
    <2>3. ASSUME NEW q \in Reader, q # r
          PROVE  /\ reader'[q] = reader[q] /\ Logged(q)' = Logged(q)
                 /\ AuditResult(q)' = AuditResult(q) /\ AnswerOf(q)' = AnswerOf(q)
        BY <1>1, <2>1, <2>2, <2>3
    <2>4. /\ reader'[r].pc # "done" => reader'[r].answer = "none"
          /\ reader'[r].pc \in {"idle", "event", "job", "audit"} => Logged(r)' = {}
          /\ reader'[r].pc = "answer" => Logged(r)' = {AuditResult(r)'}
          /\ reader'[r].pc = "done" =>
                \/ reader'[r].answer = "error" /\ Logged(r)' \subseteq {AuditResult(r)'}
                \/ /\ reader'[r].answer = AnswerOf(r)' /\ Logged(r)' = {AuditResult(r)'}
                   /\ reader'[r].event # "none"
        <3>1. CASE ReceiveRead(r) \/ LoadEvent(r) \/ LoadJob(r)
            <4>1. Logged(r)' = Logged(r)
                BY <3>1, LogKept DEF ReceiveRead, LoadEvent, LoadJob
            <4>2. /\ reader'[r].pc \in {"event", "job", "audit"} /\ reader'[r].answer = reader[r].answer
                  /\ reader[r].pc \in {"idle", "event", "job"}
                BY <3>1, ReaderFields DEF ReceiveRead, LoadEvent, LoadJob
            <4> QED BY <4>1, <4>2 DEF EvidenceHeld, LogHeld
        <3>2. CASE CommitReadAudit(r)
            <4>1. Logged(r)' = Logged(r) \cup {AuditResult(r)}
                <5>1. audits' = audits \cup {<<r, Target[r], AuditResult(r)>>}
                    BY <3>2 DEF CommitReadAudit
                <5>2. {x \in audits' : x[1] = r} =
                          {x \in audits : x[1] = r} \cup {<<r, Target[r], AuditResult(r)>>}
                    BY <5>1
                <5>3. <<r, Target[r], AuditResult(r)>>[3] = AuditResult(r)
                    OBVIOUS
                <5>4. {a[3] : a \in {x \in audits : x[1] = r} \cup {<<r, Target[r], AuditResult(r)>>}}
                          = {a[3] : a \in {x \in audits : x[1] = r}} \cup {AuditResult(r)}
                    BY <5>3, ImageAdded, Zenon
                <5> QED BY <5>2, <5>4, Zenon DEF Logged
            <4>2. /\ reader'[r].pc = "answer" /\ reader'[r].answer = reader[r].answer
                  /\ AuditResult(r)' = AuditResult(r)
                BY <3>2, ReaderFields DEF AuditResult
            <4> QED BY <3>2, <4>1, <4>2 DEF CommitReadAudit, EvidenceHeld, LogHeld
        <3>3. CASE AnswerRead(r)
            <4>1. Logged(r)' = Logged(r)
                BY <3>3, LogKept DEF AnswerRead
            <4>2. /\ reader'[r].pc = "done" /\ reader'[r].answer = AnswerOf(r)
                  /\ reader'[r].event = reader[r].event
                BY <3>3, ReaderFields
            <4>3. AuditResult(r)' = AuditResult(r) /\ AnswerOf(r)' = AnswerOf(r)
                BY <4>2 DEF AuditResult, AnswerOf
            <4> QED BY <3>3, <4>1, <4>2, <4>3 DEF AnswerRead, EvidenceHeld, LogHeld, LoadsHeld
        <3>4. CASE FailRead(r)
            <4>1. Logged(r)' = Logged(r)
                BY <3>4, LogKept DEF FailRead
            <4>2. /\ reader'[r].pc = "done" /\ reader'[r].answer = "error"
                  /\ reader'[r].event = reader[r].event
                BY <3>4, ReaderFields
            <4>3. AuditResult(r)' = AuditResult(r)
                BY <4>2 DEF AuditResult
            <4> QED BY <3>4, <4>1, <4>2, <4>3 DEF FailRead, EvidenceHeld, LogHeld
        <3> QED BY <3>1, <3>2, <3>3, <3>4
    <2> QED BY <2>3, <2>4, Zenon DEF EvidenceHeld, LogHeld
<1>8. DecisionsAudited'
    <2>1. audits' = audits \/ audits' = audits \cup {<<r, Target[r], AuditResult(r)>>}
        BY DEF ReceiveRead, LoadEvent, LoadJob, CommitReadAudit, AnswerRead, FailRead
    <2>2. {x \in audits' : x[1] \in Decider} = {x \in audits : x[1] \in Decider}
        BY <1>0, <2>1
    <2> QED BY <1>2, <2>2 DEF EvidenceHeld, DecisionsAudited
<1> QED BY <1>4, <1>5, <1>6, <1>7, <1>8 DEF EvidenceHeld

LEMMA DeciderMoves ==
    ASSUME EvidenceHeld, NEW d \in Decider, NEW st \in DeciderState, Decide(d, st)
    PROVE  /\ decider' \in [Decider -> DeciderState] /\ decider'[d] = st
           /\ \A c \in Decider \ {d} : decider'[c] = decider[c]
           /\ UNCHANGED <<evidence, result, reader, atStart>>
BY DEF EvidenceHeld, EvidenceTypeOK, Decide

LEMMA DeciderSteps ==
    ASSUME EvidenceHeld, NEW d \in Decider,
           FlushDecision(d) \/ CommitDecision(d) \/ FailDecision(d)
    PROVE  EvidenceHeld'
<1>0. decider[d] \in DeciderState /\ d \notin Reader /\ nextId \in Nat \ {0}
    BY ReaderAssumption DEF EvidenceHeld, EvidenceTypeOK
<1>1. /\ decider' \in [Decider -> DeciderState]
      /\ \A c \in Decider \ {d} : decider'[c] = decider[c]
      /\ UNCHANGED <<evidence, result, reader, atStart>>
      /\ decider'[d].pc = "flushed" => FlushDecision(d) /\ decider'[d].id = nextId
    <2>1. CASE FlushDecision(d)
        <3>1. [decider[d] EXCEPT !.pc = "flushed", !.id = nextId] \in DeciderState
            BY <1>0 DEF DeciderState
        <3>2. Decide(d, [decider[d] EXCEPT !.pc = "flushed", !.id = nextId])
            BY <2>1 DEF FlushDecision
        <3>3. [decider[d] EXCEPT !.pc = "flushed", !.id = nextId].id = nextId
            BY <1>0 DEF DeciderState
        <3> QED BY <2>1, <3>1, <3>2, <3>3, DeciderMoves
    <2>2. CASE CommitDecision(d)
        <3>1. [decider[d] EXCEPT !.pc = "done", !.answer = "created"] \in DeciderState
            BY <1>0 DEF DeciderState
        <3> QED BY <1>0, <2>2, <3>1, DeciderMoves DEF CommitDecision, DeciderState
    <2>3. CASE FailDecision(d)
        <3>1. [decider[d] EXCEPT !.pc = "done", !.answer = "error"] \in DeciderState
            BY <1>0 DEF DeciderState
        <3> QED BY <1>0, <2>3, <3>1, DeciderMoves DEF FailDecision, DeciderState
    <2> QED BY <2>1, <2>2, <2>3
<1>2. /\ nextId' \in Nat \ {0} /\ nextId <= nextId'
      /\ FlushDecision(d) => nextId' = nextId + 1
    BY <1>0 DEF FlushDecision, CommitDecision, FailDecision
<1>3. IdsHeld'
    <2> SUFFICES ASSUME NEW c \in Decider, decider'[c].pc = "flushed"
                 PROVE  decider'[c].id \in 1..(nextId' - 1)
        BY DEF IdsHeld
    <2>1. CASE c = d
        BY <1>0, <1>1, <1>2, <2>1
    <2>2. CASE c # d
        <3>1. decider[c].id \in 1..(nextId - 1) /\ decider'[c] = decider[c]
            BY <1>1, <2>2 DEF EvidenceHeld, IdsHeld
        <3> QED BY <1>0, <1>2, <3>1
    <2> QED BY <2>1, <2>2
<1>4. \/ UNCHANGED <<decisions, audits>>
      \/ /\ decisions' = decisions \cup {decider[d].id}
         /\ audits' = audits \cup {<<d, decider[d].id, "success">>}
         /\ decider[d].pc = "flushed"
    BY DEF FlushDecision, CommitDecision, FailDecision
<1>5. EvidenceTypeOK'
    <2>1. decisions \subseteq 1..(nextId - 1)
        BY DEF EvidenceHeld, EvidenceTypeOK
    <2>2. decider[d].pc = "flushed" => decider[d].id \in 1..(nextId - 1)
        BY DEF EvidenceHeld, IdsHeld
    <2>3. decisions' \subseteq 1..(nextId' - 1)
        <3>1. \A k \in 1..(nextId - 1) : k \in 1..(nextId' - 1)
            <4> DEFINE m == nextId
                       n == nextId'
            <4>1. m \in Nat /\ n \in Nat /\ m <= n
                BY <1>0, <1>2
            <4> HIDE DEF m, n
            <4>2. \A k \in 1..(m - 1) : k \in 1..(n - 1)
                BY <4>1
            <4> QED BY <4>2 DEF m, n
        <3>2. CASE decisions' = decisions
            BY <2>1, <3>1, <3>2
        <3>3. CASE decisions' = decisions \cup {decider[d].id} /\ decider[d].pc = "flushed"
            BY <2>1, <2>2, <3>1, <3>3
        <3> QED BY <1>4, <3>2, <3>3
    <2> QED BY <1>1, <1>2, <2>3 DEF EvidenceHeld, EvidenceTypeOK
<1>6. \A r \in Reader : Logged(r)' = Logged(r)
    <2> SUFFICES ASSUME NEW r \in Reader PROVE Logged(r)' = Logged(r)
        OBVIOUS
    <2>1. {x \in audits' : x[1] = r} = {x \in audits : x[1] = r}
        BY <1>0, <1>4
    <2> QED BY <2>1 DEF Logged
<1>7. ResultsNeedEvidence' /\ LoadsHeld' /\ LogHeld'
    BY <1>1, <1>6, ReadersKept DEF EvidenceHeld, ResultsNeedEvidence
<1>8. DecisionsAudited'
    <2>1. CASE UNCHANGED <<decisions, audits>>
        BY <2>1 DEF EvidenceHeld, DecisionsAudited
    <2>2. CASE /\ decisions' = decisions \cup {decider[d].id}
               /\ audits' = audits \cup {<<d, decider[d].id, "success">>}
        <3>1. {x \in audits' : x[1] \in Decider} =
                  {x \in audits : x[1] \in Decider} \cup {<<d, decider[d].id, "success">>}
            BY <2>2
        <3>2. {a[2] : a \in {x \in audits' : x[1] \in Decider}} =
                  {a[2] : a \in {x \in audits : x[1] \in Decider}} \cup {decider[d].id}
            <4>1. <<d, decider[d].id, "success">>[2] = decider[d].id
                OBVIOUS
            <4>2. {a[2] : a \in {x \in audits : x[1] \in Decider}
                                   \cup {<<d, decider[d].id, "success">>}}
                      = {a[2] : a \in {x \in audits : x[1] \in Decider}} \cup {decider[d].id}
                BY <4>1, ImageAdded, Zenon
            <4> QED BY <3>1, <4>2, Zenon
        <3> QED BY <2>2, <3>2 DEF EvidenceHeld, DecisionsAudited
    <2> QED BY <1>4, <2>1, <2>2
<1> QED BY <1>3, <1>5, <1>7, <1>8 DEF EvidenceHeld

(* The invariant behind the audit properties: what a request has loaded,   *)
(* what the log has of it, and which ids decisions hold.                   *)
THEOREM EvidenceInductive == EvidenceSpec => []EvidenceHeld
<1>1. EvidenceHeld /\ [EvidenceNext]_evidenceVars => EvidenceHeld'
    <2> SUFFICES ASSUME EvidenceHeld, [EvidenceNext]_evidenceVars PROVE EvidenceHeld'
        OBVIOUS
    <2>1. CASE UNCHANGED evidenceVars
        BY <2>1 DEF evidenceVars, EvidenceHeld, EvidenceTypeOK, ResultsNeedEvidence, LoadsHeld,
              LogHeld, IdsHeld, DecisionsAudited, Logged, AuditResult, AnswerOf
    <2> QED BY <2>1, TableSteps, ReaderSteps, DeciderSteps DEF EvidenceNext
<1> QED BY <1>1, EvidenceInitHolds, PTL DEF EvidenceSpec

(* The audit log tells what each request was answered, however retention   *)
(* interleaves with its statements and its COMMIT (get_raw_event,          *)
(* get_event_metadata).                                                    *)
THEOREM AuditIsTrue == EvidenceSpec => []AuditTellsAnswer
<1>1. EvidenceHeld => AuditTellsAnswer
    <2> SUFFICES ASSUME EvidenceHeld, NEW r \in Reader
                 PROVE  CASE reader[r].answer \in {"raw", "metadata"} -> Logged(r) = {"success"}
                          [] reader[r].answer = "not_found" -> Logged(r) = {"not_found"}
                          [] reader[r].answer = "expired"   -> Logged(r) = {"expired"}
                          [] OTHER -> Cardinality(Logged(r)) <= 1
        BY DEF AuditTellsAnswer
    <2>0. reader[r] \in ReaderState /\ Purpose[r] \in {"raw", "metadata"}
        BY ReaderAssumption DEF EvidenceHeld, EvidenceTypeOK
    <2>1. Logged(r) = {} \/ Logged(r) = {AuditResult(r)}
        BY <2>0 DEF EvidenceHeld, LogHeld, ReaderState
    <2>2. Cardinality(Logged(r)) <= 1
        <3>1. Cardinality({}) = 0 /\ Cardinality({AuditResult(r)}) = 1
            BY FS_EmptySet, FS_Singleton, Zenon
        <3> QED BY <2>1, <3>1
    <2>3. reader[r].answer \notin {"none", "error"} =>
              /\ reader[r].answer = AnswerOf(r) /\ Logged(r) = {AuditResult(r)}
              /\ reader[r].event # "none"
        BY <2>0 DEF EvidenceHeld, LogHeld, ReaderState
    <2>4. CASE reader[r].answer \in {"none", "error"}
        BY <2>2, <2>4
    <2>5. CASE reader[r].answer \notin {"none", "error"}
        BY <2>0, <2>3, <2>5 DEF AnswerOf, AuditResult, ReaderState
    <2> QED BY <2>4, <2>5
<1> QED BY <1>1, EvidenceInductive, PTL

(* Well-typed requests; one that came after pruning gets nothing raw; a    *)
(* decision and its audit row are committed together.                      *)
THEOREM EvidenceIsKept == EvidenceSpec => []EvidenceInv
<1>1. EvidenceHeld => EvidenceInv
    <2> SUFFICES ASSUME EvidenceHeld PROVE EvidenceInv
        OBVIOUS
    <2>1. NothingAfterPrune
        <3> SUFFICES ASSUME NEW r \in Reader, reader[r].answer # "none", atStart[r] = "pruned"
                     PROVE  reader[r].answer # "raw" /\ reader[r].result = "null"
            BY DEF NothingAfterPrune
        <3>1. reader[r].pc = "done"
            BY DEF EvidenceHeld, LogHeld
        <3>2. reader[r].event # "kept" /\ reader[r].result = "null"
            BY <3>1 DEF EvidenceHeld, LoadsHeld
        <3>3. reader[r] \in ReaderState /\ Purpose[r] \in {"raw", "metadata"}
            BY ReaderAssumption DEF EvidenceHeld, EvidenceTypeOK
        <3> QED BY <3>1, <3>2, <3>3 DEF EvidenceHeld, LogHeld, AnswerOf, ReaderState
    <2> QED BY <2>1 DEF EvidenceHeld, EvidenceInv
<1> QED BY <1>1, EvidenceInductive, PTL
=============================================================================
