------------------------------- MODULE MCQuery -------------------------------
(***************************************************************************)
(* A small instance of what an investigator does: EventPages and           *)
(* EvidenceReads.  The two share no variable, so interleaving them shows   *)
(* nothing that each does not show alone: a behaviour moves one of them    *)
(* and leaves the other in an initial state (one of those it may have).    *)
(***************************************************************************)
EXTENDS EventPages, EvidenceReads, TLC

CONSTANTS e1, e2, e3, e4, q1, q2, q3, q4, r1, r2, c1, c2, t1, t2,
          x1, g1, g2, g3, d1, d2

(* Three crashes of one raw fingerprint, two of which share a timestamp    *)
(* and one of which belongs to another Issue; e4 is no crash.              *)
MCTime == e1 :> 1 @@ e2 :> 2 @@ e3 :> 2 @@ e4 :> 3
MCId == e1 :> 4 @@ e2 :> 2 @@ e3 :> 3 @@ e4 :> 1
MCRaw == e1 :> r1 @@ e2 :> r1 @@ e3 :> r1 @@ e4 :> NoFingerprint
MCCanonical == e1 :> c1 @@ e2 :> c1 @@ e3 :> c2 @@ e4 :> c1

(* q1 lists the window, q2 follows the raw link, q3 names an Issue, q4     *)
(* follows the raw link in a window without e1.                            *)
MCTerms == q1 :> t1 @@ q2 :> t1 @@ q3 :> t1 @@ q4 :> t2
MCInWindow == q1 :> Event @@ q2 :> Event @@ q3 :> Event @@ q4 :> {e2, e3, e4}
MCInFilter == [q \in Query |-> Event]
MCAsks == q1 :> NoFingerprint @@ q2 :> r1 @@ q3 :> c1 @@ q4 :> r1

(* A raw read and a metadata read of one row, a raw read from another      *)
(* scope, two decisions.                                                   *)
MCTarget == [g \in Reader |-> x1]
MCPurpose == g1 :> "raw" @@ g2 :> "metadata" @@ g3 :> "raw"

MCSymmetry == Permutations({d1, d2})

QueryInit == PagingInit /\ EvidenceInit

QueryNext ==
    \/ EvidenceInit /\ PagingNext /\ UNCHANGED evidenceVars
    \/ PagingInit /\ request.query = q1 /\ EvidenceNext /\ UNCHANGED pagingVars

QuerySpec == QueryInit /\ [][QueryNext]_<<pagingVars, evidenceVars>>
==============================================================================
