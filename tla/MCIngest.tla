------------------------------ MODULE MCIngest ------------------------------
(* Small instances of IngestRequests.                                      *)
EXTENDS IngestRequests, TLC

CONSTANTS r1, r2, r3, e1, e2, e3, c1, c2, c3, k1, k2

Sent(e, c) == [event |-> e, content |-> c]

MCSize == [c \in Content |-> IF c = c1 THEN 1 ELSE IF c = c2 THEN 2 ELSE 3]

(* Two batches that name the same events in opposite order, and a third    *)
(* that claims one of them for another content; two keys.                  *)
MCBatchRace == r1 :> <<Sent(e1, c1), Sent(e2, c1)>>
            @@ r2 :> <<Sent(e2, c1), Sent(e1, c1)>>
            @@ r3 :> <<Sent(e1, c2)>>
MCKeyRace == r1 :> k1 @@ r2 :> k2 @@ r3 :> k2
MCKindRace == e1 :> "java" @@ e2 :> "other"

(* Two batches of new events compete for the last places and for the       *)
(* minutes of their key; the third has an event that is too large.         *)
MCBatchNew == r1 :> <<Sent(e1, c1), Sent(e1, c1)>>
           @@ r2 :> <<Sent(e2, c1), Sent(e3, c2)>>
           @@ r3 :> <<Sent(e3, c3)>>
MCKeyNew == r1 :> k1 @@ r2 :> k1 @@ r3 :> k2
MCKindNew == [e \in Event |-> "other"]
=============================================================================
