----------------------------- MODULE MCPipeline -----------------------------
(* Small instances of Pipeline.                                            *)
EXTENDS Pipeline, TLC

CONSTANTS e1, e2, w1, w2, s1, s2, a1, a2

(* One Java crash.                                                         *)
MCKindJava == e1 :> "java"
MCNeedsJava == e1 :> {a1}

(* A Native crash that needs two artifacts and a crash without identity.   *)
MCKindNative == e1 :> "native" @@ e2 :> "no_identity"
MCNeedsNative == e1 :> {a1, a2} @@ e2 :> {}

(* Events that are no crashes.                                             *)
MCKindPlain == [e \in Event |-> "other"]
MCNeedsPlain == [e \in Event |-> {}]

MCSymmetry == Permutations({w1, w2}) \cup Permutations({s1, s2})
=============================================================================
