------------------------------- MODULE MCAuth -------------------------------
(* Small instances of Authentication.                                       *)
EXTENDS Authentication, TLC

CONSTANTS r1, r2, r3, k1

(* r1 is good, r2 asks for a foreign scope, r3 names no key.                *)
MCKeyOf == [r \in Request |-> IF r = r3 THEN NoKey ELSE k1]
MCPlane == r1 :> "ingest" @@ r2 :> "ci" @@ r3 :> "query"
MCExpiry == k1 :> 2
=============================================================================
