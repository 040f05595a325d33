------------------------------ MODULE MCUploads ------------------------------
(* Small instances of ArtifactUploads.                                      *)
EXTENDS ArtifactUploads, TLC

CONSTANTS u1, u2, u3, u4, u5, b1, b2, c1, c2, c3

(* Two uploads of the same content and one of other content for the same   *)
(* build, one whose checksum header belongs to other content, one that is  *)
(* not a symbol file.                                                      *)
MCBuild == u1 :> b1 @@ u2 :> b1 @@ u3 :> b1 @@ u4 :> b2 @@ u5 :> b2
MCSent == u1 :> c1 @@ u2 :> c1 @@ u3 :> c2 @@ u4 :> c1 @@ u5 :> c3
MCDeclared == u1 :> c1 @@ u2 :> c1 @@ u3 :> c2 @@ u4 :> c2 @@ u5 :> c3
==============================================================================
