--------------------------- MODULE ArtifactUploads ---------------------------
(***************************************************************************)
(* POST /artifacts/... (api/artifacts.py, artifacts.py, db/artifacts.py):  *)
(* the bytes of an upload go to a private staging file, are validated,     *)
(* renamed to a path made of build identity and checksum, and registered   *)
(* in symbol_artifacts.  Files and table are not one transaction: a        *)
(* process may die between any two steps, and uploads of one identity run  *)
(* in parallel.  The wake-up of parked jobs, part of the same transaction, *)
(* is RegisterArtifact of SymbolWorker.                                    *)
(*                                                                         *)
(* A content stands for bytes, their SHA-256 and their size.               *)
(***************************************************************************)
EXTENDS Naturals

CONSTANTS
    Upload,     \* upload requests of the build servers, retried as they like
    Build,      \* Build[u]: the ArtifactIdentity its headers declare
    Sent,       \* Sent[u]: the content of its body
    Declared,   \* Declared[u]: the content its checksum header belongs to
    Content,    \* possible contents
    Invalid,    \* uploads whose content the validation for their identity refuses
    NoContent   \* no file, no row

ASSUME UploadAssumption ==
    /\ Sent \in [Upload -> Content] /\ Declared \in [Upload -> Content]
    /\ NoContent \notin Content

VARIABLES
    staging,    \* the temporary file of each running request, by its content
    files,      \* the content of each path below the artifact root
    artifacts,  \* committed rows of symbol_artifacts, by identity
    upload      \* what each request's handler holds

uploadVars == <<staging, files, artifacts, upload>>

Builds == {Build[u] : u \in Upload}

UploadAnswers == {"refused", "conflict", "created", "duplicate", "internal_error"}

(* pc names the next step of the handler.                                  *)
UploadState ==
    [pc: {"idle", "verify", "promote", "register", "discard", "audit", "commit", "answered"},
     result: UploadAnswers \cup {"none"}]   \* once known; the answer at the end

IdleUpload == [pc |-> "idle", result |-> "none"]

UploadTypeOK ==
    /\ staging \in [Upload -> Content \cup {NoContent}]
    /\ files \in [Builds \X Content -> Content \cup {NoContent}]
    /\ artifacts \in [Builds -> Content \cup {NoContent}]
    /\ upload \in [Upload -> UploadState]

UploadInit ==
    /\ staging = [u \in Upload |-> NoContent]
    /\ files = [p \in Builds \X Content |-> NoContent]
    /\ artifacts = [b \in Builds |-> NoContent]
    /\ upload = [u \in Upload |-> IdleUpload]

-----------------------------------------------------------------------------
(* Slip: the path of an artifact is its identity alone.                    *)
StorageKeyOfBuild(build, content) == <<build, CHOOSE c \in Content : TRUE>>

StorageKey(build, content) == <<build, content>>

Path(u) == StorageKey(Build[u], Sent[u])

Goto(u, pc, result) == upload' = [upload EXCEPT ![u] = [pc |-> pc, result |-> result]]

Reply(u, answer) == Goto(u, "answered", answer)

Answered(u, answer) == upload[u].pc = "answered" /\ upload[u].result = answer

(* Its UPSERT inserted a row that is not yet committed.                    *)
Inserted(u) == upload[u].pc = "commit" /\ upload[u].result = "created"

(* Headers, key, scope or declared length are refused before any byte is   *)
(* stored.                                                                 *)
Refuse(u) ==
    /\ upload[u].pc = "idle"
    /\ Reply(u, "refused")
    /\ UNCHANGED <<staging, files, artifacts>>

(* stage: the whole body is in a synced temporary file, or, when it is too *)
(* large, empty or cut off, no file is left.                               *)
Stage(u) ==
    /\ upload[u].pc = "idle"
    /\ \/ /\ staging' = [staging EXCEPT ![u] = Sent[u]]
          /\ Goto(u, "verify", "none")
       \/ /\ staging' = [staging EXCEPT ![u] = NoContent]
          /\ Reply(u, "refused")
    /\ UNCHANGED <<files, artifacts>>

(* What the checksum and the validation of a mapping or an ELF file let    *)
(* pass.                                                                   *)
Acceptable(u) == Sent[u] = Declared[u] /\ u \notin Invalid

(* Checksum and type validation of the staged file.                        *)
Verify(u) ==
    /\ upload[u].pc = "verify"
    /\ \/ Acceptable(u) /\ Goto(u, "promote", "none") /\ UNCHANGED staging
       \/ /\ ~Acceptable(u)
          /\ staging' = [staging EXCEPT ![u] = NoContent]
          /\ Reply(u, "refused")
    /\ UNCHANGED <<files, artifacts>>

(* promote: an atomic rename over whatever the path holds.                 *)
Promote(u) ==
    /\ upload[u].pc = "promote"
    /\ files' = [files EXCEPT ![Path(u)] = staging[u]]
    /\ staging' = [staging EXCEPT ![u] = NoContent]
    /\ Goto(u, "register", "none")
    /\ UNCHANGED artifacts

(* The requests whose uncommitted row makes the UPSERT of u wait.          *)
UpsertBlockers(u) ==
    {v \in Upload \ {u} : Inserted(v) /\ Build[v] = Build[u]}

(* Slip: an existing row counts as a replay whatever its content.          *)
RegisterUncompared(u) ==
    /\ upload[u].pc = "register"
    /\ UpsertBlockers(u) = {}
    /\ Goto(u, "commit", IF artifacts[Build[u]] = NoContent THEN "created" ELSE "duplicate")
    /\ UNCHANGED <<staging, files, artifacts>>

(* register_artifact: INSERT ... ON CONFLICT DO NOTHING waits for an       *)
(* uncommitted row of the identity, then the row is read and compared.     *)
RegisterRow(u) ==
    LET row == artifacts[Build[u]]
    IN  /\ upload[u].pc = "register"
        /\ UpsertBlockers(u) = {}
        /\ \/ row = NoContent /\ Goto(u, "commit", "created")
           \/ row = Sent[u] /\ Goto(u, "commit", "duplicate")
           \/ row \notin {NoContent, Sent[u]} /\ Goto(u, "discard", "conflict")
        /\ UNCHANGED <<staging, files, artifacts>>

(* The file of an upload that lost to other content is removed.            *)
DiscardPromoted(u) ==
    /\ upload[u].pc = "discard"
    /\ files' = [files EXCEPT ![Path(u)] = NoContent]
    /\ Goto(u, "audit", "conflict")
    /\ UNCHANGED <<staging, artifacts>>

AuditConflict(u) ==
    /\ upload[u].pc = "audit"
    /\ Reply(u, "conflict")
    /\ UNCHANGED <<staging, files, artifacts>>

(* Jobs are woken, the audit entry is written, the row becomes visible.    *)
CommitUpload(u) ==
    /\ upload[u].pc = "commit"
    /\ artifacts' = IF Inserted(u) THEN [artifacts EXCEPT ![Build[u]] = Sent[u]] ELSE artifacts
    /\ Reply(u, upload[u].result)
    /\ UNCHANGED <<staging, files>>

(* An error of the file system or the database.  The transaction is rolled *)
(* back unless only the answer to COMMIT was lost; a promoted file stays.  *)
(* Validation removes the temporary file whatever goes wrong, a failed     *)
(* rename does not.                                                        *)
UploadFails(u) ==
    /\ upload[u].pc # "answered"
    /\ staging' = IF upload[u].pc = "verify" THEN [staging EXCEPT ![u] = NoContent] ELSE staging
    /\ \/ UNCHANGED artifacts
       \/ Inserted(u) /\ artifacts' = [artifacts EXCEPT ![Build[u]] = Sent[u]]
    /\ Reply(u, "internal_error")
    /\ UNCHANGED files

(* The API process dies: nobody is answered.  A promoted file stays; the   *)
(* temporary one stays under a name that no other request uses.            *)
UploadDies(u) ==
    /\ upload[u].pc \notin {"idle", "answered"}
    /\ upload' = [upload EXCEPT ![u] = IdleUpload]
    /\ staging' = [staging EXCEPT ![u] = NoContent]
    /\ UNCHANGED <<files, artifacts>>

(* The build server sends the artifact again: another temporary file.      *)
UploadAgain(u) ==
    /\ upload[u].pc = "answered"
    /\ upload' = [upload EXCEPT ![u] = IdleUpload]
    /\ staging' = [staging EXCEPT ![u] = NoContent]
    /\ UNCHANGED <<files, artifacts>>

UploadStep(u) ==
    \/ Refuse(u)
    \/ Stage(u)
    \/ Verify(u)
    \/ Promote(u)
    \/ RegisterRow(u)
    \/ DiscardPromoted(u)
    \/ AuditConflict(u)
    \/ CommitUpload(u)
    \/ UploadFails(u)
    \/ UploadDies(u)
    \/ UploadAgain(u)

UploadNext == \E u \in Upload : UploadStep(u)

UploadSpec == UploadInit /\ [][UploadNext]_uploadVars

-----------------------------------------------------------------------------
(* The file of every registered artifact is there with the registered      *)
(* content, so a symbolizer that resolved the row can open it: no crash    *)
(* leaves a row without a file, and no upload that loses to other content  *)
(* discards the winner's file (api/artifacts.py: "safe to discard").       *)
RegisteredHasFile ==
    \A b \in Builds :
        artifacts[b] # NoContent => files[StorageKey(b, artifacts[b])] = artifacts[b]

(* A 2xx answer means that the identity is registered with the content     *)
(* sent, which was valid and had the declared checksum; a conflict is      *)
(* answered only when other content is registered.  Both for ever.         *)
AnswersAreTrue ==
    \A u \in Upload :
        /\ Answered(u, "created") \/ Answered(u, "duplicate") =>
              artifacts[Build[u]] = Sent[u] /\ Acceptable(u)
        /\ Answered(u, "conflict") => artifacts[Build[u]] \notin {NoContent, Sent[u]}

(* An upload that was accepted, refused or found in conflict has left no   *)
(* temporary file (a 500 may: promote does not clean up after itself).     *)
StagingCleaned ==
    \A u \in Upload :
        upload[u].pc = "answered" /\ staging[u] # NoContent => Answered(u, "internal_error")

-----------------------------------------------------------------------------
(* The strengthening that makes them inductive.                            *)

(* What a handler may rely on at each of its steps.                        *)
HandlerKnows ==
    \A u \in Upload :
        LET row == artifacts[Build[u]]
        IN  /\ upload[u].pc \in {"verify", "promote"} => staging[u] = Sent[u]
            /\ upload[u].pc \notin {"verify", "promote"} /\ ~Answered(u, "internal_error") =>
                  staging[u] = NoContent
            /\ upload[u].pc \in {"promote", "register", "discard", "audit", "commit"} =>
                  Acceptable(u)
            /\ upload[u].pc \in {"discard", "audit"} => row \notin {NoContent, Sent[u]}
            /\ upload[u].pc = "commit" =>
                  \/ upload[u].result = "created" /\ row = NoContent
                  \/ upload[u].result = "duplicate" /\ row = Sent[u]

(* A promoted file may be discarded by another upload of the same content, *)
(* but only after different content has been registered.                   *)
PromotedKept ==
    \A u \in Upload :
        /\ upload[u].pc \in {"register", "commit"}
        /\ artifacts[Build[u]] \in {NoContent, Sent[u]}
        => files[Path(u)] = Sent[u]

(* One uncommitted row per identity.                                       *)
OneInserter ==
    \A u, v \in Upload :
        Inserted(u) /\ Inserted(v) /\ Build[u] = Build[v] => u = v

(* The inductive invariant.                                                *)
UploadInv ==
    /\ UploadTypeOK
    /\ HandlerKnows /\ PromotedKept /\ OneInserter
    /\ RegisteredHasFile /\ AnswersAreTrue /\ StagingCleaned
==============================================================================
