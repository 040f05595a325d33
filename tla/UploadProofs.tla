---------------------------- MODULE UploadProofs ----------------------------
(***************************************************************************)
(* The file of a registered artifact is always there, and the answers to   *)
(* uploads stay true, for any number of uploads, builds and contents.      *)
(***************************************************************************)
EXTENDS ArtifactUploads, TLAPS

(* What the other steps may rely on: paths are paths, and two paths with   *)
(* different content differ.                                               *)
LEMMA PathFacts ==
    /\ \A u \in Upload : Build[u] \in Builds /\ Sent[u] \in Content
    /\ \A u \in Upload : Path(u) \in Builds \X Content
    /\ \A b \in Builds, c \in Content : StorageKey(b, c) \in Builds \X Content
    /\ \A b, d \in Builds, c, e \in Content :
          StorageKey(b, c) = StorageKey(d, e) => b = d /\ c = e
  BY UploadAssumption DEF Builds, Path, StorageKey

(* The inductive invariant holds initially.                                *)
LEMMA UploadInitial == UploadInit => UploadInv
<1> SUFFICES ASSUME UploadInit PROVE UploadInv
  OBVIOUS
<1>1. UploadTypeOK
  BY UploadAssumption DEF UploadInit, UploadTypeOK, IdleUpload, UploadState, UploadAnswers
<1>2. HandlerKnows /\ PromotedKept /\ OneInserter
  BY DEF UploadInit, IdleUpload, HandlerKnows, PromotedKept, OneInserter, Inserted, Answered
<1>3. RegisteredHasFile /\ AnswersAreTrue /\ StagingCleaned
  BY DEF UploadInit, IdleUpload, RegisteredHasFile, AnswersAreTrue, StagingCleaned, Answered
<1> QED
  BY <1>1, <1>2, <1>3 DEF UploadInv

(* Every step keeps the types.                                             *)
LEMMA UploadTypeStep ==
    ASSUME UploadTypeOK, [UploadNext]_uploadVars
    PROVE  UploadTypeOK'
<1> USE DEF UploadTypeOK
<1>1. CASE UNCHANGED uploadVars
  BY <1>1 DEF uploadVars
<1>2. ASSUME NEW u \in Upload, UploadStep(u) PROVE UploadTypeOK'
  <2> USE DEF UploadState, UploadAnswers, IdleUpload, Reply, Goto
  <2>0. Sent[u] \in Content /\ Build[u] \in Builds /\ Path(u) \in Builds \X Content
    BY PathFacts
  <2>1. CASE Refuse(u)  BY <2>1 DEF Refuse
  <2>2. CASE Stage(u)
    <3>1. staging' \in [Upload -> Content \cup {NoContent}]
      BY <2>2, <2>0 DEF Stage
    <3>2. upload' \in [Upload -> UploadState]
      BY <2>2 DEF Stage
    <3> QED BY <2>2, <3>1, <3>2 DEF Stage
  <2>3. CASE Verify(u)
    <3>1. staging' \in [Upload -> Content \cup {NoContent}]
      BY <2>3 DEF Verify
    <3>2. upload' \in [Upload -> UploadState]
      BY <2>3 DEF Verify
    <3> QED BY <2>3, <3>1, <3>2 DEF Verify
  <2>4. CASE Promote(u) BY <2>4, <2>0 DEF Promote
  <2>5. CASE RegisterRow(u) BY <2>5 DEF RegisterRow
  <2>6. CASE DiscardPromoted(u) BY <2>6 DEF DiscardPromoted
  <2>7. CASE AuditConflict(u) BY <2>7 DEF AuditConflict
  <2>8. CASE CommitUpload(u) BY <2>8, <2>0 DEF CommitUpload
  <2>9. CASE UploadFails(u) BY <2>9, <2>0 DEF UploadFails
  <2>10. CASE UploadDies(u) BY <2>10 DEF UploadDies
  <2>11. CASE UploadAgain(u) BY <2>11 DEF UploadAgain
  <2> QED
    BY <1>2, <2>1, <2>2, <2>3, <2>4, <2>5, <2>6, <2>7, <2>8, <2>9, <2>10, <2>11 DEF UploadStep
<1> QED
  BY <1>1, <1>2 DEF UploadNext

(* Every step keeps the inductive invariant.                               *)
LEMMA UploadInvStep ==
    ASSUME UploadInv, [UploadNext]_uploadVars
    PROVE  UploadInv'
<1>0. UploadTypeOK /\ UploadTypeOK'
  BY UploadTypeStep DEF UploadInv
<1>a. /\ HandlerKnows /\ PromotedKept /\ OneInserter
      /\ RegisteredHasFile /\ AnswersAreTrue /\ StagingCleaned
  BY DEF UploadInv
<1>1. CASE UNCHANGED uploadVars
  BY <1>1 DEF uploadVars, UploadInv, UploadTypeOK, HandlerKnows, PromotedKept, OneInserter,
     RegisteredHasFile, AnswersAreTrue, StagingCleaned, Path, Inserted, Answered
<1>2. ASSUME NEW u \in Upload, UploadStep(u) PROVE UploadInv'
  <2> USE DEF UploadTypeOK, IdleUpload, Reply, Goto, Acceptable
  <2>0. /\ Sent[u] \in Content /\ Build[u] \in Builds /\ Path(u) \in Builds \X Content
        /\ NoContent # Sent[u]
    BY PathFacts, UploadAssumption
  (* An inserted row becomes visible: the answer, if any, is "created".     *)
  <2>a. ASSUME Inserted(u), artifacts' = [artifacts EXCEPT ![Build[u]] = Sent[u]],
               Reply(u, "created") \/ Reply(u, "internal_error"), UNCHANGED <<staging, files>>
        PROVE  UploadInv'
    <3>0. /\ \A v \in Upload : Sent[v] # NoContent
          /\ \A v \in Upload : v # u => upload'[v] = upload[v]
          /\ upload'[u].pc = "answered" /\ upload'[u].result \in {"created", "internal_error"}
          /\ UNCHANGED <<staging, files>>
      BY <1>0, <2>a, PathFacts, UploadAssumption
    <3>1. artifacts[Build[u]] = NoContent /\ upload[u].pc = "commit" /\ upload[u].result = "created"
      BY <1>a, <2>a, <2>0 DEF Inserted, HandlerKnows
    <3>2. /\ artifacts'[Build[u]] = Sent[u]
          /\ \A b \in Builds : b # Build[u] => artifacts'[b] = artifacts[b]
      BY <1>0, <2>0, <2>a
    <3>3. \A v \in Upload : v # u /\ Build[v] = Build[u] =>
             /\ upload[v].pc \notin {"discard", "audit", "commit"}
             /\ ~Answered(v, "created") /\ ~Answered(v, "duplicate") /\ ~Answered(v, "conflict")
      BY <1>a, <2>a, <3>0, <3>1 DEF HandlerKnows, AnswersAreTrue, OneInserter, Inserted
    <3>a. \A v \in Upload : artifacts'[Build[v]] =
             IF Build[v] = Build[u] THEN Sent[u] ELSE artifacts[Build[v]]
      BY <3>2, PathFacts
    <3>b. HandlerKnows'
      BY <1>a, <3>0, <3>1, <3>3, <3>a DEF HandlerKnows, Answered
    <3>4. StagingCleaned'
      BY <1>a, <3>0, <3>1 DEF HandlerKnows, StagingCleaned, Answered
    <3>5. files[Path(u)] = Sent[u]
      BY <1>a, <3>1 DEF PromotedKept
    <3>6. PromotedKept'
      BY <1>a, <2>0, <3>0, <3>1, <3>2, PathFacts DEF PromotedKept, Path
    <3>7. RegisteredHasFile'
      BY <1>0, <1>a, <2>0, <3>0, <3>2, <3>5 DEF RegisteredHasFile, Path
    <3>8. OneInserter'
      BY <1>a, <3>0 DEF OneInserter, Inserted
    <3>9. AnswersAreTrue'
      BY <1>a, <3>0, <3>1, <3>3, <3>a DEF AnswersAreTrue, Answered, HandlerKnows
    <3> QED BY <1>0, <3>b, <3>4, <3>6, <3>7, <3>8, <3>9 DEF UploadInv
  <2>1. CASE Refuse(u)
    <3>1. HandlerKnows' /\ StagingCleaned'
      BY <1>0, <1>a, <2>1, <2>0 DEF Refuse, HandlerKnows, StagingCleaned, Answered
    <3>2. PromotedKept' /\ RegisteredHasFile'
      BY <1>0, <1>a, <2>1 DEF Refuse, PromotedKept, RegisteredHasFile, Path
    <3>3. OneInserter'
      BY <1>0, <1>a, <2>1 DEF Refuse, OneInserter, Inserted
    <3>4. AnswersAreTrue'
      BY <1>0, <1>a, <2>1 DEF Refuse, AnswersAreTrue, Answered, HandlerKnows
    <3> QED BY <1>0, <3>1, <3>2, <3>3, <3>4 DEF UploadInv
  <2>2. CASE Stage(u)
    <3>1. HandlerKnows' /\ StagingCleaned'
      BY <1>0, <1>a, <2>2, <2>0 DEF Stage, HandlerKnows, StagingCleaned, Answered
    <3>2. PromotedKept' /\ RegisteredHasFile'
      BY <1>0, <1>a, <2>2 DEF Stage, PromotedKept, RegisteredHasFile, Path
    <3>3. OneInserter'
      BY <1>0, <1>a, <2>2 DEF Stage, OneInserter, Inserted
    <3>4. AnswersAreTrue'
      BY <1>0, <1>a, <2>2 DEF Stage, AnswersAreTrue, Answered, HandlerKnows
    <3> QED BY <1>0, <3>1, <3>2, <3>3, <3>4 DEF UploadInv
  <2>3. CASE Verify(u)
    <3>1. HandlerKnows' /\ StagingCleaned'
      BY <1>0, <1>a, <2>3, <2>0 DEF Verify, HandlerKnows, StagingCleaned, Answered
    <3>2. PromotedKept' /\ RegisteredHasFile'
      BY <1>0, <1>a, <2>3 DEF Verify, PromotedKept, RegisteredHasFile, Path
    <3>3. OneInserter'
      BY <1>0, <1>a, <2>3 DEF Verify, OneInserter, Inserted
    <3>4. AnswersAreTrue'
      BY <1>0, <1>a, <2>3 DEF Verify, AnswersAreTrue, Answered, HandlerKnows
    <3> QED BY <1>0, <3>1, <3>2, <3>3, <3>4 DEF UploadInv
  <2>4. CASE Promote(u)
    <3>1. HandlerKnows'
      BY <1>0, <1>a, <2>4, <2>0 DEF Promote, HandlerKnows, Answered
    <3>2. PromotedKept'
      BY <1>0, <1>a, <2>4, <2>0, PathFacts DEF Promote, PromotedKept, HandlerKnows, Path
    <3>3. OneInserter'
      BY <1>0, <1>a, <2>4, <2>0 DEF Promote, OneInserter, Inserted, UpsertBlockers
    <3>4. RegisteredHasFile'
      <4>1. staging[u] = Sent[u]
        BY <1>a, <2>4 DEF Promote, HandlerKnows
      <4>2. files' = [files EXCEPT ![Path(u)] = Sent[u]] /\ artifacts' = artifacts
        BY <2>4, <4>1 DEF Promote
      <4>3. \A b \in Builds : StorageKey(b, artifacts[b]) = Path(u) => artifacts[b] = Sent[u]
        BY PathFacts DEF Path, StorageKey
      <4> QED BY <1>0, <1>a, <4>2, <4>3, PathFacts, UploadAssumption DEF RegisteredHasFile
    <3>5. AnswersAreTrue'
      BY <1>0, <1>a, <2>4, <2>0 DEF Promote, AnswersAreTrue, Answered, HandlerKnows, Inserted
    <3>6. StagingCleaned'
      BY <1>0, <1>a, <2>4, <2>0 DEF Promote, StagingCleaned, HandlerKnows, Answered
    <3> QED BY <1>0, <3>1, <3>2, <3>3, <3>4, <3>5, <3>6 DEF UploadInv
  <2>5. CASE RegisterRow(u)
    <3>1. HandlerKnows' /\ StagingCleaned'
      BY <1>0, <1>a, <2>5, <2>0 DEF RegisterRow, HandlerKnows, StagingCleaned, Answered
    <3>2. PromotedKept' /\ RegisteredHasFile'
      BY <1>0, <1>a, <2>5 DEF RegisterRow, PromotedKept, RegisteredHasFile, Path
    <3>3. OneInserter'
      BY <1>0, <1>a, <2>5 DEF RegisterRow, OneInserter, Inserted, UpsertBlockers
    <3>4. AnswersAreTrue'
      BY <1>0, <1>a, <2>5 DEF RegisterRow, AnswersAreTrue, Answered, HandlerKnows
    <3> QED BY <1>0, <3>1, <3>2, <3>3, <3>4 DEF UploadInv
  <2>6. CASE DiscardPromoted(u)
    <3>0. artifacts[Build[u]] \notin {NoContent, Sent[u]}
      BY <1>a, <2>6 DEF HandlerKnows, DiscardPromoted
    <3>1. HandlerKnows'
      BY <1>0, <1>a, <2>6, <2>0 DEF DiscardPromoted, HandlerKnows, Answered
    <3>2. PromotedKept'
      <4> SUFFICES ASSUME NEW v \in Upload, upload'[v].pc \in {"register", "commit"},
                          artifacts[Build[v]] \in {NoContent, Sent[v]}
                   PROVE  files'[Path(v)] = Sent[v]
        BY <2>6 DEF DiscardPromoted, PromotedKept, Path
      <4>1. v # u /\ upload'[v] = upload[v]
        BY <1>0, <2>6 DEF DiscardPromoted
      <4>2. Path(v) # Path(u)
        BY <3>0, PathFacts DEF Path
      <4>3. files[Path(v)] = Sent[v]
        BY <1>a, <4>1 DEF PromotedKept
      <4> QED
        BY <1>0, <2>6, <2>0, <4>2, <4>3, PathFacts DEF DiscardPromoted
    <3>3. OneInserter'
      BY <1>0, <1>a, <2>6, <2>0 DEF DiscardPromoted, OneInserter, Inserted, UpsertBlockers
    <3>4. RegisteredHasFile'
      BY <1>0, <1>a, <2>6, <2>0, PathFacts, UploadAssumption
         DEF DiscardPromoted, RegisteredHasFile, HandlerKnows, PromotedKept, Inserted, Path
    <3>5. AnswersAreTrue'
      BY <1>0, <1>a, <2>6, <2>0 DEF DiscardPromoted, AnswersAreTrue, Answered, HandlerKnows, Inserted
    <3>6. StagingCleaned'
      BY <1>0, <1>a, <2>6, <2>0 DEF DiscardPromoted, StagingCleaned, HandlerKnows, Answered
    <3> QED BY <1>0, <3>1, <3>2, <3>3, <3>4, <3>5, <3>6 DEF UploadInv
  <2>7. CASE AuditConflict(u)
    <3>1. HandlerKnows' /\ StagingCleaned'
      BY <1>0, <1>a, <2>7, <2>0 DEF AuditConflict, HandlerKnows, StagingCleaned, Answered
    <3>2. PromotedKept' /\ RegisteredHasFile'
      BY <1>0, <1>a, <2>7 DEF AuditConflict, PromotedKept, RegisteredHasFile, Path
    <3>3. OneInserter'
      BY <1>0, <1>a, <2>7 DEF AuditConflict, OneInserter, Inserted
    <3>4. AnswersAreTrue'
      BY <1>0, <1>a, <2>7 DEF AuditConflict, AnswersAreTrue, Answered, HandlerKnows
    <3> QED BY <1>0, <3>1, <3>2, <3>3, <3>4 DEF UploadInv
  <2>8. CASE CommitUpload(u)
    <3>0. /\ \A v \in Upload : Sent[v] # NoContent
          /\ \A v \in Upload : v # u => upload'[v] = upload[v]
          /\ upload'[u].pc = "answered" /\ upload'[u].result = upload[u].result
          /\ UNCHANGED <<staging, files>>
      BY <1>0, <2>8, PathFacts, UploadAssumption DEF CommitUpload
    <3>a. CASE ~Inserted(u)
      <4>1. UNCHANGED artifacts /\ upload[u].result = "duplicate" /\ artifacts[Build[u]] = Sent[u]
        BY <1>a, <2>8, <3>a DEF CommitUpload, Inserted, HandlerKnows
      <4>2. HandlerKnows' /\ StagingCleaned'
        BY <1>a, <2>8, <3>0, <4>1 DEF CommitUpload, HandlerKnows, StagingCleaned, Answered
      <4>3. PromotedKept' /\ RegisteredHasFile'
        BY <1>a, <3>0, <4>1 DEF PromotedKept, RegisteredHasFile, Path
      <4>4. OneInserter'
        BY <1>a, <3>0 DEF OneInserter, Inserted
      <4>5. AnswersAreTrue'
        BY <1>a, <2>8, <3>0, <4>1 DEF CommitUpload, AnswersAreTrue, Answered, HandlerKnows
      <4> QED BY <1>0, <4>2, <4>3, <4>4, <4>5 DEF UploadInv
    <3>b. CASE Inserted(u)
      BY <2>8, <2>a, <3>b DEF CommitUpload, Inserted
    <3> QED BY <3>a, <3>b
  <2>9. CASE UploadFails(u)
    <3>a. CASE UNCHANGED artifacts
      <4>1. HandlerKnows' /\ StagingCleaned'
        BY <1>0, <1>a, <2>9, <2>0, <3>a DEF UploadFails, HandlerKnows, StagingCleaned, Answered
      <4>2. PromotedKept' /\ RegisteredHasFile'
        BY <1>0, <1>a, <2>9, <3>a DEF UploadFails, PromotedKept, RegisteredHasFile, Path
      <4>3. OneInserter'
        BY <1>0, <1>a, <2>9 DEF UploadFails, OneInserter, Inserted
      <4>4. AnswersAreTrue'
        BY <1>0, <1>a, <2>9, <3>a DEF UploadFails, AnswersAreTrue, Answered, HandlerKnows
      <4> QED BY <1>0, <4>1, <4>2, <4>3, <4>4 DEF UploadInv
    <3>b. CASE Inserted(u) /\ artifacts' = [artifacts EXCEPT ![Build[u]] = Sent[u]]
      BY <2>9, <2>a, <3>b DEF UploadFails, Inserted
    <3> QED BY <2>9, <3>a, <3>b DEF UploadFails
  <2>10. CASE UploadDies(u)
    <3>1. HandlerKnows' /\ StagingCleaned'
      BY <1>0, <1>a, <2>10, <2>0 DEF UploadDies, HandlerKnows, StagingCleaned, Answered
    <3>2. PromotedKept' /\ RegisteredHasFile'
      BY <1>0, <1>a, <2>10 DEF UploadDies, PromotedKept, RegisteredHasFile, Path
    <3>3. OneInserter'
      BY <1>0, <1>a, <2>10 DEF UploadDies, OneInserter, Inserted
    <3>4. AnswersAreTrue'
      BY <1>0, <1>a, <2>10 DEF UploadDies, AnswersAreTrue, Answered, HandlerKnows
    <3> QED BY <1>0, <3>1, <3>2, <3>3, <3>4 DEF UploadInv
  <2>11. CASE UploadAgain(u)
    <3>1. HandlerKnows' /\ StagingCleaned'
      BY <1>0, <1>a, <2>11, <2>0 DEF UploadAgain, HandlerKnows, StagingCleaned, Answered
    <3>2. PromotedKept' /\ RegisteredHasFile'
      BY <1>0, <1>a, <2>11 DEF UploadAgain, PromotedKept, RegisteredHasFile, Path
    <3>3. OneInserter'
      BY <1>0, <1>a, <2>11 DEF UploadAgain, OneInserter, Inserted
    <3>4. AnswersAreTrue'
      BY <1>0, <1>a, <2>11 DEF UploadAgain, AnswersAreTrue, Answered, HandlerKnows
    <3> QED BY <1>0, <3>1, <3>2, <3>3, <3>4 DEF UploadInv
  <2> QED
    BY <1>2, <2>1, <2>2, <2>3, <2>4, <2>5, <2>6, <2>7, <2>8, <2>9, <2>10, <2>11 DEF UploadStep
<1> QED
  BY <1>1, <1>2 DEF UploadNext

(* The inductive invariant holds of every upload.                          *)
THEOREM UploadsInductive == UploadSpec => []UploadInv
  BY UploadInitial, UploadInvStep, PTL DEF UploadSpec

(* Every reachable state of the upload handlers is well typed.             *)
THEOREM UploadsTypeCorrect == UploadSpec => []UploadTypeOK
<1>1. UploadInv => UploadTypeOK
  BY DEF UploadInv
<1> QED
  BY <1>1, UploadsInductive, PTL

(* The file of every registered artifact is there with its content:        *)
(* promotion before registration, and the discard after a conflict, are    *)
(* safe in every interleaving and after every crash.                       *)
THEOREM ArtifactsHaveFiles == UploadSpec => []RegisteredHasFile
<1>1. UploadInv => RegisteredHasFile
  BY DEF UploadInv
<1> QED
  BY <1>1, UploadsInductive, PTL

(* The answers to uploads are true and stay true.                          *)
THEOREM UploadAnswersHold == UploadSpec => []AnswersAreTrue
<1>1. UploadInv => AnswersAreTrue
  BY DEF UploadInv
<1> QED
  BY <1>1, UploadsInductive, PTL

(* Only an upload answered with 500 can leave a temporary file.            *)
THEOREM UploadsCleanUp == UploadSpec => []StagingCleaned
<1>1. UploadInv => StagingCleaned
  BY DEF UploadInv
<1> QED
  BY <1>1, UploadsInductive, PTL
=============================================================================
