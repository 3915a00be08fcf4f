---------------------------- MODULE DeletionProofs ----------------------------
(***************************************************************************)
(* What the gateway guarantees about deletions under any interleaving and  *)
(* any failure, for every value of the constants.                          *)
(*                                                                         *)
(* The argument: an action of a handler is of one of four kinds (Quiet,    *)
(* Patches, Marks, Opens below); DeletionInv is preserved by each kind and *)
(* by every step of the environment; the properties follow.                *)
(***************************************************************************)
EXTENDS GatewayProofs

-----------------------------------------------------------------------------
(* The kinds of handler steps.                                             *)

Goes(r, S) == \E s \in S : pc' = [pc EXCEPT ![r] = s]

(* The services are left alone; the step may be the status check of r, or  *)
(* the look of a deletion at its record.                                   *)
QuietTarget(r, s) ==
  /\ s \notin {"idle", "delete.mark"}
  /\ s \in PastStatusCheck =>
       pc[r] \in PastStatusCheck \/ ~IsBeingDeleted(call[r].id)
  /\ s = "delete.job" =>
       IsRecord(call[r].id) /\ catalog[call[r].id].type # QUANTIZED_MESH_DTM_BEST
  /\ s \in BeforeJob => pc[r] \in BeforeJob

Quiet(r) ==
  /\ UNCHANGED <<catalog, job, overtaken, wrote, misled, outdated>>
  /\ \E s : QuietTarget(r, s) /\ pc' = [pc EXCEPT ![r] = s]

(* The catalog applies an update of metadata.                              *)
Patches(r) ==
  /\ pc[r] = "update.patch"
  /\ call[r].id \in Keys
  /\ ApplyPatch(r)
  /\ Goes(r, {"answered", "crashed"})

(* The catalog applies a status, given by the client or by a deletion.     *)
Marks(r) ==
  /\ call[r].id \in Keys
  /\ Goes(r, {"answered", "crashed"})
  /\ \/ /\ pc[r] = "delete.mark"
        /\ ApplyStatus(r, call[r].id, BEING_DELETED)
     \/ /\ pc[r] = "status.change"
        /\ call[r].op = "updateStatus"
        /\ call[r].status \in RecordStatus
        /\ ApplyStatus(r, call[r].id, call[r].status)

(* The store-trigger opens a job.                                          *)
Opens(r) ==
  /\ OpenJob(r)
  /\ \/ pc[r] = "create.ingest" /\ Goes(r, {"answered", "crashed"})
     \/ pc[r] = "delete.job" /\ Goes(r, {"delete.mark", "answered", "crashed"})

(* The steps that follow a status check.                                   *)
LEMMA PastStatusCheckSteps ==
  PastStatusCheck =
    {"update.file", "update.class", "update.find", "update.reread",
     "update.lock", "update.patch", "status.lock", "status.change",
     "delete.job", "delete.mark"}
BY StepsOfOps DEF PastStatusCheck

(* The steps that precede the job.                                         *)
LEMMA BeforeJobSteps ==
  BeforeJob =
    {"create.path", "create.tileset", "create.read", "create.product",
     "create.name", "create.class", "create.ingest", "delete.find", "delete.job"}
BY DEF BeforeJob, IngestionSteps

(* An end is quiet.                                                        *)
LEMMA RespondIsQuiet ==
  ASSUME NEW r, NEW a, Respond(r, a), UNCHANGED <<services, history>>
  PROVE  Quiet(r)
BY PastStatusCheckSteps, BeforeJobSteps
   DEF Respond, Quiet, QuietTarget, services, history

(* A failing call is quiet.                                                *)
LEMMA FailsIsQuiet ==
  ASSUME NEW r, CallFails(r)
  PROVE  Quiet(r)
BY RespondIsQuiet DEF CallFails

(* Going on to another call is quiet when its target allows it.            *)
LEMMA AwaitIsQuiet ==
  ASSUME NEW r, NEW s, QuietTarget(r, s), Await(r, s), UNCHANGED <<services, history>>
  PROVE  Quiet(r)
BY DEF Quiet, Await, services, history

(* The kinds of the steps of updateMetadata and updateStatus.              *)
LEMMA MetadataKinds ==
  ASSUME TypeOK, NEW r \in Requests, MetadataStep(r), r \notin late, UNCHANGED late
  PROVE  Quiet(r) \/ Patches(r) \/ Marks(r)
<1>. USE PastStatusCheckSteps, BeforeJobSteps, RespondIsQuiet, FailsIsQuiet, AwaitIsQuiet
     DEF QuietTarget
<1>1. CASE UpdateGetRecord(r)
  BY <1>1 DEF UpdateGetRecord, AfterGet, AfterFile, AfterClass, isUpdateValid,
              isUpdatable, getRecord, IsBeingDeleted
<1>2. CASE UpdateGetFile(r)
  BY <1>2 DEF UpdateGetFile, AfterFile, AfterClass
<1>3. CASE UpdateGetClassifications(r)
  BY <1>3 DEF UpdateGetClassifications, AfterClass
<1>4. CASE UpdateFindName(r)
  BY <1>4 DEF UpdateFindName
<1>5. CASE UpdateReadAgain(r)
  BY <1>5 DEF UpdateReadAgain, NotFoundIsRejected
<1>6. CASE UpdateCheckLock(r)
  BY <1>6 DEF UpdateCheckLock
<1>7. CASE UpdatePatch(r)
  <2>1. call[r].id \in Keys
    BY <1>7, StepsOfOps, StepTellsOp, ReadType DEF UpdatePatch, Placed
  <2>. QED
    BY <1>7, <2>1 DEF UpdatePatch, NotFoundIsRejected, Patches, Respond, Goes
<1>8. CASE StatusGetRecord(r)
  BY <1>8 DEF StatusGetRecord, NotFoundIsRejected, AfterStatusCheck,
              isUpdatable, getRecord, IsBeingDeleted
<1>9. CASE StatusCheckLock(r)
  BY <1>9 DEF StatusCheckLock
<1>10. CASE StatusChange(r)
  <2>1. call[r].id \in Keys /\ call[r].op = "updateStatus" /\ call[r].status \in RecordStatus
    BY <1>10, StepsOfOps, StepTellsOp, ReadType DEF StatusChange, Placed, WellFormed
  <2>. QED
    BY <1>10, <2>1 DEF StatusChange, NotFoundIsRejected, Marks, Respond, Goes
<1>. QED
  BY <1>1, <1>2, <1>3, <1>4, <1>5, <1>6, <1>7, <1>8, <1>9, <1>10 DEF MetadataStep

(* The kinds of the steps of the handlers of models.                       *)
LEMMA ModelKinds ==
  ASSUME TypeOK, NEW r \in Requests, ModelManagerStep(r), r \notin late, UNCHANGED late
  PROVE  Quiet(r) \/ Marks(r) \/ Opens(r)
<1>. USE PastStatusCheckSteps, BeforeJobSteps, RespondIsQuiet, FailsIsQuiet, AwaitIsQuiet
     DEF QuietTarget, ModelRefused, ModelAccepted, ModelStep
<1>1. CASE CheckModelPath(r)
  BY <1>1 DEF CheckModelPath
<1>2. CASE CheckTileset(r)
  BY <1>2 DEF CheckTileset
<1>3. CASE ReadTileset(r)
  BY <1>3 DEF ReadTileset, AfterRead
<1>4. CASE CheckProductId(r)
  BY <1>4 DEF CheckProductId
<1>5. CASE CheckProductName(r)
  BY <1>5 DEF CheckProductName
<1>6. CASE CheckClassification(r)
  BY <1>6 DEF CheckClassification
<1>7. CASE StartIngestion(r)
  BY <1>7 DEF StartIngestion, Opens, Goes, Respond
<1>8. CASE DeleteFindRecord(r)
  BY <1>8 DEF DeleteFindRecord, isDeletable, validateDelete, getRecord, IsRecord,
              IsBeingDeleted, UNPUBLISHED, BEING_DELETED
<1>9. CASE StartDeleteJob(r)
  BY <1>9 DEF StartDeleteJob, Opens, Goes, Respond, Await
<1>10. CASE MarkBeingDeleted(r)
  <2>1. call[r].id \in Keys
    BY <1>10, StepsOfOps, StepTellsOp, ReadType DEF MarkBeingDeleted, Placed
  <2>. QED
    BY <1>10, <2>1 DEF MarkBeingDeleted, Marks, Respond, Goes
<1>11. CASE CanDelete(r)
  BY <1>11 DEF CanDelete
<1>. QED
  BY <1>1, <1>2, <1>3, <1>4, <1>5, <1>6, <1>7, <1>8, <1>9, <1>10, <1>11
     DEF ModelManagerStep

(* Every step of a handler is of one of the four kinds.                    *)
LEMMA HandleKinds ==
  ASSUME TypeOK, NEW r \in Requests, Handle(r)
  PROVE  /\ Quiet(r) \/ Patches(r) \/ Marks(r) \/ Opens(r)
         /\ call' = call
         /\ Placed(r)
BY MetadataKinds, ModelKinds, MetadataStepIsHandlerStep, ModelManagerStepIsHandlerStep
   DEF Handle, HandlerStep

(* A call that is carried out after its request has ended is of the kind   *)
(* it would have been of before.                                           *)
LEMMA DeliverKinds ==
  ASSUME TypeOK, NEW r \in Requests, Deliver(r)
  PROVE  /\ Patches(r) \/ Marks(r) \/ Opens(r)
         /\ call' = call
         /\ Placed(r)
<1>1. Placed(r) /\ call' = call /\ Goes(r, {"answered", "crashed"})
  BY DeliverTyped DEF Goes
<1>2. /\ pc[r] \in {"update.patch", "status.change", "delete.mark"} => call[r].id \in Keys
      /\ pc[r] = "status.change" => call[r].op = "updateStatus" /\ call[r].status \in RecordStatus
  BY <1>1, StepTellsOp, StepsOfOps DEF WellFormed
<1>. QED
  BY <1>1, <1>2 DEF Deliver, Patches, Marks, Opens, Goes

-----------------------------------------------------------------------------
(* The invariant.                                                          *)

(* Whoever is past its status check has a record's identifier.             *)
LEMMA StaleIsAboutRecord ==
  ASSUME TypeOK, NEW q \in Requests, pc[q] \in PastStatusCheck
  PROVE  call[q].id \in Keys
<1>1. Placed(q)
  BY PastStatusCheckSteps DEF Placed
<1>2. call[q].op \in {"updateMetadata", "updateStatus", "deleteModel"}
  BY <1>1, PastStatusCheckSteps, StepsOfOps, StepTellsOp
<1>. QED
  BY <1>1, <1>2, ReadType

(* No deletion is under way at the start.                                  *)
LEMMA InitDeletionInv == Init => DeletionInv
BY DomainAssumption, PastStatusCheckSteps, BeforeJobSteps
   DEF Init, DeletionInv, NewModelsUnpublished, NoJobBeforeAsking, IngestedByDoneJob,
       DeletesWhatWasThere, MarksWithJob, OnlyOvertakenAreStale, IsRecord, Keys

(* A quiet step keeps the invariant.                                       *)
LEMMA QuietKeeps ==
  ASSUME TypeOK, DeletionInv, NEW r \in Requests, pc[r] # "idle", call' = call, Quiet(r)
  PROVE  DeletionInv'
<1>1. PICK s : QuietTarget(r, s) /\ pc' = [pc EXCEPT ![r] = s]
  BY DEF Quiet
<1>2. \A q \in Requests : pc'[q] = IF q = r THEN s ELSE pc[q]
  BY <1>1 DEF TypeOK
<1>3. UNCHANGED <<catalog, job, overtaken, call>>
  BY DEF Quiet
<1>4. NewModelsUnpublished'
  BY <1>2, <1>3 DEF DeletionInv, NewModelsUnpublished
<1>5. NoJobBeforeAsking'
  BY <1>1, <1>2, <1>3 DEF DeletionInv, NoJobBeforeAsking, QuietTarget, BeforeJob, IngestionSteps
<1>6. IngestedByDoneJob'
  BY <1>3 DEF DeletionInv, IngestedByDoneJob, IsRecord
<1>7. DeletesWhatWasThere'
  BY <1>1, <1>2, <1>3
     DEF DeletionInv, DeletesWhatWasThere, IngestedByDoneJob, QuietTarget, IsRecord
<1>8. MarksWithJob'
  BY <1>1, <1>2, <1>3 DEF DeletionInv, MarksWithJob, QuietTarget, IsRecord
<1>9. OnlyOvertakenAreStale'
  BY <1>1, <1>2, <1>3, PastStatusCheckSteps
     DEF DeletionInv, OnlyOvertakenAreStale, QuietTarget, PastStatusCheck, Steps,
         IsBeingDeleted, IsRecord
<1>. QED
  BY <1>4, <1>5, <1>6, <1>7, <1>8, <1>9 DEF DeletionInv

(* When a record is rewritten, and stays one.                              *)
Rewrites(k, record) ==
  /\ k \in Keys
  /\ IsRecord(k)
  /\ record \in Record3D
  /\ catalog' = [catalog EXCEPT ![k] = record]

(* Rewriting a record neither adds nor removes one.                        *)
LEMMA RewriteKeepsRecords ==
  ASSUME TypeOK, NEW k, NEW record, Rewrites(k, record)
  PROVE  \A j \in Keys :
           /\ IsRecord(j)' <=> IsRecord(j)
           /\ IsBeingDeleted(j)' <=>
                IF j = k THEN record.status = BEING_DELETED ELSE IsBeingDeleted(j)
BY MarkerAssumption DEF Rewrites, TypeOK, IsRecord, IsBeingDeleted

(* An update of metadata keeps the status and the type of its record.      *)
LEMMA PatchRewrites ==
  ASSUME TypeOK, NEW r \in Requests, Patches(r)
  PROVE  /\ Rewrites(call[r].id, Patched(catalog[call[r].id], call[r]))
         /\ Patched(catalog[call[r].id], call[r]).status = catalog[call[r].id].status
         /\ Patched(catalog[call[r].id], call[r]).type = catalog[call[r].id].type
<1>1. Placed(r)
  BY DEF Patches, Placed
<1>2. call[r] \in Payloads
  BY <1>1, StepTellsOp
<1>3. catalog[call[r].id] \in Record3D
  BY DEF Patches, ApplyPatch, TypeOK
<1>. QED
  BY <1>2, <1>3, PatchedType DEF Patches, ApplyPatch, Rewrites, IsRecord

(* An update of metadata keeps the invariant.                              *)
LEMMA PatchKeeps ==
  ASSUME TypeOK, DeletionInv, NEW r \in Requests, call' = call, Patches(r)
  PROVE  DeletionInv'
<1>1. PICK e \in {"answered", "crashed"} :
        \A q \in Requests : pc'[q] = IF q = r THEN e ELSE pc[q]
  BY DEF TypeOK, Patches, Goes
<1>2. UNCHANGED <<job, overtaken, call>> /\ pc[r] # "idle"
  BY DEF Patches, ApplyPatch
<1>3. \A j \in Keys : (IsRecord(j)' <=> IsRecord(j)) /\ (IsBeingDeleted(j)' <=> IsBeingDeleted(j))
  <2>. DEFINE k == call[r].id
              record == Patched(catalog[k], call[r])
  <2>1. Rewrites(k, record) /\ record.status = catalog[k].status /\ IsRecord(k)
    BY PatchRewrites DEF Patches, ApplyPatch, IsRecord
  <2>. HIDE DEF k, record
  <2>2. \A j \in Keys :
          /\ IsRecord(j)' <=> IsRecord(j)
          /\ IsBeingDeleted(j)' <=>
               IF j = k THEN record.status = BEING_DELETED ELSE IsBeingDeleted(j)
    BY <2>1, RewriteKeepsRecords
  <2>. QED
    BY <2>1, <2>2 DEF IsBeingDeleted
<1>5. NewModelsUnpublished'
  BY <1>1, <1>2 DEF DeletionInv, NewModelsUnpublished
<1>6. NoJobBeforeAsking'
  BY <1>1, <1>2 DEF DeletionInv, NoJobBeforeAsking, BeforeJob, IngestionSteps
<1>7. IngestedByDoneJob'
  BY <1>2, <1>3 DEF DeletionInv, IngestedByDoneJob, Keys
<1>8. DeletesWhatWasThere'
  BY <1>1, <1>2 DEF DeletionInv, DeletesWhatWasThere
<1>9. MarksWithJob'
  BY <1>1, <1>2, <1>3, StaleIsAboutRecord, PastStatusCheckSteps
     DEF DeletionInv, MarksWithJob
<1>10. OnlyOvertakenAreStale'
  <2>1. ASSUME NEW q \in Requests, pc'[q] \in PastStatusCheck, IsBeingDeleted(call[q].id)'
        PROVE  q \in overtaken
    BY <1>1, <1>3, <2>1, StaleIsAboutRecord, PastStatusCheckSteps
       DEF DeletionInv, OnlyOvertakenAreStale
  <2>. QED
    BY <1>2, <2>1 DEF OnlyOvertakenAreStale, PastStatusCheck, Steps, IsBeingDeleted, IsRecord
<1>. QED
  BY <1>5, <1>6, <1>7, <1>8, <1>9, <1>10 DEF DeletionInv

(* A status change keeps everything but the status of its record.          *)
LEMMA MarkRewrites ==
  ASSUME TypeOK, NEW r \in Requests, NEW k \in Keys, NEW s \in RecordStatus,
         ApplyStatus(r, k, s)
  PROVE  /\ Rewrites(k, [catalog[k] EXCEPT !.status = s])
         /\ [catalog[k] EXCEPT !.status = s].status = s
         /\ [catalog[k] EXCEPT !.status = s].type = catalog[k].type
<1>1. catalog[k] \in Record3D
  BY DEF ApplyStatus, TypeOK
<1>. QED
  BY <1>1, StatusType DEF ApplyStatus, Rewrites, IsRecord

(* A status that is applied keeps the invariant: whoever it makes stale is *)
(* overtaken.                                                              *)
LEMMA ApplyStatusKeeps ==
  ASSUME TypeOK, DeletionInv, NEW r \in Requests, NEW k \in Keys,
         NEW s \in RecordStatus, ApplyStatus(r, k, s),
         call' = call, pc[r] # "idle", Goes(r, {"answered", "crashed"})
  PROVE  /\ DeletionInv'
         /\ \A j \in Keys :
              /\ IsRecord(j)' <=> IsRecord(j)
              /\ IsBeingDeleted(j)' <=> IF j = k THEN s = BEING_DELETED ELSE IsBeingDeleted(j)
<1>1. PICK e \in {"answered", "crashed"} :
        \A q \in Requests : pc'[q] = IF q = r THEN e ELSE pc[q]
  BY DEF TypeOK, Goes
<1>2. UNCHANGED <<job, call>>
  BY DEF ApplyStatus
<1>3. \A j \in Keys :
        /\ IsRecord(j)' <=> IsRecord(j)
        /\ IsBeingDeleted(j)' <=> IF j = k THEN s = BEING_DELETED ELSE IsBeingDeleted(j)
  <2>. DEFINE record == [catalog[k] EXCEPT !.status = s]
  <2>1. Rewrites(k, record) /\ record.status = s
    BY MarkRewrites
  <2>. HIDE DEF record
  <2>. QED
    BY <2>1, RewriteKeepsRecords
<1>4. NewModelsUnpublished'
  BY <1>1, <1>2 DEF DeletionInv, NewModelsUnpublished
<1>5. NoJobBeforeAsking'
  BY <1>1, <1>2 DEF DeletionInv, NoJobBeforeAsking, BeforeJob, IngestionSteps
<1>6. IngestedByDoneJob'
  BY <1>2, <1>3 DEF DeletionInv, IngestedByDoneJob, Keys
<1>7. DeletesWhatWasThere'
  BY <1>1, <1>2 DEF DeletionInv, DeletesWhatWasThere
<1>8. MarksWithJob'
  BY <1>1, <1>2, <1>3, StaleIsAboutRecord, PastStatusCheckSteps
     DEF DeletionInv, MarksWithJob
<1>9. OnlyOvertakenAreStale'
  <2>1. ASSUME NEW q \in Requests, pc'[q] \in PastStatusCheck, IsBeingDeleted(call[q].id)'
        PROVE  q \in overtaken'
    <3>1. q # r /\ pc[q] \in PastStatusCheck /\ call[q].id \in Keys
      BY <1>1, <2>1, StaleIsAboutRecord, PastStatusCheckSteps
    <3>2. CASE call[q].id = k /\ s = BEING_DELETED
      BY <3>1, <3>2 DEF ApplyStatus, RestOn
    <3>3. CASE call[q].id # k
      BY <1>3, <2>1, <3>1, <3>3 DEF DeletionInv, OnlyOvertakenAreStale, ApplyStatus
    <3>. QED
      BY <1>3, <2>1, <3>1, <3>2, <3>3
  <2>. QED
    BY <1>2, <2>1 DEF OnlyOvertakenAreStale, PastStatusCheck, Steps, IsBeingDeleted, IsRecord
<1>. QED
  BY <1>3, <1>4, <1>5, <1>6, <1>7, <1>8, <1>9 DEF DeletionInv

(* A mark, or a status change, keeps the invariant.                        *)
LEMMA MarkKeeps ==
  ASSUME TypeOK, DeletionInv, NEW r \in Requests, call' = call, Marks(r)
  PROVE  DeletionInv'
BY ApplyStatusKeeps DEF Marks, RecordStatus, BEING_DELETED

(* Opening a job keeps the invariant.                                      *)
LEMMA OpenKeeps ==
  ASSUME TypeOK, DeletionInv, NEW r \in Requests, call' = call, Opens(r)
  PROVE  DeletionInv'
<1>1. PICK s \in {"delete.mark", "answered", "crashed"} :
        /\ pc' = [pc EXCEPT ![r] = s]
        /\ s = "delete.mark" => pc[r] = "delete.job"
  BY DEF Opens, Goes
<1>2. \A q \in Requests : pc'[q] = IF q = r THEN s ELSE pc[q]
  BY <1>1 DEF TypeOK
<1>3. UNCHANGED <<catalog, overtaken, call>>
      /\ \A q \in Requests : job'[q] = IF q = r THEN "open" ELSE job[q]
  BY DEF Opens, OpenJob, history, TypeOK
<1>4. job[r] = "none" /\ pc[r] # "idle"
  BY BeforeJobSteps DEF Opens, DeletionInv, NoJobBeforeAsking
<1>5. NewModelsUnpublished'
  BY <1>2, <1>3, <1>4 DEF DeletionInv, NewModelsUnpublished
<1>6. NoJobBeforeAsking'
  BY <1>1, <1>2, <1>3, BeforeJobSteps DEF DeletionInv, NoJobBeforeAsking, BeforeJob, IngestionSteps
<1>7. IngestedByDoneJob'
  BY <1>3, <1>4 DEF DeletionInv, IngestedByDoneJob, IsRecord
<1>8. DeletesWhatWasThere'
  BY <1>1, <1>2, <1>3, <1>4 DEF DeletionInv, DeletesWhatWasThere
<1>9. MarksWithJob'
  BY <1>1, <1>2, <1>3 DEF DeletionInv, MarksWithJob, IsRecord
<1>10. OnlyOvertakenAreStale'
  BY <1>1, <1>2, <1>3, PastStatusCheckSteps
     DEF DeletionInv, OnlyOvertakenAreStale, PastStatusCheck, Steps, IsBeingDeleted, IsRecord
<1>. QED
  BY <1>5, <1>6, <1>7, <1>8, <1>9, <1>10 DEF DeletionInv

(* A request that arrives keeps the invariant.                             *)
LEMMA ReceiveKeeps ==
  ASSUME TypeOK, DeletionInv, NEW r \in Requests, Receive(r)
  PROVE  DeletionInv'
<1>1. PICK c \in Calls : /\ call' = [call EXCEPT ![r] = Controller(c)]
                         /\ pc' = [pc EXCEPT ![r] = FirstStep[c.op]]
  BY DEF Receive, Await
<1>2. UNCHANGED <<catalog, job, overtaken>> /\ pc[r] = "idle" /\ job[r] = "none"
  BY DEF Receive, services, history, TypeOK
<1>3. \A q \in Requests : /\ pc'[q] = IF q = r THEN FirstStep[c.op] ELSE pc[q]
                          /\ call'[q] = IF q = r THEN Controller(c) ELSE call[q]
  BY <1>1 DEF TypeOK
<1>4. FirstStep[c.op] \notin PastStatusCheck
  <2>1. c.op \in Ops
    BY CallAssumption DEF Payloads
  <2>. QED
    BY <2>1, PastStatusCheckSteps DEF FirstStep, Ops
<1>5. NewModelsUnpublished'
  BY <1>3, ControllerType DEF DeletionInv, NewModelsUnpublished
<1>6. NoJobBeforeAsking'
  BY <1>2, <1>3 DEF DeletionInv, NoJobBeforeAsking, BeforeJob, IngestionSteps
<1>7. IngestedByDoneJob'
  BY <1>2 DEF DeletionInv, IngestedByDoneJob, IsRecord
<1>8. DeletesWhatWasThere'
  BY <1>2, <1>3, <1>4, PastStatusCheckSteps DEF DeletionInv, DeletesWhatWasThere
<1>9. MarksWithJob'
  BY <1>2, <1>3, <1>4, PastStatusCheckSteps DEF DeletionInv, MarksWithJob, IsRecord
<1>10. OnlyOvertakenAreStale'
  BY <1>2, <1>3, <1>4
     DEF DeletionInv, OnlyOvertakenAreStale, PastStatusCheck, Steps, IsBeingDeleted, IsRecord
<1>. QED
  BY <1>5, <1>6, <1>7, <1>8, <1>9, <1>10 DEF DeletionInv

(* A request that dies with its replica keeps the invariant.               *)
LEMMA CrashKeeps ==
  ASSUME TypeOK, DeletionInv, NEW r \in Requests, Crash(r)
  PROVE  DeletionInv'
<1>1. QuietTarget(r, "crashed")
  BY PastStatusCheckSteps, BeforeJobSteps DEF QuietTarget
<1>2. Quiet(r) /\ pc[r] # "idle" /\ call' = call
  BY <1>1 DEF Crash, Quiet, services, history, Waiting
<1>. QED
  BY <1>2, QuietKeeps

(* An ingestion that is carried out keeps the invariant.                   *)
LEMMA RunIngestionKeeps ==
  ASSUME TypeOK, DeletionInv, NEW r \in Requests, RunIngestion(r)
  PROVE  DeletionInv'
<1>1. job[r] = "open" /\ call[r].op = "createModel" /\ UNCHANGED <<call, pc, overtaken>>
  BY DEF RunIngestion, history
<1>2. \A q \in Requests : job'[q] = IF q = r THEN "done" ELSE job[q]
  BY DEF RunIngestion, TypeOK
<1>3. \A j \in Keys : /\ j # r => (IsRecord(j)' <=> IsRecord(j))
                      /\ IsBeingDeleted(j)' => IsBeingDeleted(j)
  <2>1. /\ call[r] \in Payloads /\ WellFormed(call[r])
        /\ call[r].status = UNPUBLISHED
    BY <1>1, JobIsOfCall DEF DeletionInv, NewModelsUnpublished
  <2>2. IngestedRecord(call[r]).status = UNPUBLISHED
    BY <1>1, <2>1, IngestedType
  <2>. QED
    BY <2>2 DEF RunIngestion, TypeOK, Keys, IsRecord, IsBeingDeleted, UNPUBLISHED, BEING_DELETED
<1>4. NewModelsUnpublished'
  BY <1>1 DEF DeletionInv, NewModelsUnpublished
<1>5. NoJobBeforeAsking'
  BY <1>1, <1>2 DEF DeletionInv, NoJobBeforeAsking, BeforeJob, IngestionSteps
<1>6. IngestedByDoneJob'
  BY <1>2, <1>3 DEF DeletionInv, IngestedByDoneJob, Keys
<1>7. DeletesWhatWasThere'
  BY <1>1, <1>2 DEF DeletionInv, DeletesWhatWasThere
<1>8. MarksWithJob'
  <2>1. ASSUME NEW q \in Requests, pc[q] = "delete.mark"
        PROVE  job'[q] # "none" /\ (job'[q] = "done" => ~IsRecord(call[q].id)')
    <3>1. call[q].op = "deleteModel" /\ q # r
      BY <1>1, <2>1, StepTellsOp, StepsOfOps DEF Placed
    <3>2. call[q].id \in Keys
      BY <2>1, StaleIsAboutRecord, PastStatusCheckSteps
    <3>3. call[q].id # r
      BY <1>1, <2>1 DEF DeletionInv, DeletesWhatWasThere
    <3>. QED
      BY <1>1, <1>2, <1>3, <2>1, <3>1, <3>2, <3>3 DEF DeletionInv, MarksWithJob, IsRecord
  <2>. QED
    BY <1>1, <2>1 DEF MarksWithJob, IsRecord
<1>9. OnlyOvertakenAreStale'
  <2>1. ASSUME NEW q \in Requests, pc[q] \in PastStatusCheck, IsBeingDeleted(call[q].id)'
        PROVE  q \in overtaken
    BY <1>1, <1>3, <2>1, StaleIsAboutRecord
       DEF DeletionInv, OnlyOvertakenAreStale, IsBeingDeleted, IsRecord
  <2>. QED
    BY <1>1, <2>1 DEF OnlyOvertakenAreStale, PastStatusCheck, Steps, IsBeingDeleted, IsRecord
<1>. QED
  BY <1>4, <1>5, <1>6, <1>7, <1>8, <1>9 DEF DeletionInv

(* A deletion that is carried out keeps the invariant.                     *)
LEMMA RunDeleteKeeps ==
  ASSUME TypeOK, DeletionInv, NEW r \in Requests, RunDelete(r)
  PROVE  DeletionInv'
<1>1. job[r] = "open" /\ call[r].op = "deleteModel" /\ UNCHANGED <<call, pc, overtaken>>
  BY DEF RunDelete, history
<1>2. \A q \in Requests : job'[q] = IF q = r THEN "done" ELSE job[q]
  BY DEF RunDelete, TypeOK
<1>3. call[r].id \in Keys
  BY <1>1, JobIsOfCall DEF WellFormed
<1>4. \A j \in Keys : /\ IsRecord(j)' <=> j # call[r].id /\ IsRecord(j)
                      /\ IsBeingDeleted(j)' => IsBeingDeleted(j)
  BY <1>3 DEF RunDelete, TypeOK, IsRecord, IsBeingDeleted
<1>5. NewModelsUnpublished'
  BY <1>1 DEF DeletionInv, NewModelsUnpublished
<1>6. NoJobBeforeAsking'
  BY <1>1, <1>2 DEF DeletionInv, NoJobBeforeAsking, BeforeJob, IngestionSteps
<1>7. IngestedByDoneJob'
  BY <1>2, <1>4 DEF DeletionInv, IngestedByDoneJob, Keys
<1>8. DeletesWhatWasThere'
  BY <1>1, <1>2 DEF DeletionInv, DeletesWhatWasThere
<1>9. MarksWithJob'
  <2>1. ASSUME NEW q \in Requests, pc[q] = "delete.mark"
        PROVE  job'[q] # "none" /\ (job'[q] = "done" => ~IsRecord(call[q].id)')
    <3>1. call[q].id \in Keys
      BY <2>1, StaleIsAboutRecord, PastStatusCheckSteps
    <3>. QED
      BY <1>1, <1>2, <1>4, <2>1, <3>1 DEF DeletionInv, MarksWithJob, IsRecord
  <2>. QED
    BY <1>1, <2>1 DEF MarksWithJob, IsRecord
<1>10. OnlyOvertakenAreStale'
  <2>1. ASSUME NEW q \in Requests, pc[q] \in PastStatusCheck, IsBeingDeleted(call[q].id)'
        PROVE  q \in overtaken
    BY <1>1, <1>4, <2>1, StaleIsAboutRecord
       DEF DeletionInv, OnlyOvertakenAreStale, IsBeingDeleted, IsRecord
  <2>. QED
    BY <1>1, <2>1 DEF OnlyOvertakenAreStale, PastStatusCheck, Steps, IsBeingDeleted, IsRecord
<1>. QED
  BY <1>5, <1>6, <1>7, <1>8, <1>9, <1>10 DEF DeletionInv

(* The invariant speaks of nothing that the other steps change.            *)
LEMMA UnseenKeeps ==
  ASSUME DeletionInv, UNCHANGED <<catalog, job, call, pc, overtaken>>
  PROVE  DeletionInv'
BY DEF DeletionInv, NewModelsUnpublished, NoJobBeforeAsking, IngestedByDoneJob,
       DeletesWhatWasThere, MarksWithJob, OnlyOvertakenAreStale, IsBeingDeleted,
       IsRecord, PastStatusCheck, Steps, BeforeJob, IngestionSteps

(* A step of the gateway as a proof takes it apart: one request is served, *)
(* or a job runs, or none of what the properties below look at changes.    *)
Unseen == UNCHANGED <<catalog, job, call, pc, wrote, overtaken, outdated>>

(* Every step of the system, by what it does to the state seen here: a     *)
(* call that is abandoned does nothing, and is carried out like any other. *)
LEMMA StepKinds ==
  ASSUME TypeOK, [Next]_vars
  PROVE  \/ Unseen
         \/ \E r \in Requests :
              \/ Receive(r)
              \/ Crash(r)
              \/ RunIngestion(r)
              \/ RunDelete(r)
              \/ /\ call' = call
                 /\ Placed(r)
                 /\ Quiet(r) \/ Patches(r) \/ Marks(r) \/ Opens(r)
<1>1. CASE \E n \in Lockable : ToggleLock(n)
  BY <1>1 DEF ToggleLock, Unseen
<1>2. CASE Rest \/ UNCHANGED vars
  BY <1>2 DEF Rest, Unseen, vars
<1>3. ASSUME NEW r \in Requests, Abandon(r)
      PROVE  Unseen
  BY <1>3 DEF Abandon, Unseen, services, history
<1>4. ASSUME NEW r \in Requests, Handle(r) \/ Deliver(r)
      PROVE  /\ call' = call
             /\ Placed(r)
             /\ Quiet(r) \/ Patches(r) \/ Marks(r) \/ Opens(r)
  BY <1>4, HandleKinds, DeliverKinds
<1>. QED
  BY <1>1, <1>2, <1>3, <1>4 DEF Next, RunJob

(* Every step keeps the invariant.                                         *)
LEMMA NextDeletionInv == TypeOK /\ DeletionInv /\ [Next]_vars => DeletionInv'
<1>. SUFFICES ASSUME TypeOK, DeletionInv, [Next]_vars PROVE DeletionInv'
  OBVIOUS
<1>1. CASE Unseen
  BY <1>1, UnseenKeeps DEF Unseen
<1>2. ASSUME NEW r \in Requests,
             \/ Receive(r) \/ Crash(r) \/ RunIngestion(r) \/ RunDelete(r)
             \/ /\ call' = call
                /\ Placed(r)
                /\ Quiet(r) \/ Patches(r) \/ Marks(r) \/ Opens(r)
      PROVE  DeletionInv'
  BY <1>2, ReceiveKeeps, CrashKeeps, RunIngestionKeeps, RunDeleteKeeps,
     QuietKeeps, PatchKeeps, MarkKeeps, OpenKeeps DEF Placed
<1>. QED
  BY <1>1, <1>2, StepKinds

(* A new model is unpublished, a request opens at most one job and nothing *)
(* brings back a deleted record; whoever marks has a job that is open, and *)
(* whoever is past its status check works on a record that is not being    *)
(* deleted or has been overtaken by the mark.                              *)
THEOREM DeletionInvariant == Spec => []DeletionInv
BY TypeCorrect, InitDeletionInv, NextDeletionInv, PTL DEF Spec

(* The status check of updateMetadata and updateStatus, and that of        *)
(* deleteModel, can be stale in one way only: a deletion marked the record *)
(* after they had read it.                                                 *)
THEOREM StaleOnlyIfOvertaken == Spec => []OnlyOvertakenAreStale
<1>1. DeletionInv => OnlyOvertakenAreStale
  BY DEF DeletionInv
<1>. QED
  BY <1>1, DeletionInvariant, PTL

-----------------------------------------------------------------------------
(* Who rewrites a record that is being deleted.                            *)

(* A request that is still served, or whose call is still under way, has   *)
(* not written yet.                                                        *)
WritesLast == \A r \in Requests : r \in wrote => pc[r] \in {"answered", "crashed"}

(* Nobody has written at the start.                                        *)
LEMMA InitWritesLast == Init => WritesLast
BY DEF Init, WritesLast

(* A request that writes ends with that very step.                         *)
LEMMA NextWritesLast == TypeOK /\ WritesLast /\ [Next]_vars => WritesLast'
<1>. SUFFICES ASSUME TypeOK, WritesLast, [Next]_vars PROVE WritesLast'
  OBVIOUS
<1>1. CASE Unseen
  BY <1>1 DEF Unseen, WritesLast
<1>2. ASSUME NEW r \in Requests, Receive(r) PROVE WritesLast'
  BY <1>2 DEF Receive, Await, history, WritesLast, TypeOK
<1>3. ASSUME NEW r \in Requests, Crash(r) PROVE WritesLast'
  BY <1>3 DEF Crash, history, WritesLast, Waiting, Ended, TypeOK
<1>4. ASSUME NEW r \in Requests, RunIngestion(r) \/ RunDelete(r) PROVE WritesLast'
  BY <1>4 DEF RunIngestion, RunDelete, history, WritesLast
<1>5. ASSUME NEW r \in Requests, Placed(r),
             Quiet(r) \/ Patches(r) \/ Marks(r) \/ Opens(r)
      PROVE  WritesLast'
  <2>1. \A q \in Requests \ {r} : pc'[q] = pc[q]
    BY <1>5 DEF Quiet, Patches, Marks, Opens, Goes, TypeOK
  <2>2. wrote' = wrote \/ (wrote' = wrote \cup {r} /\ pc'[r] \in {"answered", "crashed"})
    BY <1>5 DEF Quiet, Patches, Marks, Opens, OpenJob, ApplyStatus, ApplyPatch, Goes, history, TypeOK
  <2>3. r \notin wrote
    BY <1>5 DEF WritesLast, Placed
  <2>. QED
    BY <2>1, <2>2, <2>3 DEF WritesLast
<1>. QED
  BY <1>1, <1>2, <1>3, <1>4, <1>5, StepKinds

(* The whole record of k is what it was, or it is a new or a removed one,  *)
(* or a request about k has just rewritten it.                             *)
LEMMA Rewriters ==
  ASSUME TypeOK, DeletionInv, WritesLast, [Next]_vars,
         NEW k \in Keys, IsRecord(k), catalog'[k] \notin {catalog[k], NoRecord}
  PROVE  \E r \in Requests : /\ Patches(r) \/ Marks(r)
                             /\ pc[r] \in PastStatusCheck
                             /\ call[r].id = k
                             /\ r \in wrote' \ wrote
<1>1. PICK r \in Requests :
        \/ RunIngestion(r) \/ RunDelete(r)
        \/ Patches(r) \/ Marks(r)
  BY StepKinds
     DEF Unseen, Receive, Crash, services, Quiet, Opens, OpenJob
<1>2. CASE RunIngestion(r)
  <2>1. k # r
    BY <1>2 DEF RunIngestion, DeletionInv, IngestedByDoneJob
  <2>. QED
    BY <1>2, <2>1 DEF RunIngestion, TypeOK
<1>3. CASE RunDelete(r)
  BY <1>3 DEF RunDelete, TypeOK
<1>4. CASE Patches(r) \/ Marks(r)
  <2>1. pc[r] \in PastStatusCheck /\ r \in wrote'
    BY <1>4, PastStatusCheckSteps DEF Patches, Marks, ApplyStatus, ApplyPatch
  <2>2. call[r].id = k
    BY <1>4 DEF Patches, Marks, ApplyStatus, ApplyPatch, TypeOK
  <2>. QED
    BY <1>4, <2>1, <2>2, PastStatusCheckSteps DEF WritesLast
<1>. QED
  BY <1>1, <1>2, <1>3, <1>4

(* A write is the last thing its handler does.                             *)
LEMMA RequestsWriteLast == Spec => []WritesLast
BY TypeCorrect, InitWritesLast, NextWritesLast, PTL DEF Spec

(* A record that is being deleted is only ever rewritten by a request that *)
(* had read it before it was marked: the damage a stale status check of    *)
(* updateMetadata or updateStatus can do is confined to that.              *)
THEOREM RewritesOfDoomed == Spec => OnlyOvertakenRewriteDoomed
<1>1. TypeOK /\ DeletionInv /\ WritesLast /\ [Next]_vars =>
        [\A k \in Keys :
           IsBeingDeleted(k) /\ catalog'[k] \notin {catalog[k], NoRecord} =>
             \E r \in overtaken : r \in wrote' \ wrote /\ call[r].id = k]_vars
  BY Rewriters DEF IsBeingDeleted, DeletionInv, OnlyOvertakenAreStale
<1>. QED
  BY <1>1, RequestsWriteLast, TypeCorrect, DeletionInvariant, PTL DEF Spec, OnlyOvertakenRewriteDoomed

-----------------------------------------------------------------------------
(* No record is stuck unless a client asked for it.                        *)

(* No mark is there at the start.                                          *)
LEMMA InitBeingDeletedExplained == Init => BeingDeletedExplained
BY CatalogAssumption, MarkerAssumption
   DEF Init, BeingDeletedExplained, IsBeingDeleted, IsRecord

(* A request that was received keeps its call, and its write stays written.*)
LEMMA CallsLast ==
  ASSUME TypeOK, [Next]_vars, NEW r \in Requests, pc[r] # "idle"
  PROVE  call'[r] = call[r] /\ pc'[r] # "idle" /\ wrote \subseteq wrote'
<1>1. PICK q \in Requests :
        \/ Unseen
        \/ Receive(q) /\ q # r
        \/ Crash(q)
        \/ RunIngestion(q) \/ RunDelete(q)
        \/ call' = call /\ (Quiet(q) \/ Patches(q) \/ Marks(q) \/ Opens(q))
  BY StepKinds DEF Receive
<1>2. CASE Receive(q) /\ q # r
  BY <1>2 DEF Receive, Await, history, TypeOK
<1>3. CASE RunIngestion(q) \/ RunDelete(q)
  BY <1>3 DEF RunIngestion, RunDelete, history
<1>4. CASE call' = call /\ (Quiet(q) \/ Patches(q) \/ Marks(q) \/ Opens(q))
  <2>1. wrote \subseteq wrote'
    BY <1>4 DEF Quiet, Patches, Marks, ApplyPatch, ApplyStatus, Opens, OpenJob, history
  <2>2. PICK s : s # "idle" /\ pc' = [pc EXCEPT ![q] = s]
    BY <1>4 DEF Quiet, QuietTarget, Patches, Marks, Opens, Goes
  <2>. QED
    BY <1>4, <2>1, <2>2 DEF TypeOK
<1>5. CASE Unseen \/ Crash(q)
  BY <1>5 DEF Unseen, Crash, history, TypeOK
<1>. QED
  BY <1>1, <1>2, <1>3, <1>4, <1>5

(* A deletion whose job is open keeps it until the job is done.            *)
LEMMA OpenDeletionLasts ==
  ASSUME TypeOK, [Next]_vars, NEW r \in Requests, NEW k, OpenDeletion(r, k), ~RunDelete(r)
  PROVE  OpenDeletion(r, k)'
<1>1. job[r] = "open" /\ call[r].op = "deleteModel" /\ call[r].id = k /\ pc[r] # "idle"
  BY DEF OpenDeletion, DeleteJobs, TypeOK
<1>2. job'[r] = "open"
  <2>1. PICK q \in Requests :
          \/ Unseen
          \/ Receive(q)
          \/ Crash(q)
          \/ (RunIngestion(q) \/ RunDelete(q)) /\ q # r
          \/ Quiet(q) \/ Patches(q) \/ Marks(q) \/ Opens(q)
    BY <1>1, StepKinds DEF RunIngestion
  <2>2. CASE (RunIngestion(q) \/ RunDelete(q)) /\ q # r
    BY <1>1, <2>2 DEF RunIngestion, RunDelete, TypeOK
  <2>3. CASE Quiet(q) \/ Patches(q) \/ Marks(q) \/ Opens(q)
    BY <1>1, <2>3 DEF Quiet, Patches, Marks, ApplyPatch, ApplyStatus, Opens, OpenJob, TypeOK
  <2>4. CASE Unseen \/ Crash(q) \/ Receive(q)
    BY <1>1, <2>4 DEF Unseen, Crash, Receive, services
  <2>. QED
    BY <2>1, <2>2, <2>3, <2>4
<1>. QED
  BY <1>1, <1>2, CallsLast DEF OpenDeletion, DeleteJobs

(* A record is marked by a deletion, which has an open job by then, or by  *)
(* a status that a client gives.                                           *)
LEMMA NewlyMarked ==
  ASSUME TypeOK, DeletionInv, [Next]_vars,
         NEW k \in Keys, ~IsBeingDeleted(k), IsBeingDeleted(k)'
  PROVE  \E r \in Requests : \/ OpenDeletion(r, k) /\ ~RunDelete(r)
                             \/ GaveTheMark(r, k)'
<1>1. PICK r \in Requests :
        RunIngestion(r) \/ RunDelete(r) \/ Patches(r) \/ (Marks(r) /\ call' = call)
  BY StepKinds
     DEF Unseen, Receive, Crash, services, Quiet, Opens, OpenJob, IsBeingDeleted, IsRecord
<1>2. CASE RunIngestion(r)
  <2>1. call[r] \in Payloads /\ WellFormed(call[r]) /\ call[r].op = "createModel"
        /\ call[r].status = UNPUBLISHED
    BY <1>2, JobIsOfCall DEF RunIngestion, DeletionInv, NewModelsUnpublished, TypeOK
  <2>2. IngestedRecord(call[r]).status = UNPUBLISHED
    BY <2>1, IngestedType
  <2>. QED
    BY <1>2, <2>2
       DEF RunIngestion, TypeOK, IsBeingDeleted, IsRecord, UNPUBLISHED, BEING_DELETED
<1>3. CASE RunDelete(r)
  BY <1>3 DEF RunDelete, TypeOK, IsBeingDeleted, IsRecord
<1>4. CASE Patches(r)
  <2>1. catalog'[k] = IF k = call[r].id THEN Patched(catalog[k], call[r]) ELSE catalog[k]
    BY <1>4 DEF Patches, ApplyPatch, TypeOK
  <2>2. k = call[r].id /\ IsRecord(k)
    BY <1>4, <2>1 DEF Patches, ApplyPatch, IsBeingDeleted, IsRecord
  <2>. QED
    BY <1>4, <2>1, <2>2, PatchRewrites DEF IsBeingDeleted, IsRecord
<1>5. CASE Marks(r) /\ call' = call
  <2>1. PICK s \in RecordStatus :
          /\ call[r].id \in Keys
          /\ ApplyStatus(r, call[r].id, s)
          /\ \/ pc[r] = "delete.mark"
             \/ pc[r] = "status.change" /\ call[r].op = "updateStatus" /\ call[r].status = s
    BY <1>5 DEF Marks, RecordStatus
  <2>2. IsBeingDeleted(k)' <=> IF k = call[r].id THEN s = BEING_DELETED ELSE IsBeingDeleted(k)
    <3>. DEFINE record == [catalog[call[r].id] EXCEPT !.status = s]
    <3>1. Rewrites(call[r].id, record) /\ record.status = s
      BY <2>1, MarkRewrites
    <3>. HIDE DEF record
    <3>. QED
      BY <3>1, RewriteKeepsRecords
  <2>3. k = call[r].id /\ s = BEING_DELETED /\ IsRecord(k) /\ r \in wrote'
    BY <2>1, <2>2 DEF ApplyStatus, IsRecord
  <2>4. CASE pc[r] = "delete.mark"
    <3>1. job[r] = "open" /\ call[r].op = "deleteModel"
      BY <2>3, <2>4, StepTellsOp, StepsOfOps DEF Placed, DeletionInv, MarksWithJob, TypeOK
    <3>2. ~RunDelete(r)
      BY <2>1, <2>3 DEF ApplyStatus, RunDelete, TypeOK
    <3>. QED
      BY <2>3, <3>1, <3>2 DEF OpenDeletion, DeleteJobs
  <2>5. CASE call[r].op = "updateStatus" /\ call[r].status = s
    BY <1>5, <2>3, <2>5 DEF GaveTheMark
  <2>. QED
    BY <2>1, <2>4, <2>5
<1>. QED
  BY <1>1, <1>2, <1>3, <1>4, <1>5

(* Every step leaves every marked record explained.                        *)
LEMMA NextBeingDeletedExplained ==
  ASSUME TypeOK, DeletionInv, WritesLast, BeingDeletedExplained, [Next]_vars
  PROVE  BeingDeletedExplained'
<1>. SUFFICES ASSUME NEW k \in Keys, IsBeingDeleted(k)'
              PROVE  \E r \in Requests : OpenDeletion(r, k)' \/ GaveTheMark(r, k)'
  BY DEF BeingDeletedExplained
<1>1. CASE ~IsBeingDeleted(k)
  BY <1>1, NewlyMarked, OpenDeletionLasts
<1>2. CASE IsBeingDeleted(k)
  <2>1. PICK r \in Requests : OpenDeletion(r, k) \/ GaveTheMark(r, k)
    BY <1>2 DEF BeingDeletedExplained
  <2>2. CASE OpenDeletion(r, k)
    <3>1. ~RunDelete(r)
      BY <2>2 DEF OpenDeletion, RunDelete, TypeOK, IsBeingDeleted, IsRecord
    <3>. QED
      BY <2>2, <3>1, OpenDeletionLasts
  <2>3. CASE GaveTheMark(r, k)
    <3>1. pc[r] # "idle"
      BY <2>3 DEF GaveTheMark, WritesLast
    <3>. QED
      BY <2>3, <3>1, CallsLast DEF GaveTheMark
  <2>. QED
    BY <2>1, <2>2, <2>3
<1>. QED
  BY <1>1, <1>2

(* A record that is marked BEING_DELETED, which every handler refuses from *)
(* then on, has an open job that removes it, or a client has given it that *)
(* status: no failure and no interleaving of deletions leaves it stuck.    *)
THEOREM MarkedRecordsExplained == Spec => []BeingDeletedExplained
<1>1. TypeOK /\ DeletionInv /\ WritesLast /\ BeingDeletedExplained /\ [Next]_vars =>
        BeingDeletedExplained'
  BY NextBeingDeletedExplained
<1>. QED
  BY <1>1, InitBeingDeletedExplained, TypeCorrect, DeletionInvariant, RequestsWriteLast,
     PTL DEF Spec
================================================================================
