--------------------------- MODULE RefinementProofs ---------------------------
(***************************************************************************)
(* The gateway implements its contract, for every value of the constants.  *)
(*                                                                         *)
(* The argument: by the kind of a step (Quiet, Patches, Marks, Opens) and  *)
(* by its outcome (Continues, Ends) each step of a handler is one step of  *)
(* the contract or none; the guards of the contract's steps are what the   *)
(* invariants of the other proof modules say.                              *)
(***************************************************************************)
EXTENDS GatewayRefinement, RemovalProofs

(* The contract speaks of records and payloads as the gateway does.        *)
LEMMA SameWords ==
  /\ Contract!Keys = Keys
  /\ Contract!BEING_DELETED = BEING_DELETED
  /\ Contract!QUANTIZED_MESH_DTM_BEST = QUANTIZED_MESH_DTM_BEST
  /\ \A c : Contract!Controller(c) = Controller(c)
  /\ \A c : Contract!IngestedRecord(c) = IngestedRecord(c)
  /\ \A record, c : Contract!Patched(record, c) = Patched(record, c)
BY DEF Contract!Keys, Keys, Contract!BEING_DELETED, BEING_DELETED,
       Contract!QUANTIZED_MESH_DTM_BEST, QUANTIZED_MESH_DTM_BEST,
       Contract!Controller, Controller, Contract!MetadataController, MetadataController,
       Contract!ModelController, ModelController, Contract!SimplifyName, SimplifyName,
       Contract!UNPUBLISHED, UNPUBLISHED, Contract!IngestedRecord, IngestedRecord,
       Contract!Patched, Patched, Contract!Or, Or

-----------------------------------------------------------------------------
(* How requests go on and end.                                             *)

IInv == TypeOK /\ DeletionInv /\ WritesLast /\ AnswerInv /\ RemovalInv

EndAnswers(op) == Contract!Success[op] \cup Contract!Refusal[op] \cup {"ServerError"}

(* The answers each operation may end with.                                *)
LEMMA EndAnswersOfOps ==
  /\ EndAnswers("createModel") = {"Created", "BadRequest", "ServerError"}
  /\ EndAnswers("validate") = {"Valid", "Invalid", "ServerError"}
  /\ EndAnswers("deleteModel") = {"OK", "BadRequest", "ServerError"}
  /\ EndAnswers("validateDeleteById") = {"Valid", "Invalid", "ServerError"}
  /\ EndAnswers("updateMetadata") = {"OK", "BadRequest", "Conflict", "ServerError"}
  /\ EndAnswers("updateStatus") = {"OK", "BadRequest", "Conflict", "ServerError"}
BY DEF EndAnswers, Contract!Success, Contract!Refusal

(* The metadata handlers give no other answers.                            *)
LEMMA MetadataAnswers ==
  ASSUME TypeOK, NEW r \in Requests, MetadataStep(r), pc'[r] = "answered"
  PROVE  answer'[r] \in {"OK", "BadRequest", "Conflict", "ServerError"}
<1>. USE DEF Await, Respond, CallFails, TypeOK
<1>1. CASE UpdateGetRecord(r)
  BY <1>1 DEF UpdateGetRecord, AfterGet, AfterFile, AfterClass
<1>2. CASE UpdateGetFile(r)
  BY <1>2 DEF UpdateGetFile, AfterFile, AfterClass
<1>3. CASE UpdateGetClassifications(r)
  BY <1>3 DEF UpdateGetClassifications, AfterClass
<1>4. CASE UpdateFindName(r)
  BY <1>4 DEF UpdateFindName
<1>5. CASE UpdateReadAgain(r)
  BY <1>5 DEF UpdateReadAgain, NotFoundIsRejected
<1>6. CASE UpdateCheckLock(r)
  BY <1>6 DEF UpdateCheckLock
<1>7. CASE UpdatePatch(r)
  BY <1>7 DEF UpdatePatch, NotFoundIsRejected
<1>8. CASE StatusGetRecord(r)
  BY <1>8 DEF StatusGetRecord, NotFoundIsRejected, AfterStatusCheck
<1>9. CASE StatusCheckLock(r)
  BY <1>9 DEF StatusCheckLock
<1>10. CASE StatusChange(r)
  BY <1>10 DEF StatusChange, NotFoundIsRejected
<1>. QED
  BY <1>1, <1>2, <1>3, <1>4, <1>5, <1>6, <1>7, <1>8, <1>9, <1>10 DEF MetadataStep

(* Nor do the model handlers.                                              *)
LEMMA ModelAnswers ==
  ASSUME TypeOK, NEW r \in Requests, ModelManagerStep(r), pc'[r] = "answered",
         pc[r] = "create.ingest" => call[r].op = "createModel"
  PROVE  /\ pc[r] \in IngestionSteps =>
              answer'[r] \in IF call[r].op = "createModel"
                             THEN {"Created", "BadRequest", "ServerError"}
                             ELSE {"Valid", "Invalid", "ServerError"}
         /\ pc[r] \in Steps["deleteModel"] =>
              answer'[r] \in {"OK", "BadRequest", "ServerError"}
         /\ pc[r] \in Steps["validateDeleteById"] =>
              answer'[r] \in {"Valid", "Invalid", "ServerError"}
<1>. USE StepsOfOps
     DEF Await, Respond, CallFails, ModelRefused, ModelAccepted, ModelStep, TypeOK,
         IngestionSteps, Answers
<1>1. CASE CheckModelPath(r)
  BY <1>1 DEF CheckModelPath
<1>2. CASE CheckTileset(r)
  BY <1>2 DEF CheckTileset
<1>3. CASE ReadTileset(r)
  BY <1>3 DEF ReadTileset, AfterRead
<1>4. CASE CheckProductId(r)
  BY <1>4 DEF CheckProductId
<1>5. CASE CheckProductName(r)
  BY <1>5 DEF CheckProductName
<1>6. CASE CheckClassification(r)
  BY <1>6 DEF CheckClassification
<1>7. CASE StartIngestion(r)
  BY <1>7 DEF StartIngestion
<1>8. CASE DeleteFindRecord(r)
  BY <1>8 DEF DeleteFindRecord
<1>9. CASE StartDeleteJob(r)
  BY <1>9 DEF StartDeleteJob
<1>10. CASE MarkBeingDeleted(r)
  BY <1>10 DEF MarkBeingDeleted
<1>11. CASE CanDelete(r)
  BY <1>11 DEF CanDelete
<1>. QED
  BY <1>1, <1>2, <1>3, <1>4, <1>5, <1>6, <1>7, <1>8, <1>9, <1>10, <1>11
     DEF ModelManagerStep

(* A handler ends with an answer of its operation.                         *)
LEMMA EndsByOp ==
  ASSUME TypeOK, NEW r \in Requests, Truthful(r), Handle(r), pc'[r] = "answered"
  PROVE  answer'[r] \in EndAnswers(call[r].op)
<1>1. Placed(r)
  BY HandleKinds
<1>2. CASE MetadataStep(r)
  <2>1. call[r].op \in {"updateMetadata", "updateStatus"}
    BY <1>1, <1>2, StepTellsOp, StepsOfOps
       DEF MetadataStep, UpdateGetRecord, UpdateGetFile, UpdateGetClassifications,
           UpdateFindName, UpdateReadAgain, UpdateCheckLock, UpdatePatch,
           StatusGetRecord, StatusCheckLock, StatusChange
  <2>. QED
    BY <1>2, <2>1, MetadataAnswers, EndAnswersOfOps
<1>3. CASE ModelManagerStep(r)
  <2>1. /\ pc[r] \in IngestionSteps => call[r].op \in {"createModel", "validate"}
        /\ pc[r] \in Steps["deleteModel"] => call[r].op = "deleteModel"
        /\ pc[r] \in Steps["validateDeleteById"] => call[r].op = "validateDeleteById"
    BY <1>1, StepTellsOp
  <2>2. pc[r] \in IngestionSteps \cup Steps["deleteModel"] \cup Steps["validateDeleteById"]
    BY <1>3, StepsOfOps
       DEF ModelManagerStep, IngestionSteps, CheckModelPath, CheckTileset, ReadTileset,
           CheckProductId, CheckProductName, CheckClassification, StartIngestion,
           DeleteFindRecord, StartDeleteJob, MarkBeingDeleted, CanDelete
  <2>3. /\ pc[r] \in IngestionSteps =>
              answer'[r] \in IF call[r].op = "createModel"
                             THEN {"Created", "BadRequest", "ServerError"}
                             ELSE {"Valid", "Invalid", "ServerError"}
        /\ pc[r] \in Steps["deleteModel"] =>
              answer'[r] \in {"OK", "BadRequest", "ServerError"}
        /\ pc[r] \in Steps["validateDeleteById"] =>
              answer'[r] \in {"Valid", "Invalid", "ServerError"}
    BY <1>3, ModelAnswers DEF Truthful
  <2>. QED
    BY <2>1, <2>2, <2>3, EndAnswersOfOps
<1>. QED
  BY <1>2, <1>3 DEF Handle

(* A handler serves a pending request, which it leaves pending or ends.    *)
LEMMA HandlePhase ==
  ASSUME TypeOK, AnswerInv, NEW r \in Requests, Handle(r)
  PROVE  /\ phase[r] = "pending"
         /\ Continues(r) => UNCHANGED <<phase, answer>>
         /\ Ends(r) => /\ phase' = [phase EXCEPT ![r] = "ended"]
                       /\ \E a \in EndAnswers(call[r].op) :
                            answer' = [answer EXCEPT ![r] = a]
<1>1. Placed(r) /\ r \notin late /\ late' = late
  BY HandleKinds DEF Handle
<1>2. phase[r] = "pending"
  BY <1>1 DEF phase, Placed, Ended
<1>3. ASSUME Continues(r) PROVE UNCHANGED <<phase, answer>>
  <2>1. PICK s : s # "answered" /\ pc' = [pc EXCEPT ![r] = s] /\ answer' = answer
    BY <1>3 DEF Continues, Await
  <2>2. pc'[r] = "answered" \/ pc'[r] \in Steps[call[r].op]
    BY MetadataStepIsHandlerStep, ModelManagerStepIsHandlerStep
       DEF Handle, HandlerStep, Moves, Await, Respond, TypeOK
  <2>3. pc'[r] \notin {"idle", "answered", "crashed"}
    BY <1>1, <2>1, <2>2, StepTellsOp, StepsAreWaiting DEF TypeOK
  <2>. QED
    BY <1>1, <2>1, <2>3 DEF phase, Placed, Ended, TypeOK
<1>4. ASSUME Ends(r)
      PROVE  /\ phase' = [phase EXCEPT ![r] = "ended"]
             /\ \E a \in EndAnswers(call[r].op) : answer' = [answer EXCEPT ![r] = a]
  <2>1. PICK a \in Answers : /\ pc' = [pc EXCEPT ![r] = "answered"]
                             /\ answer' = [answer EXCEPT ![r] = a]
    BY <1>4 DEF Ends, Respond
  <2>2. pc'[r] = "answered" /\ answer'[r] = a
    BY <2>1 DEF TypeOK
  <2>3. phase' = [phase EXCEPT ![r] = "ended"]
    BY <1>1, <2>1 DEF phase, Ended, TypeOK
  <2>. QED
    BY <2>1, <2>2, <2>3, EndsByOp DEF AnswerInv
<1>. QED
  BY <1>2, <1>3, <1>4

(* A call that is carried out late belongs to a request that has ended     *)
(* without an answer that says what became of it.                          *)
LEMMA DeliverPhase ==
  ASSUME TypeOK, AnswerInv, NEW r \in Requests, Deliver(r)
  PROVE  /\ phase[r] = "ended" /\ answer[r] \in {"none", "ServerError"}
         /\ UNCHANGED <<phase, answer>>
<1>1. Placed(r) /\ r \in late /\ answer' = answer /\ late' = late \ {r}
  BY DeliverTyped DEF Deliver
<1>2. PICK e \in {"answered", "crashed"} : pc' = [pc EXCEPT ![r] = e]
  BY DeliverTyped
<1>3. phase' = phase
  BY <1>1, <1>2 DEF phase, Ended, Placed, TypeOK
<1>. QED
  BY <1>1, <1>3 DEF phase, Ended, Placed, AnswerInv, Truthful

(* Who may still have an effect has not told anything.                     *)
LEMMA PlacedIsUndecided ==
  ASSUME AnswerInv, NEW r \in Requests, Placed(r)
  PROVE  Contract!Undecided(r)
BY DEF Contract!Undecided, phase, Placed, Ended, AnswerInv, Truthful

-----------------------------------------------------------------------------
(* Each step of the gateway is a step of the contract, or none.            *)

ContractStep == [Contract!Next]_(Contract!vars)

(* A doomed record of the contract is one that is being deleted.           *)
LEMMA DoomedIsBeingDeleted ==
  \A k : Contract!Doomed(k) <=> IsBeingDeleted(k)
BY SameWords DEF Contract!Doomed, IsBeingDeleted, IsRecord

(* A request arrives.                                                      *)
LEMMA ReceiveIsArrive ==
  ASSUME IInv, NEW r \in Requests, Receive(r)
  PROVE  Contract!Arrive(r)
<1>1. PICK c \in Calls : /\ call' = [call EXCEPT ![r] = Controller(c)]
                         /\ pc' = [pc EXCEPT ![r] = FirstStep[c.op]]
  BY DEF Receive, Await
<1>2. FirstStep[c.op] \notin {"idle", "answered", "crashed"}
  BY CallAssumption DEF Payloads, Ops, FirstStep
<1>3. pc[r] = "idle" /\ late' = late /\ r \notin late
  BY DEF Receive, IInv, TypeOK, Effects
<1>4. phase[r] = "idle" /\ phase' = [phase EXCEPT ![r] = "pending"]
  BY <1>1, <1>2, <1>3 DEF phase, Ended, IInv, TypeOK
<1>5. UNCHANGED <<catalog, job, answer, wrote, overtaken>>
  BY DEF Receive, Await, services, history
<1>. QED
  BY <1>1, <1>4, <1>5, SameWords DEF Contract!Arrive

(* A request that dies, or gives up on a call, ends without an answer or   *)
(* with a failure.                                                         *)
LEMMA GivingUpIsRefuse ==
  ASSUME IInv, NEW r \in Requests, Crash(r) \/ Abandon(r)
  PROVE  Contract!Refuse(r)
<1>1. Waiting(r) /\ r \notin late /\ answer[r] = "none"
  BY DEF Crash, Abandon, Waiting, Ended, IInv, AnswerInv, Truthful
<1>2. UNCHANGED <<catalog, job, call, wrote, overtaken>>
  BY DEF Crash, Abandon, services, history
<1>3. phase[r] = "pending" /\ phase' = [phase EXCEPT ![r] = "ended"]
  BY <1>1 DEF Crash, Abandon, phase, Waiting, Ended, IInv, TypeOK
<1>4. \E a \in {"none", "ServerError"} : answer' = [answer EXCEPT ![r] = a]
  <2>1. CASE answer' = answer
    BY <1>1, <2>1 DEF IInv, TypeOK
  <2>2. CASE answer' = [answer EXCEPT ![r] = "ServerError"]
    BY <2>2
  <2>. QED
    BY <2>1, <2>2 DEF Crash, Abandon
<1>. QED
  BY <1>2, <1>3, <1>4 DEF Contract!Refuse, Contract!End

(* A step that leaves the services alone is none, or refuses the request.  *)
LEMMA QuietIsRefuse ==
  ASSUME IInv, NEW r \in Requests, Handle(r), Quiet(r)
  PROVE  Contract!Refuse(r) \/ UNCHANGED Contract!vars
<1>1. UNCHANGED <<catalog, job, call, wrote, overtaken>> /\ Placed(r) /\ r \notin wrote
  BY HandleKinds DEF Quiet, IInv, WritesLast, Placed
<1>2. CASE Continues(r)
  BY <1>1, <1>2, HandlePhase DEF Contract!vars, IInv
<1>3. CASE Ends(r)
  <2>1. phase[r] = "pending" /\ phase' = [phase EXCEPT ![r] = "ended"]
    BY <1>3, HandlePhase DEF IInv
  <2>2. PICK a \in EndAnswers(call[r].op) : answer' = [answer EXCEPT ![r] = a]
    BY <1>3, HandlePhase DEF IInv
  <2>3. a = "ServerError" \/ (a \in Refusals /\ pc[r] # "delete.mark")
    <3>1. answer'[r] = a
      BY <2>2 DEF IInv, TypeOK
    <3>2. pc[r] # "delete.mark" => job[r] = "none"
      BY <1>1, JobOnlyAtMark DEF IInv, AnswerInv
    <3>. QED
      BY <1>1, <1>3, <3>1, <3>2 DEF Ends, Respond, OpenJob, IInv, TypeOK
  <2>4. a \in (IF job[r] = "none" THEN Contract!Refusal[call[r].op] ELSE {})
              \cup {"ServerError", "none"}
    <3>1. call[r].op \in Ops
      BY <1>1, StepTellsOp DEF IInv
    <3>2. pc[r] # "delete.mark" => job[r] = "none"
      BY <1>1, JobOnlyAtMark DEF IInv, AnswerInv
    <3>3. a \in Refusals => a \notin Contract!Success[call[r].op]
      BY <3>1 DEF Refusals, Contract!Success, Ops
    <3>. QED
      BY <2>2, <2>3, <3>2, <3>3 DEF EndAnswers
  <2>. QED
    BY <1>1, <2>1, <2>2, <2>4 DEF Contract!Refuse, Contract!End
<1>. QED
  BY <1>2, <1>3, MetadataOutcome, ModelOutcome DEF Handle

(* A request that writes ends so, with its success or a failure, unless it *)
(* has ended before.                                                       *)
LEMMA WritingEnds ==
  ASSUME IInv, NEW r \in Requests, Handle(r) \/ Deliver(r), Patches(r) \/ Marks(r)
  PROVE  Contract!EndWith(r, Contract!Success[call[r].op])
<1>1. Placed(r) /\ r \in wrote' /\ r \notin wrote /\ UNCHANGED job
  BY HandleKinds, DeliverKinds
     DEF Patches, Marks, ApplyPatch, ApplyStatus, IInv, WritesLast, Placed
<1>2. CASE Deliver(r)
  BY <1>2, DeliverPhase DEF Contract!EndWith, IInv
<1>3. CASE Handle(r) /\ Ends(r)
  <2>1. /\ phase[r] = "pending" /\ phase' = [phase EXCEPT ![r] = "ended"]
        /\ \E a \in EndAnswers(call[r].op) : answer' = [answer EXCEPT ![r] = a]
    BY <1>3, HandlePhase DEF IInv
  <2>2. PICK a \in EndAnswers(call[r].op) : answer' = [answer EXCEPT ![r] = a]
    BY <2>1
  <2>3. a \in {"OK", "ServerError"}
    <3>1. answer'[r] = a
      BY <2>2 DEF IInv, TypeOK
    <3>2. pc[r] # "create.ingest"
      BY DEF Patches, Marks
    <3>. QED
      BY <1>1, <1>3, <3>1, <3>2 DEF Ends, Respond, IInv, TypeOK
  <2>4. call[r].op \in Ops /\ a \in EndAnswers(call[r].op)
    BY <1>1, <2>2, StepTellsOp DEF IInv
  <2>5. a \in Contract!Success[call[r].op] \cup {"ServerError"}
    BY <2>3, <2>4 DEF EndAnswers, Contract!Refusal, Ops
  <2>. QED
    BY <2>1, <2>2, <2>5 DEF Contract!EndWith, Contract!End
<1>4. ~(Handle(r) /\ Continues(r))
  <2>1. pc'[r] \in {"answered", "crashed"}
    BY DEF Patches, Marks, Goes, IInv, TypeOK
  <2>2. CASE pc'[r] = "answered"
    BY <2>2 DEF Continues, Await, IInv, TypeOK
  <2>3. CASE pc'[r] = "crashed"
    <3>1. Handle(r) => pc'[r] = "answered" \/ pc'[r] \in Steps[call[r].op]
      BY MetadataStepIsHandlerStep, ModelManagerStepIsHandlerStep
         DEF Handle, HandlerStep, Moves, Await, Respond, IInv, TypeOK
    <3>. QED
      BY <1>1, <2>3, <3>1, StepTellsOp, StepsAreWaiting DEF IInv
  <2>. QED
    BY <2>1, <2>2, <2>3
<1>. QED
  BY <1>2, <1>3, <1>4, MetadataOutcome, ModelOutcome DEF Handle

(* A change of a record is a write of the contract.                        *)
LEMMA ChangeIsWrite ==
  ASSUME IInv, NEW r \in Requests, Handle(r) \/ Deliver(r), Patches(r) \/ Marks(r)
  PROVE  Contract!Write(r)
<1>1. Placed(r) /\ call' = call /\ pc[r] \in {"update.patch", "status.change", "delete.mark"}
  BY HandleKinds, DeliverKinds DEF Patches, Marks, IInv
<1>2. /\ pc[r] = "update.patch" => call[r].op = "updateMetadata"
      /\ pc[r] = "status.change" => call[r].op = "updateStatus"
      /\ pc[r] = "delete.mark" => call[r].op = "deleteModel"
  BY <1>1, StepTellsOp, StepsOfOps DEF IInv
<1>. DEFINE k == call[r].id
            effect == Contract!Effect(call[r], catalog[k])
<1>3. /\ catalog[k] # NoRecord /\ k \in Keys
      /\ catalog[k] \in Record3D
      /\ wrote' = wrote \cup {r} /\ UNCHANGED job /\ r \notin wrote
  BY <1>1 DEF Patches, Marks, ApplyPatch, ApplyStatus, IInv, TypeOK, WritesLast
<1>4. catalog' = [catalog EXCEPT ![k] = effect]
  <2>1. CASE Patches(r)
    BY <1>2, <2>1, SameWords DEF Patches, ApplyPatch, Contract!Effect
  <2>2. CASE Marks(r)
    BY <1>2, <2>2, SameWords DEF Marks, ApplyStatus, Contract!Effect
  <2>. QED
    BY <2>1, <2>2
<1>5. \/ overtaken' = overtaken
      \/ effect.status = BEING_DELETED /\ overtaken' = overtaken \cup (RestOn(k) \ {r})
  <2>1. CASE Patches(r)
    BY <2>1 DEF Patches, ApplyPatch
  <2>2. CASE Marks(r) /\ pc[r] = "delete.mark"
    BY <1>2, <1>3, <2>2, SameWords, StatusType
       DEF Marks, ApplyStatus, Contract!Effect, RecordStatus
  <2>3. CASE Marks(r) /\ pc[r] = "status.change"
    BY <1>2, <1>3, <2>3, SameWords, StatusType DEF Marks, ApplyStatus, Contract!Effect
  <2>. QED
    BY <2>1, <2>2, <2>3 DEF Marks
<1>6. (RestOn(k) \ {r}) \in
        SUBSET {s \in Requests : Contract!Undecided(s) /\ s \notin wrote /\ call[s].id = k}
  <2>1. ASSUME NEW s \in RestOn(k)
        PROVE  s \in Requests /\ Contract!Undecided(s) /\ s \notin wrote /\ call[s].id = k
    BY <2>1, PastStatusCheckSteps, PlacedIsUndecided DEF RestOn, Placed, IInv, WritesLast
  <2>. QED
    BY <2>1
<1>7. Contract!Undecided(r) /\ Contract!EndWith(r, Contract!Success[call[r].op])
  BY <1>1, PlacedIsUndecided, WritingEnds DEF IInv
<1>8. Contract!Doomed(k) => r \in overtaken
  BY <1>1, DoomedIsBeingDeleted, PastStatusCheckSteps
     DEF IInv, DeletionInv, OnlyOvertakenAreStale
<1>9. call[r].op = "deleteModel" => job[r] = "open"
  BY <1>1, <1>2, <1>3 DEF IInv, DeletionInv, MarksWithJob, IsRecord, TypeOK
<1>. QED
  BY <1>1, <1>2, <1>3, <1>4, <1>5, <1>6, <1>7, <1>8, <1>9, SameWords DEF Contract!Write

(* A job that is opened ends its request with the success of a new model   *)
(* or with a failure; only a deletion goes on.                             *)
LEMMA OpeningEnds ==
  ASSUME IInv, NEW r \in Requests, Handle(r) \/ Deliver(r), Opens(r)
  PROVE  /\ pc[r] = "create.ingest" => Contract!EndWith(r, Contract!Success["createModel"])
         /\ pc[r] = "delete.job" => \/ Contract!EndWith(r, {})
                                    \/ UNCHANGED <<phase, answer>>
<1>1. job[r] = "none" /\ job'[r] = "open" /\ wrote' = wrote /\ r \notin wrote /\ Placed(r)
  BY HandleKinds, DeliverKinds, BeforeJobSteps
     DEF Opens, OpenJob, history, IInv, DeletionInv, NoJobBeforeAsking, WritesLast, Placed, TypeOK
<1>2. CASE Deliver(r)
  BY <1>2, DeliverPhase DEF Contract!EndWith, IInv
<1>3. CASE Handle(r) /\ Ends(r)
  <2>1. /\ phase[r] = "pending" /\ phase' = [phase EXCEPT ![r] = "ended"]
        /\ \E a \in EndAnswers(call[r].op) : answer' = [answer EXCEPT ![r] = a]
    BY <1>3, HandlePhase DEF IInv
  <2>2. PICK a : answer' = [answer EXCEPT ![r] = a]
    BY <2>1
  <2>3. a = "ServerError" \/ (a = "Created" /\ pc[r] = "create.ingest")
    <3>1. answer'[r] = a
      BY <2>2 DEF IInv, TypeOK
    <3>. QED
      BY <1>1, <1>3, <3>1 DEF Ends, Respond, IInv, TypeOK
  <2>. QED
    BY <2>1, <2>2, <2>3 DEF Contract!EndWith, Contract!End, Contract!Success
<1>4. CASE Handle(r) /\ Continues(r)
  <2>1. UNCHANGED <<phase, answer>>
    BY <1>4, HandlePhase DEF IInv
  <2>2. pc[r] # "create.ingest"
    <3>1. pc'[r] # "answered"
      BY <1>4 DEF Continues, Await, IInv, TypeOK
    <3>2. pc'[r] = "answered" \/ pc'[r] \in Steps[call[r].op]
      BY <1>4, MetadataStepIsHandlerStep, ModelManagerStepIsHandlerStep
         DEF Handle, HandlerStep, Moves, Await, Respond, IInv, TypeOK
    <3>3. pc'[r] \notin {"answered", "crashed"}
      BY <1>1, <3>1, <3>2, StepTellsOp, StepsAreWaiting DEF IInv
    <3>. QED
      BY <3>3 DEF Opens, Goes, IInv, TypeOK
  <2>. QED
    BY <2>1, <2>2
<1>. QED
  BY <1>2, <1>3, <1>4, MetadataOutcome, ModelOutcome DEF Handle

(* A job that is opened is one the contract allows.                        *)
LEMMA OpeningIsOpen ==
  ASSUME IInv, NEW r \in Requests, Handle(r) \/ Deliver(r), Opens(r)
  PROVE  Contract!OpenIngestion(r) \/ Contract!OpenDeletion(r)
<1>1. /\ Placed(r) /\ call' = call /\ Contract!Undecided(r)
      /\ UNCHANGED <<catalog, wrote, overtaken>>
      /\ job' = [job EXCEPT ![r] = "open"]
  BY HandleKinds, DeliverKinds, PlacedIsUndecided DEF Opens, OpenJob, history, IInv
<1>2. job[r] = "none"
  BY BeforeJobSteps DEF Opens, IInv, DeletionInv, NoJobBeforeAsking
<1>3. CASE pc[r] = "create.ingest"
  BY <1>1, <1>2, <1>3, OpeningEnds
     DEF Contract!OpenIngestion, IInv, AnswerInv, Truthful
<1>4. CASE pc[r] = "delete.job"
  <2>1. call[r].op = "deleteModel"
    BY <1>1, <1>4, StepTellsOp, StepsOfOps DEF IInv
  <2>2. catalog[call[r].id] # NoRecord =>
          catalog[call[r].id].type # Contract!QUANTIZED_MESH_DTM_BEST
    BY <1>4, SameWords DEF IInv, RemovalInv, NeverTheBest, Removal, IsRecord
  <2>3. Contract!Doomed(call[r].id) => r \in overtaken
    BY <1>4, DoomedIsBeingDeleted, PastStatusCheckSteps
       DEF IInv, DeletionInv, OnlyOvertakenAreStale
  <2>. QED
    BY <1>1, <1>2, <1>4, <2>1, <2>2, <2>3, OpeningEnds DEF Contract!OpenDeletion
<1>. QED
  BY <1>3, <1>4 DEF Opens

(* A job that is carried out is one of the contract.                       *)
LEMMA JobIsJob ==
  ASSUME IInv, NEW r \in Requests, RunJob(r)
  PROVE  Contract!Ingest(r) \/ Contract!Remove(r)
<1>1. UNCHANGED <<call, phase, answer, wrote, overtaken>>
  BY DEF RunJob, RunIngestion, RunDelete, phase, Ended, history
<1>2. CASE RunIngestion(r)
  <2>1. catalog[r] = NoRecord
    BY <1>2 DEF RunIngestion, IInv, DeletionInv, IngestedByDoneJob, IsRecord
  <2>. QED
    BY <1>1, <1>2, <2>1, SameWords DEF RunIngestion, Contract!Ingest
<1>3. CASE RunDelete(r)
  <2>1. Removal(r)
    BY <1>3 DEF RunDelete, Removal, DeleteJobs
  <2>2. catalog[call[r].id] # NoRecord =>
          catalog[call[r].id].type # Contract!QUANTIZED_MESH_DTM_BEST
    BY <2>1, SameWords DEF IInv, RemovalInv, NeverTheBest, IsRecord
  <2>. QED
    BY <1>1, <1>3, <2>2 DEF RunDelete, Contract!Remove
<1>. QED
  BY <1>2, <1>3 DEF RunJob

(* Every step of the gateway is one of the contract, or none.              *)
LEMMA StepRefines ==
  ASSUME IInv, [Next]_vars
  PROVE  ContractStep
<1>1. ASSUME NEW r \in Requests, Receive(r) PROVE Contract!Next
  BY <1>1, ReceiveIsArrive DEF Contract!Next
<1>2. ASSUME NEW r \in Requests, Handle(r) \/ Deliver(r)
      PROVE  Contract!Next \/ UNCHANGED Contract!vars
  BY <1>2, HandleKinds, DeliverKinds, QuietIsRefuse, ChangeIsWrite, OpeningIsOpen
     DEF Contract!Next, IInv
<1>3. ASSUME NEW r \in Requests, Crash(r) \/ Abandon(r) PROVE Contract!Next
  BY <1>3, GivingUpIsRefuse DEF Contract!Next
<1>4. ASSUME NEW r \in Requests, RunJob(r) PROVE Contract!Next
  BY <1>4, JobIsJob DEF Contract!Next
<1>5. CASE (\E n \in Lockable : ToggleLock(n)) \/ Rest \/ UNCHANGED vars
  <2>1. UNCHANGED <<catalog, job, call, pc, late, answer, wrote, overtaken>>
    BY <1>5 DEF ToggleLock, Rest, vars, history
  <2>2. phase' = phase
    BY <2>1 DEF phase, Ended
  <2>. QED
    BY <2>1, <2>2 DEF ContractStep, Contract!vars
<1>6. ASSUME NEW r \in Requests, Handle(r) \/ Deliver(r) PROVE ContractStep
  BY <1>2, <1>6 DEF ContractStep
<1>7. ASSUME NEW r \in Requests, Receive(r) \/ Crash(r) \/ Abandon(r) \/ RunJob(r)
      PROVE  ContractStep
  BY <1>1, <1>3, <1>4, <1>7 DEF ContractStep
<1>8. CASE Next
  BY <1>5, <1>6, <1>7, <1>8 DEF Next
<1>. QED
  BY <1>5, <1>8

(* The gateway starts where the contract does.                             *)
LEMMA InitRefines == Init => Contract!Init
BY SameWords DEF Init, Contract!Init, phase

(* The gateway implements its contract: whatever interleaves and whatever  *)
(* fails, its services see one job and one change of a record per request, *)
(* in accordance with what the client is told; a record that is being      *)
(* deleted is changed only by requests that its mark has overtaken, and no *)
(* deletion marks what its job does not remove.                            *)
THEOREM GatewayRefines == Spec => ImplementsContract
<1>1. IInv /\ [Next]_vars => [Contract!Next]_(Contract!vars)
  BY StepRefines DEF ContractStep
<1>2. Spec => []IInv
  BY TypeCorrect, DeletionInvariant, RequestsWriteLast, AnswersStayTrue, RemovalInvariant,
     PTL DEF IInv
<1>. QED
  BY <1>1, <1>2, InitRefines, PTL DEF Spec, ImplementsContract, Contract!Spec
================================================================================
