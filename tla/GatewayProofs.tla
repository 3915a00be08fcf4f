----------------------------- MODULE GatewayProofs -----------------------------
(***************************************************************************)
(* Theorems about the gateway, for every set of requests, records, names   *)
(* and calls, and for every value of the flags.                            *)
(***************************************************************************)
EXTENDS GatewayProperties, TLAPS

-----------------------------------------------------------------------------
(* Type correctness.  A step of a handler moves one request to another     *)
(* step of the same handler, or ends it.                                   *)

Moves(r) ==
  \/ \E s \in Steps[call[r].op] : Await(r, s) /\ seen' = seen
  \/ \E s \in Steps[call[r].op], n \in Names :
       Await(r, s) /\ seen' = [seen EXCEPT ![r] = n]
  \/ \E a \in Answers : Respond(r, a)

(* The services keep their types while request r is served.                *)
ServicesStayTyped(r) ==
  /\ catalog' \in [Keys -> Record3D \cup {NoRecord}]
  /\ job' = job \/ job' = [job EXCEPT ![r] = "open"]
  /\ locked' = locked
  /\ wrote' \subseteq Requests
  /\ overtaken' \subseteq Requests
  /\ misled' \subseteq Requests
  /\ outdated' \subseteq Requests \X Requests

(* The call of a request is awaited, or still under way.                   *)
Placed(r) == pc[r] \notin {"idle", "answered", "crashed"}

HandlerStep(r) ==
  /\ Placed(r)
  /\ r \notin late
  /\ UNCHANGED <<call, late>>
  /\ Moves(r)
  /\ ServicesStayTyped(r)

(* The steps of each handler, spelt out.                                   *)
LEMMA StepsOfOps ==
  /\ Steps["createModel"] = IngestionSteps
  /\ Steps["validate"] = IngestionSteps
  /\ Steps["deleteModel"] = {"delete.find", "delete.job", "delete.mark"}
  /\ Steps["validateDeleteById"] = {"candelete.find"}
  /\ Steps["updateMetadata"] =
       {"update.get", "update.file", "update.class", "update.find",
        "update.reread", "update.lock", "update.patch"}
  /\ Steps["updateStatus"] = {"status.get", "status.lock", "status.change"}
BY DEF Steps, Ops

(* No step is the name of an end.                                          *)
LEMMA StepsAreWaiting ==
  ASSUME NEW o \in Ops, NEW s \in Steps[o]
  PROVE  s \notin {"idle", "answered", "crashed"}
BY StepsOfOps DEF Ops, IngestionSteps

(* The step tells the operation it belongs to.                             *)
LEMMA StepTellsOp ==
  ASSUME TypeOK, NEW r \in Requests, Placed(r)
  PROVE  /\ call[r] \in Payloads
         /\ WellFormed(call[r])
         /\ call[r].op \in Ops
         /\ pc[r] \in Steps[call[r].op]
         /\ pc[r] \in Steps["updateMetadata"] => call[r].op = "updateMetadata"
         /\ pc[r] \in Steps["updateStatus"] => call[r].op = "updateStatus"
         /\ pc[r] \in Steps["deleteModel"] => call[r].op = "deleteModel"
         /\ pc[r] \in Steps["validateDeleteById"] => call[r].op = "validateDeleteById"
         /\ pc[r] \in IngestionSteps => call[r].op \in {"createModel", "validate"}
<1>1. call[r] \in Payloads /\ WellFormed(call[r]) /\ pc[r] \in Steps[call[r].op]
  BY DEF TypeOK, Placed
<1>2. call[r].op \in Ops
  BY <1>1 DEF Payloads
<1>. QED
  BY <1>1, <1>2, StepsOfOps DEF Ops, IngestionSteps

(* What a handler does keeps every variable in its type.                   *)
LEMMA HandlerStepType ==
  ASSUME TypeOK, NEW r \in Requests, HandlerStep(r)
  PROVE  TypeOK'
<1>0. call[r].op \in Ops
  BY StepTellsOp DEF HandlerStep
<1>1. \/ pc' = [pc EXCEPT ![r] = "answered"]
      \/ \E s \in Steps[call[r].op] : pc' = [pc EXCEPT ![r] = s]
  BY DEF HandlerStep, Moves, Await, Respond
<1>2. pc' \in [Requests -> {"idle", "answered", "crashed"} \cup UNION {Steps[o] : o \in Ops}]
  BY <1>0, <1>1 DEF TypeOK
<1>3. seen' \in [Requests -> Names \cup {Undefined}]
  BY DEF HandlerStep, Moves, Await, Respond, TypeOK
<1>4. answer' \in [Requests -> Answers]
  BY DEF HandlerStep, Moves, Await, Respond, TypeOK
<1>5. job' \in [Requests -> {"none", "open", "done"}]
  BY DEF HandlerStep, ServicesStayTyped, TypeOK
<1>6. ASSUME NEW q \in Requests
      PROVE  (IF pc[q] = "idle" THEN job[q] = "none"
              ELSE /\ call[q] \in Payloads
                   /\ WellFormed(call[q])
                   /\ pc[q] \in {"answered", "crashed"} \cup Steps[call[q].op])'
  <2>1. CASE q = r
    <3>1. pc[r] # "idle"
      BY DEF HandlerStep, Placed
    <3>2. pc'[r] = "answered" \/ pc'[r] \in Steps[call[r].op]
      BY <1>1 DEF TypeOK
    <3>3. pc'[r] # "idle"
      BY <1>0, <3>2, StepsAreWaiting
    <3>. QED
      BY <2>1, <3>1, <3>2, <3>3 DEF TypeOK, HandlerStep, WellFormed
  <2>2. CASE q # r
    <3>1. pc'[q] = pc[q] /\ job'[q] = job[q] /\ call'[q] = call[q]
      BY <1>1, <2>2 DEF TypeOK, HandlerStep, ServicesStayTyped
    <3>. QED
      BY <3>1 DEF TypeOK, WellFormed
  <2>. QED
    BY <2>1, <2>2
<1>7. late' \subseteq {q \in Requests : pc'[q] \in Effects}
  BY <1>1 DEF TypeOK, HandlerStep
<1>. QED
  BY <1>2, <1>3, <1>4, <1>5, <1>6, <1>7 DEF TypeOK, HandlerStep, ServicesStayTyped

(* What the catalog writes is a record again.                              *)
LEMMA PatchedType ==
  ASSUME NEW record \in Record3D, NEW c \in Payloads
  PROVE  /\ Patched(record, c) \in Record3D
         /\ Patched(record, c).status = record.status
         /\ Patched(record, c).type = record.type
BY DEF Patched, Or, Record3D, Payloads

(* A record keeps its type when it is given a status.                      *)
LEMMA StatusType ==
  ASSUME NEW record \in Record3D, NEW s \in RecordStatus
  PROVE  /\ [record EXCEPT !.status = s] \in Record3D
         /\ [record EXCEPT !.status = s].status = s
         /\ [record EXCEPT !.status = s].type = record.type
BY DEF Record3D

(* Metadata that outdates a look is that of a request, and so is the look. *)
LEMMA OutdatesTyped ==
  ASSUME TypeOK, NEW r \in Requests, Outdates(r)
  PROVE  outdated' \subseteq Requests \X Requests
BY DEF TypeOK, Outdates, LookedUp

(* The catalog stays well typed when it applies an update of metadata.     *)
LEMMA ApplyPatchType ==
  ASSUME TypeOK, NEW r \in Requests, Placed(r), ApplyPatch(r)
  PROVE  ServicesStayTyped(r)
<1>1. call[r] \in Payloads
  BY StepTellsOp
<1>2. misled' \subseteq Requests
  BY DEF ApplyPatch, RestOnName, TypeOK
<1>. QED
  BY <1>1, <1>2, PatchedType, OutdatesTyped DEF ApplyPatch, TypeOK, ServicesStayTyped

(* The catalog stays well typed when it applies a status.                  *)
LEMMA ApplyStatusType ==
  ASSUME TypeOK, NEW r \in Requests, NEW k \in Keys, NEW s \in RecordStatus,
         ApplyStatus(r, k, s)
  PROVE  ServicesStayTyped(r)
BY StatusType DEF ApplyStatus, TypeOK, ServicesStayTyped, RestOn

(* A step that leaves the services alone keeps them typed.                 *)
LEMMA UnchangedTyped ==
  ASSUME TypeOK, NEW r \in Requests, UNCHANGED <<services, history>>
  PROVE  ServicesStayTyped(r)
BY DEF TypeOK, ServicesStayTyped, services, history

(* Opening a job keeps the services typed.                                 *)
LEMMA OpenJobTyped ==
  ASSUME TypeOK, NEW r \in Requests, OpenJob(r)
  PROVE  ServicesStayTyped(r)
BY DEF TypeOK, ServicesStayTyped, OpenJob, history

(* An answer ends the handler of its own request only.                     *)
LEMMA RespondMoves ==
  ASSUME NEW r, NEW a \in Answers, Respond(r, a)
  PROVE  Moves(r)
BY DEF Moves

(* A handler that awaits another call moves to one of its steps.           *)
LEMMA AwaitMoves ==
  ASSUME NEW r, NEW s \in Steps[call[r].op], Await(r, s), UNCHANGED seen
  PROVE  Moves(r)
BY DEF Moves

(* A request about a record reads a record of its type.                    *)
LEMMA ReadType ==
  ASSUME TypeOK, NEW r \in Requests, Placed(r),
         call[r].op \in {"deleteModel", "validateDeleteById", "updateMetadata", "updateStatus"}
  PROVE  /\ call[r].id \in Keys
         /\ getRecord(call[r].id) # NoRecord =>
              /\ getRecord(call[r].id) \in Record3D
              /\ getRecord(call[r].id).name \in Names
BY StepTellsOp DEF TypeOK, WellFormed, Record3D, getRecord

(* So does one that also holds a name it has just read.                    *)
LEMMA HoldMoves ==
  ASSUME NEW r, NEW s \in Steps[call[r].op], NEW n \in Names,
         Await(r, s), seen' = [seen EXCEPT ![r] = n]
  PROVE  Moves(r)
BY DEF Moves

(* A failing call ends the handler and changes no service.                 *)
LEMMA FailsMoves ==
  ASSUME TypeOK, NEW r \in Requests, CallFails(r)
  PROVE  Moves(r) /\ ServicesStayTyped(r)
BY RespondMoves, UnchangedTyped DEF CallFails, Answers

(* Every action of the metadata handlers is such a step.                   *)
LEMMA MetadataStepIsHandlerStep ==
  ASSUME TypeOK, NEW r \in Requests, MetadataStep(r), r \notin late, UNCHANGED late
  PROVE  HandlerStep(r)
<1>. USE StepsOfOps, StepTellsOp, RespondMoves, AwaitMoves, FailsMoves, UnchangedTyped
     DEF HandlerStep, Placed, Answers
<1>1. CASE UpdateGetRecord(r)
  BY <1>1 DEF UpdateGetRecord, AfterGet, AfterFile, AfterClass
<1>2. CASE UpdateGetFile(r)
  BY <1>2 DEF UpdateGetFile, AfterFile, AfterClass
<1>3. CASE UpdateGetClassifications(r)
  BY <1>3 DEF UpdateGetClassifications, AfterClass
<1>4. CASE UpdateFindName(r)
  BY <1>4 DEF UpdateFindName
<1>5. CASE UpdateCheckLock(r)
  BY <1>5 DEF UpdateCheckLock
<1>6. CASE UpdateReadAgain(r)
  <2>1. Placed(r) /\ call[r].op = "updateMetadata" /\ call' = call
    BY <1>6 DEF UpdateReadAgain
  <2>2. CASE ExtractableEnabled /\ getRecord(call[r].id) # NoRecord
             /\ seen' = [seen EXCEPT ![r] = getRecord(call[r].id).name]
             /\ Await(r, "update.lock") /\ UNCHANGED <<services, history>>
    BY <2>1, <2>2, ReadType, HoldMoves
  <2>. QED
    BY <1>6, <2>1, <2>2 DEF UpdateReadAgain, NotFoundIsRejected
<1>7. CASE UpdatePatch(r)
  BY <1>7, ApplyPatchType DEF UpdatePatch, NotFoundIsRejected
<1>8. CASE StatusGetRecord(r)
  <2>1. Placed(r) /\ call[r].op = "updateStatus" /\ call' = call
    BY <1>8 DEF StatusGetRecord
  <2>2. CASE isUpdatable(getRecord(call[r].id))
             /\ seen' = [seen EXCEPT ![r] = getRecord(call[r].id).name]
             /\ Await(r, AfterStatusCheck) /\ UNCHANGED <<services, history>>
    BY <2>1, <2>2, ReadType, HoldMoves DEF isUpdatable, AfterStatusCheck
  <2>. QED
    BY <1>8, <2>1, <2>2 DEF StatusGetRecord, NotFoundIsRejected
<1>9. CASE StatusCheckLock(r)
  BY <1>9 DEF StatusCheckLock
<1>10. CASE StatusChange(r)
  BY <1>10, ApplyStatusType DEF StatusChange, NotFoundIsRejected, WellFormed
<1>. QED
  BY <1>1, <1>2, <1>3, <1>4, <1>5, <1>6, <1>7, <1>8, <1>9, <1>10 DEF MetadataStep

(* Every action of the model handlers is such a step.                      *)
LEMMA ModelManagerStepIsHandlerStep ==
  ASSUME TypeOK, NEW r \in Requests, ModelManagerStep(r), r \notin late, UNCHANGED late
  PROVE  HandlerStep(r)
<1>. USE StepsOfOps, StepTellsOp, RespondMoves, AwaitMoves, FailsMoves, UnchangedTyped
     DEF HandlerStep, Placed, Answers, IngestionSteps, ModelRefused, ModelAccepted, ModelStep
<1>1. CASE CheckModelPath(r)
  BY <1>1 DEF CheckModelPath
<1>2. CASE CheckTileset(r)
  BY <1>2 DEF CheckTileset
<1>3. CASE ReadTileset(r)
  BY <1>3 DEF ReadTileset, AfterRead
<1>4. CASE CheckProductId(r)
  BY <1>4 DEF CheckProductId
<1>5. CASE CheckProductName(r)
  BY <1>5 DEF CheckProductName
<1>6. CASE CheckClassification(r)
  BY <1>6 DEF CheckClassification
<1>7. CASE StartIngestion(r)
  BY <1>7, OpenJobTyped DEF StartIngestion
<1>8. CASE DeleteFindRecord(r)
  BY <1>8 DEF DeleteFindRecord
<1>9. CASE StartDeleteJob(r)
  BY <1>9, OpenJobTyped DEF StartDeleteJob
<1>10. CASE MarkBeingDeleted(r)
  BY <1>10, ApplyStatusType, ReadType DEF MarkBeingDeleted, RecordStatus, BEING_DELETED, WellFormed
<1>11. CASE CanDelete(r)
  BY <1>11 DEF CanDelete
<1>. QED
  BY <1>1, <1>2, <1>3, <1>4, <1>5, <1>6, <1>7, <1>8, <1>9, <1>10, <1>11 DEF ModelManagerStep

(* Simplifying the name of a payload leaves a payload, all else the same.  *)
LEMMA SimplifyNameType ==
  ASSUME NEW c \in Payloads
  PROVE  /\ SimplifyName(c) \in Payloads
         /\ SimplifyName(c) = [c EXCEPT !.name = SimplifyName(c).name]
         /\ c.name \in Names => SimplifyName(c).name \in Names
<1>1. PICK n \in Names \cup {Undefined} :
        /\ SimplifyName(c) = [c EXCEPT !.name = n]
        /\ c.name \in Names => n \in Names
  BY DomainAssumption, MarkerAssumption DEF Payloads, SimplifyName
<1>2. [c EXCEPT !.name = n] \in Payloads /\ [c EXCEPT !.name = n].name = n
  BY DEF Payloads
<1>. QED
  BY <1>1, <1>2

(* What a controller passes on is a payload of the same operation, whose   *)
(* first step is one of that operation.                                    *)
LEMMA ControllerType ==
  ASSUME NEW c \in Calls
  PROVE  /\ Controller(c) \in Payloads
         /\ WellFormed(Controller(c))
         /\ Controller(c).op = c.op
         /\ c.op = "createModel" => Controller(c).status = UNPUBLISHED
         /\ c.op # "createModel" => Controller(c).status = c.status
         /\ FirstStep[c.op] \in Steps[c.op]
<1>1. c \in Payloads /\ WellFormed(c) /\ c.op \in Ops
  BY CallAssumption DEF Payloads
<1>2. PICK n \in Names \cup {Undefined}, s \in RecordStatus \cup {Undefined} :
        /\ Controller(c) = [c EXCEPT !.name = n, !.status = s]
        /\ c.op = "createModel" => s = UNPUBLISHED
        /\ c.op # "createModel" => s = c.status
        /\ c.name \in Names => n \in Names
  <2>1. SimplifyName(c) \in Payloads /\ (c.name \in Names => SimplifyName(c).name \in Names)
    BY <1>1, SimplifyNameType
  <2>2. SimplifyName(c) = [c EXCEPT !.name = SimplifyName(c).name, !.status = c.status]
    <3>. DEFINE n == SimplifyName(c).name
    <3>1. SimplifyName(c) = [c EXCEPT !.name = n]
      BY <1>1, SimplifyNameType
    <3>. HIDE DEF n
    <3>2. [c EXCEPT !.name = n] = [c EXCEPT !.name = n, !.status = c.status]
      BY <1>1 DEF Payloads
    <3>. QED
      BY <3>1, <3>2 DEF n
  <2>3. [SimplifyName(c) EXCEPT !.status = UNPUBLISHED]
          = [c EXCEPT !.name = SimplifyName(c).name, !.status = UNPUBLISHED]
    BY <1>1, SimplifyNameType DEF Payloads
  <2>4. c = [c EXCEPT !.name = c.name, !.status = c.status]
    BY <1>1 DEF Payloads
  <2>5. /\ SimplifyName(c).name \in Names \cup {Undefined}
        /\ c.name \in Names \cup {Undefined}
        /\ c.status \in RecordStatus \cup {Undefined} /\ UNPUBLISHED \in RecordStatus
    BY <1>1, <2>1 DEF Payloads, RecordStatus
  <2>. QED
    BY <2>1, <2>2, <2>3, <2>4, <2>5 DEF Controller, MetadataController, ModelController
<1>3. [c EXCEPT !.name = n, !.status = s] \in Payloads
  BY <1>1 DEF Payloads
<1>4. WellFormed([c EXCEPT !.name = n, !.status = s])
  BY <1>1, <1>2 DEF WellFormed, Payloads, RecordStatus, UNPUBLISHED
<1>5. [c EXCEPT !.name = n, !.status = s].op = c.op
      /\ [c EXCEPT !.name = n, !.status = s].status = s
  BY <1>1 DEF Payloads
<1>6. FirstStep[c.op] \in Steps[c.op]
  BY <1>1, StepsOfOps DEF FirstStep, Ops, IngestionSteps
<1>. QED
  BY <1>2, <1>3, <1>4, <1>5, <1>6

(* A request that arrives is routed to the handler of its call.            *)
LEMMA ReceiveType ==
  ASSUME TypeOK, NEW r \in Requests, Receive(r)
  PROVE  TypeOK'
<1>1. PICK c \in Calls : /\ call' = [call EXCEPT ![r] = Controller(c)]
                         /\ Await(r, FirstStep[c.op])
  BY DEF Receive
<1>2. pc[r] = "idle" /\ UNCHANGED <<catalog, job, locked, late, seen, history>>
  BY DEF Receive, services, history
<1>3. c.op \in Ops
  BY CallAssumption DEF Payloads
<1>4. pc' = [pc EXCEPT ![r] = FirstStep[c.op]] /\ UNCHANGED answer
  BY <1>1 DEF Await
<1>5. FirstStep[c.op] \in UNION {Steps[o] : o \in Ops}
  BY <1>3, ControllerType
<1>6. ASSUME NEW q \in Requests
      PROVE  (IF pc[q] = "idle" THEN job[q] = "none"
              ELSE /\ call[q] \in Payloads
                   /\ WellFormed(call[q])
                   /\ pc[q] \in {"answered", "crashed"} \cup Steps[call[q].op])'
  <2>1. CASE q = r
    BY <1>1, <1>2, <1>3, <1>4, <2>1, ControllerType, StepsAreWaiting
       DEF TypeOK, WellFormed
  <2>2. CASE q # r
    <3>1. pc'[q] = pc[q] /\ job'[q] = job[q] /\ call'[q] = call[q]
      BY <1>1, <1>2, <1>4, <2>2 DEF TypeOK
    <3>. QED
      BY <3>1 DEF TypeOK, WellFormed
  <2>. QED
    BY <2>1, <2>2
<1>7. late' \subseteq {q \in Requests : pc'[q] \in Effects}
  BY <1>2, <1>4 DEF TypeOK, Effects
<1>. QED
  BY <1>1, <1>2, <1>4, <1>5, <1>6, <1>7, ControllerType DEF TypeOK, history

(* A request that dies with its replica leaves the state typed.            *)
LEMMA CrashType ==
  ASSUME TypeOK, NEW r \in Requests, Crash(r)
  PROVE  TypeOK'
BY DEF TypeOK, Crash, Waiting, Ended, WellFormed, services, history

(* So does one that ends with its call under way.                          *)
LEMMA AbandonType ==
  ASSUME TypeOK, NEW r \in Requests, Abandon(r)
  PROVE  TypeOK'
BY DEF TypeOK, Abandon, Waiting, Answers, WellFormed, services, history

(* The call that was abandoned is carried out by the service it was for.   *)
LEMMA DeliverTyped ==
  ASSUME TypeOK, NEW r \in Requests, Deliver(r)
  PROVE  /\ ServicesStayTyped(r)
         /\ Placed(r)
         /\ UNCHANGED <<call, seen, answer>>
         /\ late' = late \ {r}
         /\ \E e \in {"answered", "crashed"} : pc' = [pc EXCEPT ![r] = e]
<1>1. Placed(r) /\ pc[r] \in Effects
  BY DEF Deliver, TypeOK, Effects, Placed
<1>2. /\ pc[r] = "status.change" => call[r].id \in Keys /\ call[r].status \in RecordStatus
      /\ pc[r] = "delete.mark" => call[r].id \in Keys
  BY <1>1, StepTellsOp, StepsOfOps DEF WellFormed
<1>. QED
  BY <1>1, <1>2, ApplyPatchType, ApplyStatusType, OpenJobTyped
     DEF Deliver, RecordStatus, BEING_DELETED

(* So the state stays typed.                                               *)
LEMMA DeliverType ==
  ASSUME TypeOK, NEW r \in Requests, Deliver(r)
  PROVE  TypeOK'
<1>1. PICK e \in {"answered", "crashed"} : pc' = [pc EXCEPT ![r] = e]
  BY DeliverTyped
<1>2. /\ ServicesStayTyped(r) /\ Placed(r)
      /\ UNCHANGED <<call, seen, answer>> /\ late' = late \ {r}
  BY DeliverTyped
<1>3. ASSUME NEW q \in Requests
      PROVE  (IF pc[q] = "idle" THEN job[q] = "none"
              ELSE /\ call[q] \in Payloads
                   /\ WellFormed(call[q])
                   /\ pc[q] \in {"answered", "crashed"} \cup Steps[call[q].op])'
  BY <1>1, <1>2 DEF TypeOK, ServicesStayTyped, Placed, WellFormed
<1>. QED
  BY <1>1, <1>2, <1>3 DEF TypeOK, ServicesStayTyped

(* The record an ingestion job inserts is one.                             *)
LEMMA IngestedType ==
  ASSUME NEW c \in Payloads, WellFormed(c), c.op = "createModel"
  PROVE  /\ IngestedRecord(c) \in Record3D
         /\ IngestedRecord(c).status = c.status
         /\ IngestedRecord(c).type = c.type
BY DEF IngestedRecord, Record3D, Payloads, WellFormed

(* A job is one of a request that was received.                            *)
LEMMA JobIsOfCall ==
  ASSUME TypeOK, NEW r \in Requests, job[r] # "none"
  PROVE  pc[r] # "idle" /\ call[r] \in Payloads /\ WellFormed(call[r])
BY DEF TypeOK

(* A job that is carried out leaves the catalog typed.                     *)
LEMMA RunJobType ==
  ASSUME TypeOK, NEW r \in Requests, RunJob(r)
  PROVE  TypeOK'
<1>1. job[r] = "open" /\ call[r] \in Payloads /\ WellFormed(call[r])
  BY JobIsOfCall DEF RunJob, RunIngestion, RunDelete
<1>2. UNCHANGED <<locked, call, pc, late, seen, answer, wrote, overtaken, misled>>
      /\ job' = [job EXCEPT ![r] = "done"]
      /\ outdated' \subseteq Requests \X Requests
  BY OutdatesTyped DEF RunJob, RunIngestion, RunDelete, history, TypeOK
<1>3. catalog' \in [Keys -> Record3D \cup {NoRecord}]
  BY <1>1, IngestedType DEF RunJob, RunIngestion, RunDelete, TypeOK, Keys
<1>4. ASSUME NEW q \in Requests
      PROVE  (IF pc[q] = "idle" THEN job[q] = "none"
              ELSE /\ call[q] \in Payloads
                   /\ WellFormed(call[q])
                   /\ pc[q] \in {"answered", "crashed"} \cup Steps[call[q].op])'
  BY <1>1, <1>2 DEF TypeOK, WellFormed
<1>. QED
  BY <1>2, <1>3, <1>4 DEF TypeOK

(* Taking or freeing a name leaves the state typed.                        *)
LEMMA ToggleLockType ==
  ASSUME TypeOK, NEW n \in Lockable, ToggleLock(n)
  PROVE  TypeOK'
BY FlagAssumption DEF TypeOK, ToggleLock, TakeName, FreeName, RestOnFree, WellFormed

(* Nothing changes, nothing breaks.                                        *)
LEMMA StutterType == TypeOK /\ UNCHANGED vars => TypeOK'
BY DEF TypeOK, vars, WellFormed

(* The initial states are typed.                                           *)
LEMMA InitTypeOK == Init => TypeOK
BY DomainAssumption, CatalogAssumption DEF Init, TypeOK, Keys, Answers

(* Every step keeps the type invariant.                                    *)
LEMMA NextType == TypeOK /\ [Next]_vars => TypeOK'
<1>. SUFFICES ASSUME TypeOK, [Next]_vars PROVE TypeOK'
  OBVIOUS
<1>1. ASSUME NEW r \in Requests, Receive(r) PROVE TypeOK'
  BY <1>1, ReceiveType
<1>2. ASSUME NEW r \in Requests, Handle(r) PROVE TypeOK'
  BY <1>2, MetadataStepIsHandlerStep, ModelManagerStepIsHandlerStep, HandlerStepType
     DEF Handle
<1>3. ASSUME NEW r \in Requests, Crash(r) PROVE TypeOK'
  BY <1>3, CrashType
<1>4. ASSUME NEW r \in Requests, RunJob(r) PROVE TypeOK'
  BY <1>4, RunJobType
<1>5. ASSUME NEW n \in Lockable, ToggleLock(n) PROVE TypeOK'
  BY <1>5, ToggleLockType
<1>6. CASE Rest \/ UNCHANGED vars
  BY <1>6, StutterType DEF Rest
<1>7. ASSUME NEW r \in Requests, Abandon(r) \/ Deliver(r) PROVE TypeOK'
  BY <1>7, AbandonType, DeliverType
<1>. QED
  BY <1>1, <1>2, <1>3, <1>4, <1>5, <1>6, <1>7 DEF Next

(* Every variable keeps its type and every request stays on the steps of   *)
(* the handler its call was routed to.                                     *)
THEOREM TypeCorrect == Spec => []TypeOK
BY InitTypeOK, NextType, PTL DEF Spec
================================================================================
