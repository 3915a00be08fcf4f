---------------------------- MODULE MetadataProofs ----------------------------
(***************************************************************************)
(* What the gateway guarantees about metadata under any interleaving and   *)
(* with every fault, for every value of the constants: what is ingested    *)
(* has passed every check; and dates out of order, names given twice and   *)
(* writes to a locked record have one kind of cause each.                  *)
(*                                                                         *)
(* The argument: a new model passes the checks in their order (Passed),    *)
(* each at the one step that can take its request beyond it, and its       *)
(* payload stays what it was when it was checked.  An update, and a new    *)
(* name, are judged once; whatever reaches the catalog after that outdates *)
(* the judgement, and `outdated' says so (Judged, Sought).  What a handler *)
(* knows of a name and its lock stays true unless it is misled (LockInv).  *)
(***************************************************************************)
EXTENDS RemovalProofs

(* The handler at a step of validateModelForIngestion.                     *)
LEMMA IngestionStepsOnly ==
  ASSUME NEW r \in Requests, Handle(r), pc[r] \in IngestionSteps
  PROVE  \/ CheckModelPath(r) \/ CheckTileset(r) \/ ReadTileset(r)
         \/ CheckProductId(r) \/ CheckProductName(r) \/ CheckClassification(r)
         \/ StartIngestion(r)
BY DEF Handle, MetadataStep, UpdateGetRecord, UpdateGetFile, UpdateGetClassifications,
       UpdateFindName, UpdateReadAgain, UpdateCheckLock, UpdatePatch, StatusGetRecord,
       StatusCheckLock, StatusChange, ModelManagerStep, DeleteFindRecord, StartDeleteJob,
       MarkBeingDeleted, CanDelete, IngestionSteps

-----------------------------------------------------------------------------
(* The calls that a new model awaits after its metadata were checked, then *)
(* its product, its name, and its classification.                          *)
AfterMetadata == {"create.product", "create.name", "create.class", "create.ingest"}
AfterProduct  == {"create.name", "create.class", "create.ingest"}
AfterName     == {"create.class", "create.ingest"}
AfterClasses  == {"create.ingest"}

(* Request r has come that far with its new model, or opened the job.      *)
Passed(r, S) ==
  /\ call[r].op = "createModel"
  /\ pc[r] \in S \/ job[r] # "none"

IngestionInv ==
  \A r \in Requests :
    /\ Passed(r, AfterMetadata) => isMetadataValid(call[r])
    /\ Passed(r, AfterProduct) /\ call[r].product # Undefined =>
         isProductIdExist(call[r].product)
    /\ Passed(r, AfterClasses) => isClassificationValid(call[r].class)

(* Nothing has passed at the start.                                        *)
LEMMA InitIngestionInv == Init => IngestionInv
BY DEF Init, IngestionInv, Passed, AfterMetadata, AfterProduct, AfterClasses

(* A new model passes a check by a step of its handler from before it.     *)
LEMMA PassingBegins ==
  ASSUME TypeOK, DeletionInv, AnswerInv, [Next]_vars, NEW r \in Requests,
         NEW S \in {AfterMetadata, AfterProduct, AfterName, AfterClasses},
         Passed(r, S)', ~Passed(r, S)
  PROVE  /\ call'[r] = call[r] /\ call[r].metadata /\ call[r].op = "createModel"
         /\ Handle(r)
         /\ pc[r] \in IngestionSteps \ S
         /\ pc'[r] \in S
<1>. "create.ingest" \in S /\ S \subseteq AfterMetadata
  BY DEF AfterMetadata, AfterProduct, AfterName, AfterClasses
<1>1. CASE pc'[r] \in S
  <2>1. CASE pc'[r] = pc[r]
    BY <1>1, <2>1, CallsLast DEF Passed, AfterMetadata
  <2>2. CASE pc'[r] # pc[r]
    <3>1. ASSUME Receive(r) PROVE FALSE
      <4>1. PICK c \in Calls : pc' = [pc EXCEPT ![r] = FirstStep[c.op]]
        BY <3>1 DEF Receive, Await
      <4>2. FirstStep[c.op] \notin AfterMetadata
        BY CallAssumption DEF Payloads, Ops, FirstStep, AfterMetadata
      <4>. QED
        BY <1>1, <4>1, <4>2 DEF TypeOK
    <3>2. Placed(r) /\ Handle(r) /\ call' = call /\ pc'[r] \in Steps[call[r].op]
      BY <1>1, <2>2, <3>1, StepTaken DEF AfterMetadata
    <3>3. /\ call[r].op = "createModel" /\ call[r].metadata
          /\ pc[r] \in IngestionSteps
      BY <3>2, StepTellsOp, StepsOfOps DEF Passed, WellFormed
    <3>. QED
      BY <1>1, <3>2, <3>3 DEF Passed
  <2>. QED
    BY <2>1, <2>2
<1>2. CASE job'[r] # "none" /\ job[r] = "none"
  <2>1. Opens(r) /\ call' = call
    BY <1>2, JobsMove
  <2>2. pc[r] = "create.ingest" \/ (pc[r] = "delete.job" /\ call[r].op = "deleteModel")
    BY <2>1, StepTellsOp, StepsOfOps DEF Opens, Placed
  <2>. QED
    BY <2>1, <2>2 DEF Passed
<1>3. CASE job'[r] # "none" /\ job[r] # "none"
  BY <1>3, JobIsOfCall, CallsLast DEF Passed
<1>. QED
  BY <1>1, <1>2, <1>3 DEF Passed

(* The metadata are checked when the tileset has been read.                *)
LEMMA MetadataArePassed ==
  ASSUME TypeOK, DeletionInv, AnswerInv, [Next]_vars, NEW r \in Requests,
         Passed(r, AfterMetadata)', ~Passed(r, AfterMetadata)
  PROVE  call'[r] = call[r] /\ isMetadataValid(call[r])
<1>1. /\ call'[r] = call[r] /\ call[r].metadata /\ Handle(r)
      /\ pc[r] \in {"create.path", "create.tileset", "create.read"}
      /\ pc'[r] \in AfterMetadata
  BY PassingBegins DEF IngestionSteps, AfterMetadata
<1>2. CheckModelPath(r) \/ CheckTileset(r) \/ ReadTileset(r)
  BY <1>1, IngestionStepsOnly
     DEF IngestionSteps, CheckProductId, CheckProductName, CheckClassification, StartIngestion
<1>. QED
  BY <1>1, <1>2
     DEF CheckModelPath, CheckTileset, ReadTileset, ModelStep, ModelRefused, Await,
         Respond, TypeOK, AfterMetadata

(* A product that is given is asked about, and only one that is there      *)
(* lets the model pass.                                                    *)
LEMMA ProductIsPassed ==
  ASSUME TypeOK, DeletionInv, AnswerInv, [Next]_vars, NEW r \in Requests,
         Passed(r, AfterProduct)', ~Passed(r, AfterProduct), call'[r].product # Undefined
  PROVE  call'[r] = call[r] /\ isProductIdExist(call[r].product)
<1>1. /\ call'[r] = call[r] /\ call[r].metadata /\ Handle(r)
      /\ pc[r] \in {"create.path", "create.tileset", "create.read", "create.product"}
      /\ pc'[r] \in AfterProduct
  BY PassingBegins DEF IngestionSteps, AfterProduct
<1>2. CheckModelPath(r) \/ CheckTileset(r) \/ ReadTileset(r) \/ CheckProductId(r)
  BY <1>1, IngestionStepsOnly
     DEF IngestionSteps, CheckProductName, CheckClassification, StartIngestion
<1>3. CASE CheckModelPath(r) \/ CheckTileset(r) \/ ReadTileset(r)
  BY <1>1, <1>3
     DEF CheckModelPath, CheckTileset, ReadTileset, AfterRead, ModelStep, ModelRefused,
         Await, Respond, TypeOK, AfterProduct
<1>4. CASE CheckProductId(r)
  BY <1>1, <1>4
     DEF CheckProductId, CallFails, Respond, TypeOK, AfterProduct
<1>. QED
  BY <1>2, <1>3, <1>4

(* No record has the name when it is asked about.                          *)
LEMMA NameIsPassed ==
  ASSUME TypeOK, DeletionInv, AnswerInv, [Next]_vars, NEW r \in Requests,
         Passed(r, AfterName)', ~Passed(r, AfterName)
  PROVE  /\ UNCHANGED <<catalog, job>>
         /\ call'[r] = call[r]
         /\ findRecords(call[r].name) = {}
<1>1. /\ call'[r] = call[r] /\ call[r].metadata /\ Handle(r)
      /\ pc[r] \in IngestionSteps \ AfterName
      /\ pc'[r] \in AfterName
  BY PassingBegins
<1>2. CASE CheckModelPath(r) \/ CheckTileset(r) \/ ReadTileset(r)
  BY <1>1, <1>2
     DEF CheckModelPath, CheckTileset, ReadTileset, AfterRead, ModelStep, ModelRefused,
         Await, Respond, TypeOK, AfterName
<1>3. CASE CheckProductId(r)
  BY <1>1, <1>3
     DEF CheckProductId, ModelStep, CallFails, Await, Respond, TypeOK, AfterName
<1>4. CASE CheckProductName(r)
  BY <1>1, <1>4
     DEF CheckProductName, isProductNameValid, ModelRefused, CallFails, Respond, services,
         TypeOK, AfterName
<1>. QED
  BY <1>1, <1>2, <1>3, <1>4, IngestionStepsOnly
     DEF CheckClassification, StartIngestion, AfterName

(* The classification is the last to be checked.                           *)
LEMMA ClassIsPassed ==
  ASSUME TypeOK, DeletionInv, AnswerInv, [Next]_vars, NEW r \in Requests,
         Passed(r, AfterClasses)', ~Passed(r, AfterClasses)
  PROVE  call'[r] = call[r] /\ isClassificationValid(call[r].class)
<1>1. /\ call'[r] = call[r] /\ call[r].metadata /\ Handle(r)
      /\ pc[r] \in IngestionSteps \ {"create.ingest"}
      /\ pc'[r] = "create.ingest"
  BY PassingBegins DEF AfterClasses
<1>2. CASE CheckClassification(r)
  BY <1>1, <1>2
     DEF CheckClassification, ModelAccepted, ModelRefused, CallFails, Respond, TypeOK
<1>3. CASE CheckModelPath(r) \/ CheckTileset(r) \/ ReadTileset(r)
  BY <1>1, <1>3
     DEF CheckModelPath, CheckTileset, ReadTileset, AfterRead, ModelStep, ModelRefused,
         Await, Respond, TypeOK
<1>4. CASE CheckProductId(r) \/ CheckProductName(r)
  BY <1>1, <1>4
     DEF CheckProductId, CheckProductName, ModelStep, ModelRefused, CallFails, Await,
         Respond, TypeOK
<1>. QED
  BY <1>1, <1>2, <1>3, <1>4, IngestionStepsOnly DEF StartIngestion

(* What was passed stays passed.                                           *)
LEMMA NextIngestionInv ==
  TypeOK /\ DeletionInv /\ AnswerInv /\ IngestionInv /\ [Next]_vars => IngestionInv'
<1>. SUFFICES ASSUME TypeOK, DeletionInv, AnswerInv, IngestionInv, [Next]_vars,
                     NEW r \in Requests
              PROVE  /\ Passed(r, AfterMetadata)' => isMetadataValid(call'[r])
                     /\ Passed(r, AfterProduct)' /\ call'[r].product # Undefined =>
                          isProductIdExist(call'[r].product)
                     /\ Passed(r, AfterClasses)' => isClassificationValid(call'[r].class)
  BY DEF IngestionInv, isMetadataValid, isProductIdExist, isClassificationValid
<1>1. ASSUME NEW S \in {AfterMetadata, AfterProduct, AfterClasses}, Passed(r, S)
      PROVE  call'[r] = call[r]
  <2>1. pc[r] # "idle"
    BY <1>1 DEF Passed, AfterMetadata, AfterProduct, AfterClasses, TypeOK
  <2>. QED
    BY <2>1, CallsLast
<1>2. Passed(r, AfterMetadata)' => isMetadataValid(call'[r])
  BY <1>1, MetadataArePassed DEF IngestionInv
<1>3. Passed(r, AfterProduct)' /\ call'[r].product # Undefined =>
        isProductIdExist(call'[r].product)
  BY <1>1, ProductIsPassed DEF IngestionInv
<1>4. Passed(r, AfterClasses)' => isClassificationValid(call'[r].class)
  BY <1>1, ClassIsPassed DEF IngestionInv
<1>. QED
  BY <1>2, <1>3, <1>4

(* By induction, with the type invariant.                                  *)
LEMMA IngestionInvariant == Spec => []IngestionInv
BY InitIngestionInv, NextIngestionInv, TypeCorrect, DeletionInvariant, AnswersStayTrue,
   PTL DEF Spec

(* A model that the store-trigger is asked to ingest has passed every      *)
(* check, whatever was asked in between and whatever failed.               *)
THEOREM OnlyValidIsIngested == Spec => []IngestedIsValid
<1>1. IngestionInv => IngestedIsValid
  BY DEF IngestionInv, IngestedIsValid, Passed
<1>. QED
  BY <1>1, IngestionInvariant, PTL
-----------------------------------------------------------------------------
(* What a step does to the metadata of the records.                        *)

(* The history of outdated looks only grows.                               *)
LEMMA OutdatedGrows ==
  ASSUME TypeOK, [Next]_vars
  PROVE  outdated \subseteq outdated'
<1>1. ASSUME NEW r \in Requests,
             \/ Receive(r) \/ Crash(r) \/ RunIngestion(r) \/ RunDelete(r)
             \/ Quiet(r) \/ Patches(r) \/ Marks(r) \/ Opens(r)
      PROVE  outdated \subseteq outdated'
  BY <1>1 DEF Receive, Crash, RunIngestion, RunDelete, history, Quiet, Patches, Marks,
              ApplyPatch, ApplyStatus, Opens, OpenJob, Outdates
<1>. QED
  BY <1>1, StepKinds DEF Unseen

(* The dates of a record or of a payload.                                  *)
InOrder(record) == record.start <= record.end

(* Request r has checked its update against the record.                    *)
Updating(r) == pc[r] \in Steps["updateMetadata"] \ {"update.get"}

(* The step tells the handler.                                             *)
LEMMA StepOfOneOp ==
  ASSUME NEW o \in Ops, NEW s \in Steps[o]
  PROVE  /\ s \in Steps["updateMetadata"] => o = "updateMetadata"
         /\ s \in IngestionSteps => o \in {"createModel", "validate"}
BY StepsOfOps DEF Ops, IngestionSteps

(* An update goes on only after its dates were compared.                   *)
LEMMA UpdatingBegins ==
  ASSUME TypeOK, [Next]_vars, NEW r \in Requests, Updating(r)', ~Updating(r)
  PROVE  /\ UNCHANGED <<catalog, job, call>>
         /\ call[r].id \in Keys
         /\ call[r] \in Payloads
         /\ IsRecord(call[r].id)
         /\ isUpdateInOrder(catalog[call[r].id], call[r])
<1>1. pc'[r] \in Steps["updateMetadata"] /\ pc'[r] # "update.get" /\ pc'[r] # pc[r]
  BY DEF Updating, Steps
<1>2. pc'[r] \notin {"answered", "crashed"}
  BY <1>1, StepsOfOps
<1>3. ~Receive(r)
  <2>1. ASSUME Receive(r) PROVE FALSE
    <3>1. PICK c \in Calls : pc' = [pc EXCEPT ![r] = FirstStep[c.op]]
      BY <2>1 DEF Receive, Await
    <3>2. FirstStep[c.op] \notin Steps["updateMetadata"] \ {"update.get"}
      BY CallAssumption, StepsOfOps DEF Payloads, Ops, FirstStep
    <3>. QED
      BY <1>1, <3>1, <3>2 DEF TypeOK
  <2>. QED
    BY <2>1
<1>4. Placed(r) /\ Handle(r) /\ call' = call /\ pc'[r] \in Steps[call[r].op]
  BY <1>1, <1>2, <1>3, StepTaken
<1>5. call[r].op = "updateMetadata" /\ call[r] \in Payloads /\ pc[r] \in Steps["updateMetadata"]
  BY <1>1, <1>4, StepTellsOp, StepOfOneOp
<1>6. pc[r] = "update.get"
  BY <1>5 DEF Updating
<1>7. UpdateGetRecord(r)
  BY <1>4, <1>6
     DEF Handle, MetadataStep, UpdateGetFile, UpdateGetClassifications, UpdateFindName,
         UpdateReadAgain, UpdateCheckLock, UpdatePatch, StatusGetRecord, StatusCheckLock,
         StatusChange, ModelManagerStep, CheckModelPath, CheckTileset, ReadTileset,
         CheckProductId, CheckProductName, CheckClassification, StartIngestion,
         DeleteFindRecord, StartDeleteJob, MarkBeingDeleted, CanDelete
<1>8. /\ isUpdateValid(catalog[call[r].id], call[r])
      /\ UNCHANGED <<catalog, job>>
  BY <1>2, <1>7 DEF UpdateGetRecord, getRecord, CallFails, Respond, services, TypeOK
<1>9. call[r].id \in Keys
  BY <1>4, <1>5, ReadType
<1>. QED
  BY <1>4, <1>5, <1>8, <1>9 DEF isUpdateValid, isUpdatable, IsRecord

(* The dates of a model that has passed the checks are in order.           *)
LEMMA ModelIsInOrder ==
  ASSUME NEW c, isMetadataValid(c)
  PROVE  InOrder(c)
BY DEF isMetadataValid, isDatesValid, InOrder

(* An ingestion of request r is open.                                      *)
IngestionOpen(r) == job[r] = "open" /\ call[r].op = "createModel"

(* Request r has asked whether the new name of its record is taken.        *)
Renaming(r) ==
  /\ pc[r] \in {"update.reread", "update.lock", "update.patch"}
  /\ call[r].name # Undefined

(* A request that is being served came in as a call of a client.           *)
LEMMA CallsArrive ==
  ASSUME TypeOK, [Next]_vars, NEW r \in Requests, pc[r] = "idle", pc'[r] # "idle"
  PROVE  \E c \in Calls : call'[r] = Controller(c)
<1>1. PICK q \in Requests :
        \/ Unseen \/ Receive(q) \/ Crash(q) \/ RunIngestion(q) \/ RunDelete(q)
        \/ Placed(q) /\ (Quiet(q) \/ Patches(q) \/ Marks(q) \/ Opens(q))
  BY StepKinds
<1>2. Receive(r)
  BY <1>1
     DEF Unseen, Receive, Crash, Await, RunIngestion, RunDelete, Quiet, Patches, Marks,
         Opens, Goes, TypeOK, Placed, Waiting
<1>. QED
  BY <1>2 DEF Receive, TypeOK

(* What the controllers leave of a call, apart from its status.            *)
LEMMA ControllerKeeps ==
  ASSUME NEW c \in Payloads
  PROVE  /\ Controller(c).op = c.op
         /\ Controller(c).start = c.start /\ Controller(c).end = c.end
         /\ c.op \in {"createModel", "updateMetadata"} =>
              Controller(c).name = IF c.name = Undefined THEN c.name ELSE Simplified[c.name]
BY DEF Controller, MetadataController, ModelController, SimplifyName, Payloads

(* Names are stored, and given to the handlers, without stray spaces.      *)
SimpleNames ==
  /\ \A k \in Keys : IsRecord(k) => Simplified[catalog[k].name] = catalog[k].name
  /\ \A r \in Requests :
       /\ pc[r] # "idle"
       /\ call[r].op \in {"createModel", "updateMetadata"}
       /\ call[r].name # Undefined
       => Simplified[call[r].name] = call[r].name

(* What a step does to names: nothing, or it ingests a model, or renames.  *)
KeepsNames ==
  \A k \in Keys : IsRecord(k)' => IsRecord(k) /\ catalog'[k].name = catalog[k].name

(* Every step does one of the three.                                       *)
LEMMA NamesMove ==
  ASSUME TypeOK, [Next]_vars
  PROVE  \/ KeepsNames
         \/ \E q \in Requests : RunIngestion(q)
         \/ \E q \in Requests :
              Placed(q) /\ Patches(q) /\ call' = call /\ call[q].name # Undefined
<1>1. ASSUME NEW q \in Requests, Receive(q) \/ Crash(q) \/ Quiet(q) \/ Opens(q)
      PROVE  KeepsNames
  BY <1>1 DEF Receive, Crash, services, Quiet, Opens, OpenJob, KeepsNames, IsRecord
<1>2. ASSUME NEW q \in Requests, RunDelete(q)
      PROVE  KeepsNames
  BY <1>2 DEF RunDelete, KeepsNames, IsRecord, TypeOK
<1>3. ASSUME NEW q \in Requests, Marks(q)
      PROVE  KeepsNames
  <2>1. PICK s \in RecordStatus : ApplyStatus(q, call[q].id, s)
    BY <1>3 DEF Marks, RecordStatus
  <2>2. ASSUME NEW k \in Keys, IsRecord(k)'
        PROVE  IsRecord(k) /\ catalog'[k].name = catalog[k].name
    <3>1. CASE k # call[q].id
      BY <2>1, <2>2, <3>1 DEF ApplyStatus, IsRecord, TypeOK
    <3>2. CASE k = call[q].id
      <4>1. IsRecord(k) /\ catalog[k] \in Record3D
        BY <2>1, <3>2 DEF ApplyStatus, IsRecord, TypeOK
      <4>2. catalog'[k] = [catalog[k] EXCEPT !.status = s]
        BY <2>1, <3>2 DEF ApplyStatus, TypeOK
      <4>. QED
        BY <4>1, <4>2 DEF Record3D
    <3>. QED
      BY <3>1, <3>2
  <2>. QED
    BY <2>2 DEF KeepsNames
<1>4. ASSUME NEW q \in Requests, Patches(q), call[q].name = Undefined
      PROVE  KeepsNames
  <2>1. ASSUME NEW k \in Keys, IsRecord(k)'
        PROVE  IsRecord(k) /\ catalog'[k].name = catalog[k].name
    <3>1. CASE k # call[q].id
      BY <1>4, <2>1, <3>1 DEF Patches, ApplyPatch, IsRecord, TypeOK
    <3>2. CASE k = call[q].id
      <4>1. IsRecord(k) /\ catalog[k] \in Record3D
        BY <1>4, <3>2 DEF Patches, ApplyPatch, IsRecord, TypeOK
      <4>2. catalog'[k] = Patched(catalog[k], call[q])
        BY <1>4, <3>2 DEF Patches, ApplyPatch, TypeOK
      <4>. QED
        BY <1>4, <4>1, <4>2 DEF Patched, Or, Record3D
    <3>. QED
      BY <3>1, <3>2
  <2>. QED
    BY <2>1 DEF KeepsNames
<1>5. CASE Unseen
  BY <1>5 DEF Unseen, KeepsNames, IsRecord
<1>. QED
  BY <1>1, <1>2, <1>3, <1>4, <1>5, StepKinds

(* A patch of request q gives the record the name that q asked for.        *)
LEMMA PatchRenames ==
  ASSUME TypeOK, NEW q \in Requests, Placed(q), Patches(q), call[q].name # Undefined
  PROVE  /\ call[q].id \in Keys /\ IsRecord(call[q].id)
         /\ Renaming(q) /\ call[q].op = "updateMetadata"
         /\ catalog'[call[q].id].name = call[q].name
         /\ \A k \in Keys : k # call[q].id => catalog'[k] = catalog[k]
<1>1. PICK k \in Keys : k = call[q].id
  BY DEF Patches
<1>2. IsRecord(k) /\ catalog[k] \in Record3D
  BY <1>1 DEF Patches, ApplyPatch, IsRecord, TypeOK
<1>3. catalog' = [catalog EXCEPT ![k] = Patched(@, call[q])]
  BY <1>1 DEF Patches, ApplyPatch
<1>4. catalog'[k] = Patched(catalog[k], call[q])
  BY <1>3 DEF TypeOK
<1>5. catalog'[k].name = call[q].name
  BY <1>2, <1>4 DEF Patched, Or, Record3D
<1>6. Renaming(q) /\ call[q].op = "updateMetadata"
  BY StepTellsOp, StepsOfOps DEF Patches, Renaming
<1>. QED
  BY <1>1, <1>2, <1>3, <1>5, <1>6 DEF TypeOK

(* An ingestion inserts a record with the name of its request.             *)
LEMMA IngestionNames ==
  ASSUME TypeOK, NEW q \in Requests, RunIngestion(q)
  PROVE  /\ q \in Keys
         /\ catalog'[q].name = call[q].name
         /\ \A k \in Keys : k # q => catalog'[k] = catalog[k]
         /\ IngestionOpen(q)
         /\ call[q].name \in Names
         /\ pc[q] # "idle"
<1>1. q \in Keys
  BY DEF Keys
<1>2. call[q].op = "createModel" /\ call[q] \in Payloads /\ WellFormed(call[q])
  BY JobIsOfCall DEF RunIngestion
<1>. QED
  BY <1>1, <1>2, JobIsOfCall
     DEF RunIngestion, TypeOK, IngestedRecord, IngestionOpen, WellFormed

(* No name gets a stray space.                                             *)
LEMMA NextSimpleNames ==
  ASSUME TypeOK, SimpleNames, [Next]_vars
  PROVE  SimpleNames'
<1>1. ASSUME NEW k \in Keys, IsRecord(k)'
      PROVE  Simplified[catalog'[k].name] = catalog'[k].name
  <2>1. CASE KeepsNames
    BY <1>1, <2>1 DEF KeepsNames, SimpleNames
  <2>2. ASSUME NEW q \in Requests, RunIngestion(q)
        PROVE  Simplified[catalog'[k].name] = catalog'[k].name
    <3>1. CASE k # q
      BY <1>1, <2>2, <3>1, IngestionNames DEF SimpleNames, IsRecord
    <3>2. CASE k = q
      BY <2>2, <3>2, IngestionNames, MarkerAssumption
         DEF SimpleNames, IngestionOpen
    <3>. QED
      BY <3>1, <3>2
  <2>3. ASSUME NEW q \in Requests, Placed(q), Patches(q), call[q].name # Undefined
        PROVE  Simplified[catalog'[k].name] = catalog'[k].name
    <3>1. CASE k # call[q].id
      BY <1>1, <2>3, <3>1, PatchRenames DEF SimpleNames, IsRecord
    <3>2. CASE k = call[q].id
      BY <2>3, <3>2, PatchRenames DEF SimpleNames, Placed
    <3>. QED
      BY <3>1, <3>2
  <2>. QED
    BY <2>1, <2>2, <2>3, NamesMove
<1>2. ASSUME NEW r \in Requests, pc'[r] # "idle",
             call'[r].op \in {"createModel", "updateMetadata"}, call'[r].name # Undefined
      PROVE  Simplified[call'[r].name] = call'[r].name
  <2>1. CASE pc[r] # "idle"
    BY <1>2, <2>1, CallsLast DEF SimpleNames
  <2>2. CASE pc[r] = "idle"
    <3>1. PICK c \in Calls : call'[r] = Controller(c)
      BY <1>2, <2>2, CallsArrive
    <3>2. c \in Payloads
      BY CallAssumption
    <3>3. Controller(c).name = IF c.name = Undefined THEN c.name ELSE Simplified[c.name]
      BY <1>2, <3>1, <3>2, ControllerKeeps
    <3>. QED
      BY <1>2, <3>1, <3>2, <3>3, DomainAssumption DEF Payloads
  <2>. QED
    BY <2>1, <2>2
<1>. QED
  BY <1>1, <1>2 DEF SimpleNames

(* An update goes on with a new name only after it was looked up.          *)
LEMMA RenamingBegins ==
  ASSUME TypeOK, [Next]_vars, NEW r \in Requests, Renaming(r)', ~Renaming(r)
  PROVE  /\ UNCHANGED <<catalog, job, call>>
         /\ call[r].op = "updateMetadata"
         /\ ~isNameTaken(call[r].id, call[r].name)
<1>1. pc'[r] \in {"update.reread", "update.lock", "update.patch"} /\ call'[r].name # Undefined
  BY DEF Renaming
<1>2. ~Receive(r)
  <2>1. ASSUME Receive(r) PROVE FALSE
    <3>1. PICK c \in Calls : pc' = [pc EXCEPT ![r] = FirstStep[c.op]]
      BY <2>1 DEF Receive, Await
    <3>2. FirstStep[c.op] \notin {"update.reread", "update.lock", "update.patch"}
      BY CallAssumption DEF Payloads, Ops, FirstStep
    <3>. QED
      BY <1>1, <3>1, <3>2 DEF TypeOK
  <2>. QED
    BY <2>1
<1>3. pc'[r] # pc[r]
  <2>1. ASSUME pc'[r] = pc[r] PROVE FALSE
    <3>1. call'[r] = call[r]
      BY <1>1, <2>1, CallsLast
    <3>. QED
      BY <1>1, <2>1, <3>1 DEF Renaming
  <2>. QED
    BY <2>1
<1>4. Placed(r) /\ Handle(r) /\ call' = call /\ pc'[r] \in Steps[call[r].op]
  BY <1>1, <1>2, <1>3, StepTaken
<1>5. /\ pc[r] \in Steps["updateMetadata"] \ {"update.reread", "update.lock", "update.patch"}
      /\ call[r].op = "updateMetadata"
  BY <1>1, <1>4, StepTellsOp, StepOfOneOp, StepsOfOps DEF Renaming
<1>6. UpdateGetRecord(r) \/ UpdateGetFile(r) \/ UpdateGetClassifications(r) \/ UpdateFindName(r)
  BY <1>4, <1>5, StepsOfOps
     DEF Handle, MetadataStep, UpdateReadAgain, UpdateCheckLock, UpdatePatch, StatusGetRecord,
         StatusCheckLock, StatusChange, ModelManagerStep, CheckModelPath, CheckTileset,
         ReadTileset, CheckProductId, CheckProductName, CheckClassification, StartIngestion,
         DeleteFindRecord, StartDeleteJob, MarkBeingDeleted, CanDelete
<1>7. CASE UpdateGetRecord(r) \/ UpdateGetFile(r) \/ UpdateGetClassifications(r)
  BY <1>1, <1>4, <1>5, <1>7
     DEF UpdateGetRecord, UpdateGetFile, UpdateGetClassifications, AfterGet, AfterFile,
         AfterClass, CallFails, Await, Respond, TypeOK
<1>8. CASE UpdateFindName(r)
  BY <1>1, <1>4, <1>5, <1>8 DEF UpdateFindName, CallFails, Respond, services, TypeOK
<1>. QED
  BY <1>6, <1>7, <1>8


-----------------------------------------------------------------------------
(* Dates.                                                                  *)

(* What a step does to the dates of a record: nothing, or an ingestion or  *)
(* an update of metadata writes them.                                      *)
WritesDates(r, k) ==
  /\ Patches(r) /\ call' = call
  /\ call[r].id = k /\ IsRecord(k)
  /\ call[r].start \in Dates \cup {Undefined} /\ call[r].end \in Dates \cup {Undefined}
  /\ catalog'[k].start = Or(call[r].start, catalog[k].start)
  /\ catalog'[k].end = Or(call[r].end, catalog[k].end)

(* Every step does one of the three.                                       *)
LEMMA DatesMove ==
  ASSUME TypeOK, IngestionInv, [Next]_vars, NEW k \in Keys, IsRecord(k)'
  PROVE  \/ /\ IsRecord(k)
            /\ catalog'[k].start = catalog[k].start
            /\ catalog'[k].end = catalog[k].end
         \/ k \in Requests /\ job[k] = "open" /\ InOrder(catalog'[k])
         \/ \E r \in Requests : WritesDates(r, k)
<1>1. CASE Unseen
  BY <1>1 DEF Unseen, IsRecord
<1>2. ASSUME NEW r \in Requests,
             Receive(r) \/ Crash(r) \/ Quiet(r) \/ Opens(r) \/ RunDelete(r)
      PROVE  catalog'[k] = catalog[k]
  BY <1>2 DEF Receive, Crash, services, Quiet, Opens, OpenJob, RunDelete, IsRecord, TypeOK
<1>3. ASSUME NEW r \in Requests, RunIngestion(r), catalog'[k] # catalog[k]
      PROVE  k = r /\ job[k] = "open" /\ InOrder(catalog'[k])
  <2>1. k = r /\ catalog'[k] = IngestedRecord(call[r])
    BY <1>3 DEF RunIngestion, TypeOK
  <2>2. InOrder(call[r])
    BY <1>3, ModelIsInOrder DEF RunIngestion, IngestionInv, Passed
  <2>3. InOrder(catalog'[k])
    BY <2>1, <2>2 DEF InOrder, IngestedRecord
  <2>. QED
    BY <1>3, <2>1, <2>3 DEF RunIngestion
<1>4. ASSUME NEW r \in Requests, Placed(r), Patches(r), call' = call, catalog'[k] # catalog[k]
      PROVE  WritesDates(r, k)
  <2>1. call[r].id = k /\ IsRecord(k) /\ catalog[k] \in Record3D
    BY <1>4 DEF Patches, ApplyPatch, IsRecord, TypeOK
  <2>2. catalog'[k] = Patched(catalog[k], call[r])
    BY <1>4, <2>1 DEF Patches, ApplyPatch, TypeOK
  <2>3. call[r].start \in Dates \cup {Undefined} /\ call[r].end \in Dates \cup {Undefined}
    BY <1>4, StepTellsOp DEF Payloads
  <2>4. /\ catalog'[k].start = Or(call[r].start, catalog[k].start)
        /\ catalog'[k].end = Or(call[r].end, catalog[k].end)
    BY <2>1, <2>2 DEF Patched, Record3D
  <2>. QED
    BY <1>4, <2>1, <2>3, <2>4 DEF WritesDates
<1>5. ASSUME NEW r \in Requests, Marks(r), catalog'[k] # catalog[k]
      PROVE  /\ IsRecord(k)
             /\ catalog'[k].start = catalog[k].start
             /\ catalog'[k].end = catalog[k].end
  <2>1. PICK s \in RecordStatus : ApplyStatus(r, call[r].id, s)
    BY <1>5 DEF Marks, RecordStatus
  <2>2. /\ IsRecord(k) /\ catalog[k] \in Record3D
        /\ catalog'[k] = [catalog[k] EXCEPT !.status = s]
    BY <1>5, <2>1 DEF ApplyStatus, IsRecord, TypeOK
  <2>. QED
    BY <2>2 DEF Record3D
<1>. QED
  BY <1>1, <1>2, <1>3, <1>4, <1>5, StepKinds DEF IsRecord

(* The end, or the start, of the record of r was written by another update *)
(* after r had looked at it.                                               *)
EndReplaced(r) ==
  \E s \in Requests :
    /\ Updated(s, call[r].id) /\ call[s].end = catalog[call[r].id].end
    /\ <<r, s>> \in outdated

StartReplaced(r) ==
  \E s \in Requests :
    /\ Updated(s, call[r].id) /\ call[s].start = catalog[call[r].id].start
    /\ <<r, s>> \in outdated

(* Request r was in order when it was judged: it gives both dates in       *)
(* order, or one that fits the other date of its record, unless that was   *)
(* replaced.                                                               *)
Judged(r) ==
  LET c == call[r]
      record == catalog[c.id]
  IN
  /\ c.start # Undefined /\ c.end # Undefined => c.start <= c.end
  /\ c.start # Undefined /\ c.end = Undefined => c.start <= record.end \/ EndReplaced(r)
  /\ c.start = Undefined /\ c.end # Undefined => record.start <= c.end \/ StartReplaced(r)

UpdatesJudged ==
  \A r \in Requests : Updating(r) =>
    /\ call[r].id \in Requests => job[call[r].id] = "done"
    /\ IsRecord(call[r].id) => Judged(r)

(* Updates r and s have brought the dates of record k out of order, as one *)
(* of them gave a single date, and was judged with what the other replaced.*)
Disorder(r, s, k) ==
  /\ Updated(r, k) /\ call[r].start = catalog[k].start
  /\ Updated(s, k) /\ call[s].end = catalog[k].end
  /\ \/ call[r].end = Undefined /\ <<r, s>> \in outdated
     \/ call[s].start = Undefined /\ <<s, r>> \in outdated

DisorderByTwo ==
  \A k \in Keys : IsRecord(k) =>
    InOrder(catalog[k]) \/ \E r, s \in Requests : Disorder(r, s, k)

DatesInv == DisorderByTwo /\ UpdatesJudged

(* The first catalog is in order, and nobody updates it yet.               *)
LEMMA InitDatesInv == Init => DatesInv
BY CatalogAssumption, MarkerAssumption, StepsOfOps
   DEF Init, DatesInv, DisorderByTwo, InOrder, UpdatesJudged, Updating, IsRecord

(* What an update has written stays written.                               *)
LEMMA UpdatedLasts ==
  ASSUME TypeOK, WritesLast, [Next]_vars, NEW s \in Requests, NEW k, Updated(s, k)
  PROVE  Updated(s, k)' /\ call'[s] = call[s]
BY CallsLast DEF Updated, WritesLast

(* Who writes dates has updated the record, ends, and outdates every other *)
(* update that has looked at it.                                           *)
LEMMA WritingDates ==
  ASSUME TypeOK, NEW r \in Requests, NEW k \in Keys, WritesDates(r, k)
  PROVE  /\ Updated(r, k)'
         /\ Updating(r) /\ ~Updating(r)'
         /\ \A q \in Requests : Updating(q) /\ q # r => <<q, r>> \in outdated'
<1>1. pc[r] = "update.patch" /\ pc'[r] \in {"answered", "crashed"} /\ ApplyPatch(r)
  BY DEF WritesDates, Patches, Goes, TypeOK
<1>2. call'[r].op = "updateMetadata" /\ call'[r].id = k
  BY <1>1, StepTellsOp, StepsOfOps DEF Placed, WritesDates
<1>3. Updating(r) /\ ~Updating(r)'
  BY <1>1, StepsOfOps DEF Updating, Steps
<1>. QED
  BY <1>1, <1>2, <1>3 DEF ApplyPatch, Outdates, LookedUp, Updating, Updated

(* A judgement lasts as long as its request does: a date it rests on stays *)
(* or is replaced by an update that the request has not seen.              *)
LEMMA NextUpdatesJudged ==
  ASSUME TypeOK, DeletionInv, WritesLast, IngestionInv, DatesInv, [Next]_vars
  PROVE  UpdatesJudged'
<1>. SUFFICES ASSUME NEW r \in Requests, Updating(r)'
              PROVE  /\ call'[r].id \in Requests => job'[call'[r].id] = "done"
                     /\ IsRecord(call[r].id)' => Judged(r)'
  BY DEF UpdatesJudged
<1>1. CASE ~Updating(r)
  <2>1. /\ UNCHANGED <<catalog, job, call>>
        /\ call[r].id \in Keys /\ call[r] \in Payloads
        /\ IsRecord(call[r].id)
        /\ isUpdateInOrder(catalog[call[r].id], call[r])
    BY <1>1, UpdatingBegins
  <2>2. call[r].id \in Requests => job[call[r].id] = "done"
    BY <2>1 DEF DeletionInv, IngestedByDoneJob
  <2>3. Judged(r)'
    BY <2>1 DEF Judged, isUpdateInOrder, isDatesValid, Or
  <2>. QED
    BY <2>1, <2>2, <2>3
<1>2. CASE Updating(r)
  <2>1. Placed(r) /\ pc[r] # "idle" /\ call'[r] = call[r]
    <3>1. Placed(r) /\ pc[r] # "idle"
      BY <1>2, StepsOfOps DEF Updating, Placed
    <3>. QED
      BY <3>1, CallsLast
  <2>2. PICK k \in Keys : k = call[r].id
    BY <1>2, <2>1, StepTellsOp, ReadType DEF Updating
  <2>3. k \in Requests => job[k] = "done" /\ job'[k] = "done"
    BY <1>2, <2>2, JobsMove DEF DatesInv, UpdatesJudged
  <2>4. ASSUME IsRecord(k)' PROVE Judged(r)'
    <3>1. IsRecord(k)
      BY <2>3, <2>4, RecordsMove
    <3>2. Judged(r)
      BY <1>2, <2>2, <3>1 DEF DatesInv, UpdatesJudged
    <3>3. CASE catalog'[k].start = catalog[k].start /\ catalog'[k].end = catalog[k].end
      <4>1. EndReplaced(r) => EndReplaced(r)'
        BY <2>1, <2>2, <3>3, UpdatedLasts, OutdatedGrows DEF EndReplaced
      <4>2. StartReplaced(r) => StartReplaced(r)'
        BY <2>1, <2>2, <3>3, UpdatedLasts, OutdatedGrows DEF StartReplaced
      <4>. QED
        BY <2>1, <2>2, <3>2, <3>3, <4>1, <4>2 DEF Judged
    <3>4. ASSUME NEW s \in Requests, WritesDates(s, k) PROVE Judged(r)'
      <4>1. Updated(s, k)' /\ <<r, s>> \in outdated' /\ call' = call
        BY <1>2, <3>4, WritingDates DEF WritesDates
      <4>2. \/ catalog'[k].end = catalog[k].end /\ (EndReplaced(r) => EndReplaced(r)')
            \/ EndReplaced(r)'
        <5>1. CASE call[s].end = Undefined
          <6>1. catalog'[k].end = catalog[k].end
            BY <3>4, <5>1 DEF WritesDates, Or
          <6>. QED
            BY <2>1, <2>2, <6>1, UpdatedLasts, OutdatedGrows DEF EndReplaced
        <5>2. CASE call[s].end # Undefined
          <6>1. catalog'[k].end = call[s].end
            BY <3>4, <5>2 DEF WritesDates, Or
          <6>. QED
            BY <2>1, <2>2, <4>1, <6>1 DEF EndReplaced
        <5>. QED
          BY <5>1, <5>2
      <4>3. \/ catalog'[k].start = catalog[k].start /\ (StartReplaced(r) => StartReplaced(r)')
            \/ StartReplaced(r)'
        <5>1. CASE call[s].start = Undefined
          <6>1. catalog'[k].start = catalog[k].start
            BY <3>4, <5>1 DEF WritesDates, Or
          <6>. QED
            BY <2>1, <2>2, <6>1, UpdatedLasts, OutdatedGrows DEF StartReplaced
        <5>2. CASE call[s].start # Undefined
          <6>1. catalog'[k].start = call[s].start
            BY <3>4, <5>2 DEF WritesDates, Or
          <6>. QED
            BY <2>1, <2>2, <4>1, <6>1 DEF StartReplaced
        <5>. QED
          BY <5>1, <5>2
      <4>. QED
        BY <2>1, <2>2, <3>2, <4>2, <4>3 DEF Judged
    <3>. QED
      BY <2>3, <2>4, <3>3, <3>4, DatesMove
  <2>. QED
    BY <2>1, <2>2, <2>3, <2>4 DEF IsRecord
<1>. QED
  BY <1>1, <1>2

(* An update that brings its record out of order gives one date, and does  *)
(* so with the update that has replaced the other.                         *)
LEMMA WriteDisorders ==
  ASSUME TypeOK, WritesLast, DatesInv, [Next]_vars,
         NEW k \in Keys, NEW r \in Requests, WritesDates(r, k), ~InOrder(catalog'[k])
  PROVE  \/ \E p, s \in Requests : Disorder(p, s, k)'
         \/ /\ catalog'[k].start = catalog[k].start
            /\ catalog'[k].end = catalog[k].end
<1>1. Judged(r) /\ Updated(r, k)' /\ call' = call /\ call[r].id = k
  BY WritingDates DEF WritesDates, DatesInv, UpdatesJudged
<1>2. CASE call[r].start # Undefined /\ call[r].end # Undefined
  BY <1>1, <1>2 DEF Judged, WritesDates, Or, InOrder
<1>3. CASE call[r].start # Undefined /\ call[r].end = Undefined
  <2>1. catalog'[k].start = call[r].start /\ catalog'[k].end = catalog[k].end
    BY <1>3 DEF WritesDates, Or
  <2>2. EndReplaced(r)
    BY <1>1, <1>3, <2>1 DEF Judged, InOrder
  <2>. QED
    BY <1>1, <1>3, <2>1, <2>2, UpdatedLasts, OutdatedGrows DEF EndReplaced, Disorder
<1>4. CASE call[r].start = Undefined /\ call[r].end # Undefined
  <2>1. catalog'[k].end = call[r].end /\ catalog'[k].start = catalog[k].start
    BY <1>4 DEF WritesDates, Or
  <2>2. StartReplaced(r)
    BY <1>1, <1>4, <2>1 DEF Judged, InOrder
  <2>. QED
    BY <1>1, <1>4, <2>1, <2>2, UpdatedLasts, OutdatedGrows DEF StartReplaced, Disorder
<1>5. CASE call[r].start = Undefined /\ call[r].end = Undefined
  BY <1>5 DEF WritesDates, Or
<1>. QED
  BY <1>2, <1>3, <1>4, <1>5

(* Nothing but two updates brings dates out of order.                      *)
LEMMA NextDisorderByTwo ==
  ASSUME TypeOK, WritesLast, IngestionInv, DatesInv, [Next]_vars
  PROVE  DisorderByTwo'
<1>. SUFFICES ASSUME NEW k \in Keys, IsRecord(k)', ~InOrder(catalog'[k])
              PROVE  \E r, s \in Requests : Disorder(r, s, k)'
  BY DEF DisorderByTwo, InOrder
<1>1. ASSUME IsRecord(k), catalog'[k].start = catalog[k].start, catalog'[k].end = catalog[k].end
      PROVE  \E r, s \in Requests : Disorder(r, s, k)'
  <2>1. PICK r, s \in Requests : Disorder(r, s, k)
    BY <1>1 DEF DatesInv, DisorderByTwo, InOrder
  <2>2. Disorder(r, s, k)'
    BY <1>1, <2>1, UpdatedLasts, OutdatedGrows DEF Disorder
  <2>. QED
    BY <2>2
<1>2. ASSUME NEW r \in Requests, WritesDates(r, k)
      PROVE  \E p, s \in Requests : Disorder(p, s, k)'
  BY <1>1, <1>2, WriteDisorders DEF WritesDates
<1>. QED
  BY <1>1, <1>2, DatesMove

(* By induction.                                                           *)
LEMMA DatesInvariant == Spec => []DatesInv
<1>1. TypeOK /\ DeletionInv /\ WritesLast /\ IngestionInv /\ DatesInv /\ [Next]_vars => DatesInv'
  BY NextUpdatesJudged, NextDisorderByTwo DEF DatesInv
<1>. QED
  BY <1>1, InitDatesInv, TypeCorrect, DeletionInvariant, RequestsWriteLast,
     IngestionInvariant, PTL DEF Spec

(* Under any interleaving and with every fault, dates are out of order     *)
(* only by two updates, one of which was judged before the other reached   *)
(* the catalog and written after it.                                       *)
THEOREM DisordersExplained == Spec => []DisorderExplained
<1>1. ASSUME TypeOK, DatesInv, NEW k \in Keys, IsRecord(k), catalog[k].start > catalog[k].end
      PROVE  \E r, s \in Requests :
               /\ Updated(r, k) /\ call[r].start = catalog[k].start
               /\ Updated(s, k) /\ call[s].end = catalog[k].end
               /\ Overlapped(r, s)
  <2>1. catalog[k].start \in Nat /\ catalog[k].end \in Nat
    BY <1>1, DomainAssumption DEF TypeOK, IsRecord, Record3D
  <2>2. ~InOrder(catalog[k])
    BY <1>1, <2>1 DEF InOrder
  <2>3. PICK r, s \in Requests : Disorder(r, s, k)
    BY <1>1, <2>2 DEF DatesInv, DisorderByTwo
  <2>. QED
    BY <2>3 DEF Disorder, Overlapped
<1>2. TypeOK /\ DatesInv => DisorderExplained
  BY <1>1 DEF DisorderExplained
<1>. QED
  BY <1>2, TypeCorrect, DatesInvariant, PTL
(* Clients whose updates give both dates or neither.                       *)
WholeDates ==
  \A c \in Calls : c.op = "updateMetadata" => (c.start = Undefined <=> c.end = Undefined)

WholeUpdates ==
  \A r \in Requests :
    pc[r] # "idle" /\ call[r].op = "updateMetadata" =>
      (call[r].start = Undefined <=> call[r].end = Undefined)

(* The controllers pass the dates on as they are given.                    *)
LEMMA UpdatesStayWhole ==
  ASSUME WholeDates, TypeOK, WholeUpdates, [Next]_vars
  PROVE  WholeUpdates'
<1>. SUFFICES ASSUME NEW r \in Requests, pc'[r] # "idle", call'[r].op = "updateMetadata"
              PROVE  call'[r].start = Undefined <=> call'[r].end = Undefined
  BY DEF WholeUpdates
<1>1. CASE pc[r] = "idle"
  <2>1. PICK c \in Calls : call'[r] = Controller(c)
    BY <1>1, CallsArrive
  <2>. QED
    BY <2>1, ControllerKeeps, CallAssumption DEF WholeDates
<1>2. CASE pc[r] # "idle"
  BY <1>2, CallsLast DEF WholeUpdates
<1>. QED
  BY <1>1, <1>2

(* If updates give both dates or neither, no interleaving, failure or late *)
(* call leaves a record whose sourceDateStart is after its sourceDateEnd:  *)
(* the dates of two updates are never mixed.                               *)
THEOREM WholeDatesStayInOrder == WholeDates => (Spec => []DatesOrdered)
<1>1. SUFFICES ASSUME WholeDates PROVE Spec => []DatesOrdered
  OBVIOUS
<1>2. Init => WholeUpdates
  BY DEF Init, WholeUpdates
<1>3. TypeOK /\ WholeUpdates /\ [Next]_vars => WholeUpdates'
  BY <1>1, UpdatesStayWhole
<1>4. ASSUME TypeOK, WritesLast, WholeUpdates, NEW k \in Keys, IsRecord(k),
             NEW r \in Requests, NEW s \in Requests, Disorder(r, s, k)
      PROVE  FALSE
  <2>1. catalog[k].start # Undefined /\ catalog[k].end # Undefined
    BY <1>4, MarkerAssumption DEF TypeOK, IsRecord, Record3D
  <2>2. pc[r] # "idle" /\ pc[s] # "idle"
    BY <1>4 DEF Disorder, Updated, WritesLast
  <2>. QED
    BY <1>4, <2>1, <2>2 DEF Disorder, Updated, WholeUpdates
<1>5. TypeOK /\ WritesLast /\ DatesInv /\ WholeUpdates => DatesOrdered
  BY <1>4 DEF DatesInv, DisorderByTwo, InOrder, DatesOrdered
<1>. QED
  BY <1>2, <1>3, <1>5, TypeCorrect, RequestsWriteLast, DatesInvariant, PTL DEF Spec

-----------------------------------------------------------------------------
(* Names.                                                                  *)

(* Request r has looked for the name of its record, and may still use it.  *)
Sought(r) == Renaming(r) \/ (Passed(r, AfterName) /\ job[r] # "done")
Target(r) == IF call[r].op = "createModel" THEN r ELSE call[r].id

(* Record k was given its name after r had looked.                         *)
TakenSince(r, k) == \E s \in Requests : Named(s, k) /\ <<r, s>> \in outdated

SoughtWasFree ==
  \A r \in Requests : Sought(r) =>
    \A k \in Keys :
      IsRecord(k) /\ k # Target(r) /\ catalog[k].name = call[r].name => TakenSince(r, k)

Clash(j, k) ==
  \E r, s \in Requests : Named(r, j) /\ Named(s, k) /\ Overlapped(r, s)

ClashByTwo ==
  \A j, k \in Keys :
    IsRecord(j) /\ IsRecord(k) /\ j # k /\ catalog[j].name = catalog[k].name => Clash(j, k)

NamesInv == SimpleNames /\ SoughtWasFree /\ ClashByTwo

(* No two records of the first catalog have the same name, and none has    *)
(* stray spaces in it.                                                     *)
FirstNames ==
  \A cat \in InitialCatalogs : \A i, j \in Ids :
    cat[i] # NoRecord /\ cat[j] # NoRecord =>
      /\ Simplified[cat[i].name] = cat[i].name
      /\ cat[i].name = cat[j].name => i = j

(* The first catalog is as assumed, and nobody has looked for a name yet.  *)
LEMMA InitNamesInv == FirstNames /\ Init => NamesInv
<1>. SUFFICES ASSUME FirstNames, Init PROVE NamesInv
  OBVIOUS
<1>1. PICK cat \in InitialCatalogs :
        catalog = [k \in Keys |-> IF k \in Ids THEN cat[k] ELSE NoRecord]
  BY DEF Init
<1>2. SimpleNames /\ ClashByTwo
  BY <1>1 DEF FirstNames, Init, SimpleNames, ClashByTwo, IsRecord
<1>3. SoughtWasFree
  BY DEF Init, SoughtWasFree, Sought, Passed, AfterName, Renaming
<1>. QED
  BY <1>2, <1>3 DEF NamesInv

(* Who gave a record its name did so for as long as the record keeps it.   *)
LEMMA NamedLasts ==
  ASSUME TypeOK, DeletionInv, WritesLast, [Next]_vars,
         NEW s \in Requests, NEW k \in Keys, Named(s, k), catalog'[k].name = catalog[k].name
  PROVE  Named(s, k)'
<1>1. CASE Updated(s, k)
  BY <1>1, UpdatedLasts DEF Named
<1>2. CASE s = k /\ job[s] = "done" /\ call[s].op = "createModel"
  BY <1>2, JobsMove, JobIsOfCall, CallsLast DEF Named
<1>. QED
  BY <1>1, <1>2 DEF Named

(* A record keeps its name, or gets it from a request that has looked for  *)
(* it, and that outdates every other look.                                 *)
Gives(q, k) ==
  /\ Sought(q) /\ Target(q) = k
  /\ Named(q, k)'
  /\ call' = call /\ catalog'[k].name = call[q].name
  /\ \A j \in Keys : j # k => catalog'[j] = catalog[j]
  /\ \A r \in Requests : Sought(r) /\ r # q => <<r, q>> \in outdated'

(* Whoever may still use a name is among those who have looked.            *)
LEMMA SoughtLookedUp ==
  ASSUME TypeOK, NEW r \in Requests, Sought(r)
  PROVE  r \in LookedUp /\ pc[r] # "idle"
<1>1. CASE Renaming(r)
  BY <1>1, StepsOfOps DEF Renaming, LookedUp
<1>2. CASE Passed(r, AfterName) /\ job[r] # "done"
  BY <1>2, JobIsOfCall DEF Passed, AfterName, LookedUp, TypeOK
<1>. QED
  BY <1>1, <1>2 DEF Sought

(* Every step does one of the two.                                         *)
LEMMA NameIsGiven ==
  ASSUME TypeOK, [Next]_vars, NEW k \in Keys, IsRecord(k)'
  PROVE  \/ IsRecord(k) /\ catalog'[k].name = catalog[k].name
         \/ \E q \in Requests : Gives(q, k)
<1>1. CASE KeepsNames
  BY <1>1 DEF KeepsNames
<1>2. ASSUME NEW q \in Requests, RunIngestion(q), k = q
      PROVE  Gives(q, k)
  <2>1. Sought(q) /\ Target(q) = k
    BY <1>2 DEF RunIngestion, Sought, Passed, Target
  <2>2. Named(q, k)'
    BY <1>2, IngestionNames DEF RunIngestion, Named, TypeOK
  <2>3. \A r \in Requests : Sought(r) /\ r # q => <<r, q>> \in outdated'
    BY <1>2, SoughtLookedUp DEF RunIngestion, Outdates
  <2>. QED
    BY <1>2, <2>1, <2>2, <2>3, IngestionNames DEF Gives, RunIngestion
<1>3. ASSUME NEW q \in Requests, Placed(q), Patches(q), call' = call,
             call[q].name # Undefined, k = call[q].id
      PROVE  Gives(q, k)
  <2>1. Sought(q) /\ Target(q) = k
    BY <1>3, PatchRenames DEF Sought, Target
  <2>2. Named(q, k)'
    BY <1>3, PatchRenames DEF Patches, ApplyPatch, Named, Updated
  <2>3. \A r \in Requests : Sought(r) /\ r # q => <<r, q>> \in outdated'
    BY <1>3, SoughtLookedUp DEF Patches, ApplyPatch, Outdates
  <2>. QED
    BY <1>3, <2>1, <2>2, <2>3, PatchRenames DEF Gives
<1>4. ASSUME NEW q \in Requests, RunIngestion(q), k # q
      PROVE  catalog'[k] = catalog[k]
  BY <1>4, IngestionNames
<1>5. ASSUME NEW q \in Requests, Placed(q), Patches(q), call[q].name # Undefined, k # call[q].id
      PROVE  catalog'[k] = catalog[k]
  BY <1>5, PatchRenames
<1>. QED
  BY <1>1, <1>2, <1>3, <1>4, <1>5, NamesMove DEF IsRecord

(* A name that was free when it was looked up is free, or another request  *)
(* has used it since.                                                      *)
LEMMA NextSoughtWasFree ==
  ASSUME TypeOK, DeletionInv, AnswerInv, WritesLast, NamesInv, [Next]_vars
  PROVE  SoughtWasFree'
<1>. SUFFICES ASSUME NEW r \in Requests, Sought(r)', NEW k \in Keys, IsRecord(k)',
                     k # Target(r)', catalog'[k].name = call'[r].name
              PROVE  TakenSince(r, k)'
  BY DEF SoughtWasFree
<1>1. CASE ~Sought(r)
  <2>1. CASE Renaming(r)'
    BY <1>1, <2>1, RenamingBegins
       DEF Sought, Target, isNameTaken, findRecords, IsRecord
  <2>2. CASE Passed(r, AfterName)' /\ job'[r] # "done"
    <3>1. job[r] # "done"
      BY <2>2, JobsMove
    <3>2. ~Passed(r, AfterName)
      BY <1>1, <3>1 DEF Sought
    <3>. QED
      BY <2>2, <3>2, NameIsPassed DEF findRecords, IsRecord
  <2>. QED
    BY <2>1, <2>2 DEF Sought
<1>2. CASE Sought(r)
  <2>1. call'[r] = call[r]
    BY <1>2, SoughtLookedUp, CallsLast
  <2>2. CASE IsRecord(k) /\ catalog'[k].name = catalog[k].name
    <3>1. PICK s \in Requests : Named(s, k) /\ <<r, s>> \in outdated
      BY <1>2, <2>1, <2>2 DEF NamesInv, SoughtWasFree, TakenSince, Target
    <3>. QED
      BY <2>2, <3>1, NamedLasts, OutdatedGrows DEF TakenSince
  <2>3. ASSUME NEW q \in Requests, Gives(q, k) PROVE TakenSince(r, k)'
    BY <1>2, <2>1, <2>3 DEF Gives, Target, TakenSince
  <2>. QED
    BY <2>2, <2>3, NameIsGiven
<1>. QED
  BY <1>1, <1>2

(* A name is used twice only after it was looked for twice.                *)
LEMMA NextClashByTwo ==
  ASSUME TypeOK, DeletionInv, WritesLast, NamesInv, [Next]_vars
  PROVE  ClashByTwo'
<1>1. ASSUME NEW j \in Keys, NEW k \in Keys, IsRecord(j)', IsRecord(k)', j # k,
             catalog'[j].name = catalog'[k].name, NEW q \in Requests, Gives(q, k)
      PROVE  Clash(j, k)' /\ Clash(k, j)'
  <2>1. IsRecord(j) /\ catalog'[j] = catalog[j] /\ catalog[j].name = call[q].name
    BY <1>1 DEF Gives, IsRecord
  <2>2. PICK s \in Requests : Named(s, j) /\ <<q, s>> \in outdated
    BY <1>1, <2>1 DEF Gives, NamesInv, SoughtWasFree, TakenSince
  <2>3. Named(s, j)' /\ <<q, s>> \in outdated'
    BY <2>1, <2>2, NamedLasts, OutdatedGrows
  <2>. QED
    BY <1>1, <2>3 DEF Gives, Clash, Overlapped
<1>2. ASSUME NEW j \in Keys, NEW k \in Keys, IsRecord(j), IsRecord(k), j # k,
             catalog'[j].name = catalog[j].name, catalog'[k].name = catalog[k].name,
             catalog'[j].name = catalog'[k].name
      PROVE  Clash(j, k)'
  <2>1. PICK r, s \in Requests : Named(r, j) /\ Named(s, k) /\ Overlapped(r, s)
    BY <1>2 DEF NamesInv, ClashByTwo, Clash
  <2>. QED
    BY <1>2, <2>1, NamedLasts, OutdatedGrows DEF Clash, Overlapped
<1>. QED
  BY <1>1, <1>2, NameIsGiven DEF ClashByTwo

(* By induction.                                                           *)
LEMMA NamesInvariant == FirstNames => (Spec => []NamesInv)
<1>1. SUFFICES ASSUME FirstNames PROVE Spec => []NamesInv
  OBVIOUS
<1>2. Init => NamesInv
  BY <1>1, InitNamesInv
<1>3. TypeOK /\ DeletionInv /\ AnswerInv /\ WritesLast /\ NamesInv /\ [Next]_vars => NamesInv'
  BY NextSimpleNames, NextSoughtWasFree, NextClashByTwo DEF NamesInv
<1>. QED
  BY <1>2, <1>3, TypeCorrect, DeletionInvariant, AnswersStayTrue, RequestsWriteLast, PTL DEF Spec

(* Under any interleaving and with every fault, two records have the same  *)
(* product name only by two requests, one of which looked for the name     *)
(* before the other used it and used it after that, as long as the first   *)
(* catalog has no two records of one name, nor a name with stray spaces.   *)
THEOREM ClashesExplained == FirstNames => (Spec => []ClashExplained)
<1>1. SUFFICES ASSUME FirstNames PROVE Spec => []ClashExplained
  OBVIOUS
<1>2. NamesInv => ClashExplained
  BY DEF NamesInv, SimpleNames, ClashByTwo, Clash, ClashExplained
<1>3. Spec => []NamesInv
  BY <1>1, NamesInvariant
<1>. QED
  BY <1>2, <1>3, PTL
-----------------------------------------------------------------------------
(* Locks.                                                                  *)

(* Whoever is about to ask for a record that is there knows its name, and  *)
(* whoever is about to write it has found that name free, and still would: *)
(* unless the request is misled.                                           *)
LockInv ==
  \A r \in Requests : AsksForLock(r) \/ MayWrite(r) =>
    /\ call[r].id \in Requests => job[call[r].id] = "done"
    /\ IsRecord(call[r].id) /\ r \notin misled =>
         IF AsksForLock(r)
         THEN seen[r] = catalog[call[r].id].name
         ELSE catalog[call[r].id].name \notin locked

(* Nobody asks at the start.                                               *)
LEMMA InitLockInv == Init => LockInv
BY DEF Init, LockInv, AsksForLock, MayWrite

(* Whoever asks or may write is served, and about a record.                *)
LEMMA LockingIsServed ==
  ASSUME TypeOK, NEW r \in Requests, AsksForLock(r) \/ MayWrite(r)
  PROVE  Placed(r) /\ pc[r] # "idle" /\ call[r].id \in Keys
<1>1. Placed(r) /\ pc[r] \in Steps["updateMetadata"] \cup Steps["updateStatus"]
  BY StepsOfOps DEF AsksForLock, MayWrite, Placed
<1>. QED
  BY <1>1, StepTellsOp, ReadType DEF Placed

(* How a handler comes to ask, and to write: it reads the record before it *)
(* asks, and asks before it writes.                                        *)
LEMMA LockingMoves ==
  ASSUME TypeOK, ExtractableEnabled, NEW r \in Requests, Handle(r),
         AsksForLock(r)' \/ MayWrite(r)'
  PROVE  /\ UNCHANGED <<catalog, job, locked, call>>
         /\ \/ /\ AsksForLock(r)'
               /\ IsRecord(call[r].id)
               /\ seen'[r] = catalog[call[r].id].name
            \/ /\ AsksForLock(r)
               /\ MayWrite(r)'
               /\ seen[r] \notin locked
<1>1. HandlerStep(r) /\ r \notin late /\ UNCHANGED late
  BY MetadataStepIsHandlerStep, ModelManagerStepIsHandlerStep DEF Handle
<1>2. pc'[r] \in {"update.lock", "status.lock", "update.patch", "status.change"}
  BY DEF AsksForLock, MayWrite
<1>3. pc'[r] \in Steps[call[r].op]
  BY <1>1, <1>2 DEF HandlerStep, Moves, Await, Respond, TypeOK
<1>4. pc[r] \in Steps["updateMetadata"] \cup Steps["updateStatus"]
  BY <1>1, <1>2, <1>3, StepTellsOp, StepsOfOps DEF HandlerStep, Ops, IngestionSteps
<1>5. MetadataStep(r)
  BY <1>4, StepsOfOps
     DEF Handle, ModelManagerStep, CheckModelPath, CheckTileset, ReadTileset, CheckProductId,
         CheckProductName, CheckClassification, StartIngestion, DeleteFindRecord,
         StartDeleteJob, MarkBeingDeleted, CanDelete
<1>6. CASE UpdateGetRecord(r) \/ UpdateGetFile(r) \/ UpdateGetClassifications(r) \/ UpdateFindName(r)
  BY <1>2, <1>6
     DEF UpdateGetRecord, UpdateGetFile, UpdateGetClassifications, UpdateFindName, AfterGet,
         AfterFile, AfterClass, CallFails, Await, Respond, TypeOK
<1>7. CASE UpdateReadAgain(r)
  BY <1>2, <1>7
     DEF UpdateReadAgain, NotFoundIsRejected, getRecord, CallFails, Await, Respond, TypeOK,
         services, AsksForLock, IsRecord
<1>8. CASE UpdateCheckLock(r)
  BY <1>2, <1>8
     DEF UpdateCheckLock, isRecordAbsentFromExtractable, isExtractableRecordExists, CallFails,
         Await, Respond, TypeOK, services, AsksForLock, MayWrite
<1>9. CASE StatusGetRecord(r)
  BY <1>2, <1>9
     DEF StatusGetRecord, NotFoundIsRejected, isUpdatable, getRecord, AfterStatusCheck,
         CallFails, Await, Respond, TypeOK, services, AsksForLock, IsRecord
<1>10. CASE StatusCheckLock(r)
  BY <1>2, <1>10
     DEF StatusCheckLock, isRecordAbsentFromExtractable, isExtractableRecordExists, CallFails,
         Await, Respond, TypeOK, services, AsksForLock, MayWrite
<1>11. CASE UpdatePatch(r) \/ StatusChange(r)
  BY <1>2, <1>11 DEF UpdatePatch, StatusChange, NotFoundIsRejected, CallFails, Respond, TypeOK
<1>. QED
  BY <1>5, <1>6, <1>7, <1>8, <1>9, <1>10, <1>11 DEF MetadataStep

(* A step of the services or of another handler takes a name, or changes   *)
(* that of a record, only by misleading those who rest on it, and who is   *)
(* misled stays so.                                                        *)
LEMMA NamesMislead ==
  ASSUME TypeOK, DeletionInv, [Next]_vars, NEW r \in Requests, AsksForLock(r) \/ MayWrite(r),
         pc'[r] = pc[r], NEW k \in Keys, call[r].id = k, k \in Requests => job[k] = "done",
         IsRecord(k)', r \notin misled'
  PROVE  /\ IsRecord(k)
         /\ r \notin misled
         /\ catalog'[k].name = catalog[k].name
         /\ MayWrite(r) /\ catalog[k].name \notin locked => catalog[k].name \notin locked'
<1>1. IsRecord(k)
  BY RecordsMove
<1>2. ASSUME NEW q \in Requests,
             \/ Receive(q) \/ Crash(q) \/ Abandon(q) \/ Quiet(q) \/ Opens(q) \/ RunDelete(q)
      PROVE  misled' = misled /\ catalog'[k] \in {catalog[k], NoRecord}
  BY <1>2 DEF Receive, Crash, Abandon, Quiet, Opens, OpenJob, RunDelete, services, history, TypeOK
<1>3. ASSUME NEW q \in Requests, RunIngestion(q)
      PROVE  misled' = misled /\ catalog'[k] = catalog[k]
  BY <1>3 DEF RunIngestion, TypeOK
<1>4. ASSUME NEW q \in Requests, Marks(q)
      PROVE  misled' = misled /\ catalog'[k].name = catalog[k].name
  BY <1>1, <1>4 DEF Marks, ApplyStatus, TypeOK, Record3D, IsRecord
<1>5. ASSUME NEW q \in Requests, Patches(q)
      PROVE  misled \subseteq misled' /\ catalog'[k].name = catalog[k].name
  <2>1. q # r
    BY <1>5 DEF Patches, Goes, TypeOK
  <2>2. CASE call[q].id = k
    BY <1>5, <2>1, <2>2 DEF Patches, ApplyPatch, RestOnName, TypeOK
  <2>3. CASE call[q].id # k
    BY <1>5, <2>3 DEF Patches, ApplyPatch, TypeOK
  <2>. QED
    BY <1>5, <2>2, <2>3 DEF Patches, ApplyPatch
<1>6. ASSUME NEW q \in Requests, Handle(q) \/ Deliver(q)
      PROVE  Quiet(q) \/ Patches(q) \/ Marks(q) \/ Opens(q)
  BY <1>6, HandleKinds, DeliverKinds
<1>7. CASE \E n \in Lockable : ToggleLock(n)
  <2>1. PICK n \in Lockable : TakeName(n) \/ FreeName(n)
    BY <1>7 DEF ToggleLock
  <2>2. misled \subseteq misled' /\ catalog' = catalog
    BY <1>7, <2>1 DEF ToggleLock, TakeName, FreeName
  <2>3. MayWrite(r) /\ catalog[k].name = n => n \notin locked' \/ n \in locked
    BY <1>1, <2>1 DEF TakeName, FreeName, RestOnFree, IsRecord
  <2>4. locked' \subseteq locked \cup {n}
    BY <2>1 DEF TakeName, FreeName
  <2>. QED
    BY <1>1, <2>2, <2>3, <2>4
<1>8. ~(\E n \in Lockable : ToggleLock(n)) => locked' = locked
  <2>1. ASSUME NEW q \in Requests, Handle(q) \/ Deliver(q) PROVE locked' = locked
    BY <2>1, MetadataStepIsHandlerStep, ModelManagerStepIsHandlerStep, DeliverTyped
       DEF Handle, HandlerStep, ServicesStayTyped
  <2>. QED
    BY <2>1 DEF Next, Receive, Crash, Abandon, RunJob, RunIngestion, RunDelete, Rest, services, vars
<1>9. CASE Rest \/ UNCHANGED vars
  BY <1>1, <1>9 DEF Rest, vars
<1>. QED
  BY <1>1, <1>2, <1>3, <1>4, <1>5, <1>6, <1>7, <1>8, <1>9 DEF Next, RunJob, IsRecord

(* The name a handler holds is its own.                                    *)
LEMMA NameIsHeld ==
  ASSUME TypeOK, [Next]_vars, NEW r \in Requests, AsksForLock(r), ~Handle(r), pc'[r] = pc[r]
  PROVE  seen'[r] = seen[r]
<1>1. ASSUME NEW q \in Requests, Receive(q) \/ Deliver(q) \/ RunJob(q)
      PROVE  seen' = seen
  BY <1>1 DEF Receive, Deliver, RunJob, RunIngestion, RunDelete
<1>2. ASSUME NEW q \in Requests, Crash(q) \/ Abandon(q)
      PROVE  seen'[r] = seen[r]
  BY <1>2 DEF Crash, Abandon, AsksForLock, Effects, TypeOK
<1>3. ASSUME NEW q \in Requests, Handle(q)
      PROVE  seen'[r] = seen[r]
  <2>1. HandlerStep(q)
    BY <1>3, MetadataStepIsHandlerStep, ModelManagerStepIsHandlerStep DEF Handle
  <2>2. q # r
    BY <1>3
  <2>. QED
    BY <2>1, <2>2 DEF HandlerStep, Moves, Respond, TypeOK
<1>. QED
  BY <1>1, <1>2, <1>3 DEF Next, ToggleLock, Rest, vars

(* The handler keeps the name of its record, and the name stays free.      *)
LEMMA NextLockInv ==
  ASSUME TypeOK, DeletionInv, ExtractableEnabled, LockInv, [Next]_vars
  PROVE  LockInv'
<1>. SUFFICES ASSUME NEW r \in Requests, AsksForLock(r)' \/ MayWrite(r)'
              PROVE  /\ call'[r].id \in Requests => job'[call'[r].id] = "done"
                     /\ IsRecord(call[r].id)' /\ r \notin misled' =>
                          IF AsksForLock(r)'
                          THEN seen'[r] = catalog'[call'[r].id].name
                          ELSE catalog'[call'[r].id].name \notin locked'
  BY DEF LockInv
<1>1. CASE Handle(r)
  <2>1. UNCHANGED <<catalog, job, locked, call>>
    BY <1>1, LockingMoves
  <2>2. CASE AsksForLock(r)' /\ IsRecord(call[r].id) /\ seen'[r] = catalog[call[r].id].name
    BY <2>1, <2>2 DEF DeletionInv, IngestedByDoneJob
  <2>3. CASE AsksForLock(r) /\ MayWrite(r)' /\ seen[r] \notin locked
    <3>1. ~AsksForLock(r)'
      BY <2>3 DEF AsksForLock, MayWrite
    <3>2. misled' = misled
      <4>1. Quiet(r) \/ Patches(r) \/ Marks(r) \/ Opens(r)
        BY <1>1, HandleKinds
      <4>. QED
        BY <2>3, <4>1 DEF Quiet, Patches, Marks, Opens, OpenJob, history, AsksForLock
    <3>. QED
      BY <2>1, <2>3, <3>1, <3>2 DEF LockInv, IsRecord
  <2>. QED
    BY <1>1, <2>2, <2>3, LockingMoves
<1>2. CASE ~Handle(r)
  <2>1. pc'[r] \notin {"idle", "answered", "crashed"}
    BY DEF AsksForLock, MayWrite
  <2>2. pc'[r] = pc[r]
    <3>1. CASE pc[r] = "idle"
      <4>1. Receive(r)
        BY <2>1, <3>1, <1>2, StepTaken
      <4>2. PICK c \in Calls : pc' = [pc EXCEPT ![r] = FirstStep[c.op]]
        BY <4>1 DEF Receive, Await
      <4>3. FirstStep[c.op] \notin {"update.lock", "status.lock", "update.patch", "status.change"}
        BY CallAssumption DEF Payloads, Ops, FirstStep
      <4>. QED
        BY <4>2, <4>3 DEF AsksForLock, MayWrite, TypeOK
    <3>2. CASE pc[r] # "idle"
      BY <1>2, <2>1, <3>2, StepTaken
    <3>. QED
      BY <3>1, <3>2
  <2>3. Placed(r) /\ pc[r] # "idle" /\ call[r].id \in Keys
        /\ (AsksForLock(r)' <=> AsksForLock(r)) /\ (MayWrite(r)' <=> MayWrite(r))
    BY <2>2, LockingIsServed DEF AsksForLock, MayWrite
  <2>4. call'[r] = call[r]
    BY <2>3, CallsLast
  <2>5. call[r].id \in Requests => job[call[r].id] = "done" /\ job'[call[r].id] = "done"
    BY <2>3, JobsMove DEF LockInv
  <2>6. AsksForLock(r) => seen'[r] = seen[r]
    BY <1>2, <2>2, <2>3, NameIsHeld
  <2>7. PICK k \in Keys : k = call[r].id
    BY <2>3
  <2>8. IsRecord(k)' /\ r \notin misled' =>
          /\ IsRecord(k) /\ r \notin misled
          /\ catalog'[k].name = catalog[k].name
          /\ MayWrite(r) /\ catalog[k].name \notin locked => catalog[k].name \notin locked'
    BY <2>2, <2>3, <2>5, <2>7, NamesMislead
  <2>9. ~AsksForLock(r) => MayWrite(r)
    BY <2>3
  <2>. QED
    BY <2>3, <2>4, <2>5, <2>6, <2>7, <2>8, <2>9 DEF LockInv, IsRecord
<1>. QED
  BY <1>1, <1>2

(* By induction.                                                           *)
LEMMA LockInvariant == ExtractableEnabled => (Spec => []LockInv)
<1>1. SUFFICES ASSUME ExtractableEnabled PROVE Spec => []LockInv
  OBVIOUS
<1>2. TypeOK /\ DeletionInv /\ LockInv /\ [Next]_vars => LockInv'
  BY <1>1, NextLockInv
<1>. QED
  BY <1>2, InitLockInv, TypeCorrect, DeletionInvariant, PTL DEF Spec

(* Under any interleaving and with every fault, and whenever the service   *)
(* takes names, the metadata and the status of a record whose name is held *)
(* are written only by a request that was misled, or by a deletion: the    *)
(* name that a handler asks about is that of the record it writes.         *)
THEOREM LockedWritesExplained == ExtractableEnabled => (Spec => LockedWriteExplained)
<1>1. SUFFICES ASSUME ExtractableEnabled PROVE Spec => LockedWriteExplained
  OBVIOUS
<1>2. ASSUME TypeOK, DeletionInv, WritesLast, LockInv, [Next]_vars, NEW k \in Keys, IsRecord(k),
             catalog[k].name \in locked, catalog'[k] \notin {catalog[k], NoRecord}
      PROVE  \E r \in wrote' \ wrote :
               call[r].id = k /\ (call[r].op = "deleteModel" \/ r \in misled)
  <2>1. PICK r \in Requests :
          (Patches(r) \/ Marks(r)) /\ call[r].id = k /\ r \in wrote' \ wrote
    BY <1>2, Rewriters
  <2>2. CASE MayWrite(r)
    <3>1. ~AsksForLock(r)
      BY <2>2 DEF MayWrite, AsksForLock
    <3>. QED
      BY <1>2, <2>1, <2>2, <3>1 DEF LockInv
  <2>3. CASE ~MayWrite(r)
    <3>1. Placed(r) /\ pc[r] = "delete.mark"
      BY <2>1, <2>3 DEF Marks, Patches, MayWrite, Placed
    <3>. QED
      BY <1>2, <2>1, <3>1, StepTellsOp, StepsOfOps DEF Ops, IngestionSteps
  <2>. QED
    BY <2>2, <2>3
<1>3. TypeOK /\ DeletionInv /\ WritesLast /\ LockInv /\ [Next]_vars =>
        [\A k \in Keys :
           /\ IsRecord(k)
           /\ catalog[k].name \in locked
           /\ catalog'[k] \notin {catalog[k], NoRecord}
           => \E r \in wrote' \ wrote :
                /\ call[r].id = k
                /\ call[r].op = "deleteModel" \/ r \in misled]_vars
  BY <1>2
<1>. QED
  BY <1>1, <1>3, LockInvariant, RequestsWriteLast, TypeCorrect, DeletionInvariant, PTL
     DEF Spec, LockedWriteExplained
================================================================================
