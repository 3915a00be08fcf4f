----------------------------- MODULE ModelManager -----------------------------
(***************************************************************************)
(* The handlers of src/src/model: POST /models, POST /models/validate,     *)
(* DELETE /models/{recordId} and GET /models/canDelete/{recordId}.         *)
(***************************************************************************)
EXTENDS ValidationManager

(***************************************************************************)
(* createModel and validate share validateModelForIngestion; they differ   *)
(* in what they make of its result.                                        *)
(***************************************************************************)
ModelRefused(r) ==
  Respond(r, IF call[r].op = "createModel" THEN "BadRequest" ELSE "Invalid")

ModelAccepted(r) ==
  IF call[r].op = "createModel"
  THEN Await(r, "create.ingest") /\ UNCHANGED seen
  ELSE Respond(r, "Valid")

ModelStep(r, step) == Await(r, step) /\ UNCHANGED seen

(***************************************************************************)
(* The files of a model live on a volume that others write to: each look   *)
(* at it may find what it wants or not, whatever the look before found.  A *)
(* failing access() is a path that does not exist.                         *)
(***************************************************************************)
CheckModelPath(r) ==
  /\ pc[r] = "create.path"
  /\ ModelStep(r, "create.tileset") \/ ModelRefused(r)
  /\ UNCHANGED <<services, history, call>>

CheckTileset(r) ==
  /\ pc[r] = "create.tileset"
  /\ ModelStep(r, "create.read") \/ ModelRefused(r)
  /\ UNCHANGED <<services, history, call>>

(***************************************************************************)
(* readFile, which throws when the file is gone; then everything that is   *)
(* decided without another call, and the first of the calls that remain.   *)
(***************************************************************************)
(* Mutant: the product is not asked about.                                 *)
AfterRead_NoProduct(c) == "create.name"

AfterRead(c) ==
  IF c.product # Undefined THEN "create.product" ELSE "create.name"

ReadTileset(r) ==
  LET c == call[r] IN
  /\ pc[r] = "create.read"
  /\ \/ ModelRefused(r)
     \/ Respond(r, "ServerError")
     \/ ~c.metadata /\ ModelAccepted(r)
     \/ c.metadata /\ isMetadataValid(c) /\ ModelStep(r, AfterRead(c))
  /\ UNCHANGED <<services, history, call>>

(***************************************************************************)
(* isProductIdExist: the catalog answers 404 for an unknown product, axios *)
(* rejects, and the branch that would return false is never taken.         *)
(***************************************************************************)
CheckProductId(r) ==
  /\ pc[r] = "create.product"
  /\ \/ /\ isProductIdExist(call[r].product)
        /\ ModelStep(r, "create.name")
        /\ UNCHANGED <<services, history>>
     \/ /\ ~isProductIdExist(call[r].product)
        /\ Respond(r, "ServerError")
        /\ UNCHANGED <<services, history>>
     \/ CallFails(r)
  /\ UNCHANGED call

CheckProductName(r) ==
  /\ pc[r] = "create.name"
  /\ \/ /\ isProductNameValid(call[r].name)
        /\ ModelStep(r, "create.class")
        /\ UNCHANGED <<services, history>>
     \/ /\ ~isProductNameValid(call[r].name)
        /\ ModelRefused(r)
        /\ UNCHANGED <<services, history>>
     \/ CallFails(r)
  /\ UNCHANGED call

CheckClassification(r) ==
  /\ pc[r] = "create.class"
  /\ \/ /\ isClassificationValid(call[r].class)
        /\ ModelAccepted(r)
        /\ UNCHANGED <<services, history>>
     \/ /\ ~isClassificationValid(call[r].class)
        /\ ModelRefused(r)
        /\ UNCHANGED <<services, history>>
     \/ CallFails(r)
  /\ UNCHANGED call

(* Mutant: a refusal of the store-trigger is taken for success.            *)
StartIngestion_RefusalIgnored(r) ==
  /\ pc[r] = "create.ingest"
  /\ OpenJob(r) \/ UNCHANGED <<services, history>>
  /\ Respond(r, "Created")
  /\ UNCHANGED call

(***************************************************************************)
(* startIngestion.  The store-trigger may refuse the job with a 400, which *)
(* is passed on; when its reply is lost the job is there all the same.     *)
(***************************************************************************)
StartIngestion(r) ==
  /\ pc[r] = "create.ingest"
  /\ \/ /\ OpenJob(r)
        /\ Respond(r, "Created") \/ (Faulty /\ Respond(r, "ServerError"))
     \/ /\ Respond(r, "BadRequest")
        /\ UNCHANGED <<services, history>>
     \/ CallFails(r)
  /\ UNCHANGED call

-----------------------------------------------------------------------------
(* deleteModel and validateDeleteById                                      *)

(* Mutants: one of the two checks is missing, or is too weak.              *)
validateDelete_AnyType(record) == record.status = UNPUBLISHED
validateDelete_AnyStatus(record) == record.type # QUANTIZED_MESH_DTM_BEST
validateDelete_NotPublished(record) ==
  /\ record.type # QUANTIZED_MESH_DTM_BEST
  /\ record.status # PUBLISHED

validateDelete(record) ==
  /\ record.type # QUANTIZED_MESH_DTM_BEST
  /\ record.status = UNPUBLISHED

isDeletable(record) == record # NoRecord /\ validateDelete(record)

(* Mutant: the record is marked without a job.                             *)
DeleteFindRecord_NoJob(r) ==
  /\ pc[r] = "delete.find"
  /\ IF isDeletable(catalog[call[r].id])
     THEN ModelStep(r, "delete.mark")
     ELSE Respond(r, "BadRequest")
  /\ UNCHANGED <<services, history, call>>

DeleteFindRecord(r) ==
  LET record == getRecord(call[r].id) IN
  /\ pc[r] = "delete.find"
  /\ \/ /\ isDeletable(record)
        /\ ModelStep(r, "delete.job")
        /\ UNCHANGED <<services, history>>
     \/ /\ ~isDeletable(record)
        /\ Respond(r, "BadRequest")
        /\ UNCHANGED <<services, history>>
     \/ CallFails(r)
  /\ UNCHANGED call

StartDeleteJob(r) ==
  /\ pc[r] = "delete.job"
  /\ \/ /\ OpenJob(r)
        /\ \/ ModelStep(r, "delete.mark")
           \/ Faulty /\ Respond(r, "ServerError")
     \/ /\ Respond(r, "BadRequest")
        /\ UNCHANGED <<services, history>>
     \/ CallFails(r)
  /\ UNCHANGED call

(* Mutant: a mark that fails is not noticed.                               *)
MarkBeingDeleted_FailureIgnored(r) ==
  /\ pc[r] = "delete.mark"
  /\ \/ ApplyStatus(r, call[r].id, BEING_DELETED)
     \/ UNCHANGED <<services, history>>
  /\ Respond(r, "OK")
  /\ UNCHANGED call

(* The job exists already: whatever goes wrong here is answered with a 500 *)
(* and nothing takes the job back.                                         *)
MarkBeingDeleted(r) ==
  LET k == call[r].id IN
  /\ pc[r] = "delete.mark"
  /\ \/ /\ ApplyStatus(r, k, BEING_DELETED)
        /\ Respond(r, "OK") \/ (Faulty /\ Respond(r, "ServerError"))
     \/ /\ catalog[k] = NoRecord
        /\ Respond(r, "ServerError")
        /\ UNCHANGED <<services, history>>
     \/ CallFails(r)
  /\ UNCHANGED call

(* Mutant: no response when the record may not be deleted.                 *)
CanDelete_SilentRefusal(r) ==
  /\ pc[r] = "candelete.find"
  /\ isDeletable(catalog[call[r].id])
  /\ Respond(r, "Valid")
  /\ UNCHANGED <<services, history, call>>

CanDelete(r) ==
  LET record == getRecord(call[r].id) IN
  /\ pc[r] = "candelete.find"
  /\ \/ /\ Respond(r, IF isDeletable(record) THEN "Valid" ELSE "Invalid")
        /\ UNCHANGED <<services, history>>
     \/ CallFails(r)
  /\ UNCHANGED call

ModelManagerStep(r) ==
  \/ CheckModelPath(r)
  \/ CheckTileset(r)
  \/ ReadTileset(r)
  \/ CheckProductId(r)
  \/ CheckProductName(r)
  \/ CheckClassification(r)
  \/ StartIngestion(r)
  \/ DeleteFindRecord(r)
  \/ StartDeleteJob(r)
  \/ MarkBeingDeleted(r)
  \/ CanDelete(r)
================================================================================
