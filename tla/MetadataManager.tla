---------------------------- MODULE MetadataManager ----------------------------
(***************************************************************************)
(* The handlers of src/src/metadata: PATCH /metadata/{identifier} and      *)
(* PATCH /metadata/status/{identifier}.                                    *)
(***************************************************************************)
EXTENDS ValidationManager

(***************************************************************************)
(* A call to the catalog about a missing record either answers without a   *)
(* record or is refused: axios rejects that, and the handler answers 500.  *)
(***************************************************************************)
NotFoundIsRejected(record, r) ==
  /\ record = NoRecord
  /\ Respond(r, "ServerError")

-----------------------------------------------------------------------------
(* updateMetadata                                                          *)

(* validateUpdate: getRecord and the checks of its answer.                 *)
UpdateGetRecord(r) ==
  LET c == call[r]
      record == getRecord(c.id)
  IN
  /\ pc[r] = "update.get"
  /\ \/ /\ isUpdateValid(record, c)
        /\ Await(r, AfterGet(c))
        /\ UNCHANGED <<seen, services, history>>
     \/ /\ ~isUpdateValid(record, c)
        /\ ~updateThrows(record, c)
        /\ Respond(r, "BadRequest")
        /\ UNCHANGED <<services, history>>
     \/ /\ updateThrows(record, c) \/ record = NoRecord
        /\ Respond(r, "ServerError")
        /\ UNCHANGED <<services, history>>
     \/ CallFails(r)
  /\ UNCHANGED call

(* getFile: the tileset is read, has a usable bounding volume or not, or   *)
(* cannot be had (a link without a path, an object that is not there).     *)
UpdateGetFile(r) ==
  LET c == call[r] IN
  /\ pc[r] = "update.file"
  /\ \/ /\ isFootprintAndModelIntersects(c.footprint)
        /\ Await(r, AfterFile(c))
        /\ UNCHANGED seen
     \/ Respond(r, "BadRequest")
     \/ Respond(r, "ServerError")
  /\ UNCHANGED <<services, history, call>>

UpdateGetClassifications(r) ==
  LET c == call[r] IN
  /\ pc[r] = "update.class"
  /\ \/ /\ isClassificationValid(c.class)
        /\ Await(r, AfterClass(c))
        /\ UNCHANGED <<seen, services, history>>
     \/ /\ ~isClassificationValid(c.class)
        /\ Respond(r, "BadRequest")
        /\ UNCHANGED <<services, history>>
     \/ CallFails(r)
  /\ UNCHANGED call

UpdateFindName(r) ==
  LET c == call[r] IN
  /\ pc[r] = "update.find"
  /\ \/ /\ ~isNameTaken(c.id, c.name)
        /\ Await(r, "update.reread")
        /\ UNCHANGED <<seen, services, history>>
     \/ /\ isNameTaken(c.id, c.name)
        /\ Respond(r, "BadRequest")
        /\ UNCHANGED <<services, history>>
     \/ CallFails(r)
  /\ UNCHANGED call

(* The second getRecord.  Its status is not looked at, and a record that   *)
(* is gone matters only to the question put to extractable-management.     *)
UpdateReadAgain(r) ==
  LET record == getRecord(call[r].id) IN
  /\ pc[r] = "update.reread"
  /\ \/ /\ ExtractableEnabled
        /\ record # NoRecord
        /\ seen' = [seen EXCEPT ![r] = record.name]
        /\ Await(r, "update.lock")
        /\ UNCHANGED <<services, history>>
     \/ /\ ~ExtractableEnabled
        /\ Await(r, "update.patch")
        /\ UNCHANGED <<seen, services, history>>
     \/ /\ NotFoundIsRejected(record, r)
        /\ UNCHANGED <<services, history>>
     \/ CallFails(r)
  /\ UNCHANGED call

UpdateCheckLock(r) ==
  /\ pc[r] = "update.lock"
  /\ \/ /\ isRecordAbsentFromExtractable(seen[r])
        /\ Await(r, "update.patch")
        /\ UNCHANGED <<seen, services, history>>
     \/ /\ ~isRecordAbsentFromExtractable(seen[r])
        /\ Respond(r, "Conflict")
        /\ UNCHANGED <<services, history>>
     \/ CallFails(r)
  /\ UNCHANGED call

(* patchMetadata: the reply of the catalog may be lost.                    *)
UpdatePatch(r) ==
  /\ pc[r] = "update.patch"
  /\ \/ /\ ApplyPatch(r)
        /\ Respond(r, "OK") \/ (Faulty /\ Respond(r, "ServerError"))
     \/ /\ NotFoundIsRejected(catalog[call[r].id], r)
        /\ UNCHANGED <<services, history>>
     \/ CallFails(r)
  /\ UNCHANGED call

-----------------------------------------------------------------------------
(* updateStatus                                                            *)

(* Mutant: updateStatus does not ask extractable-management.               *)
AfterStatusCheck_NoLock == "status.change"

AfterStatusCheck ==
  IF ExtractableEnabled THEN "status.lock" ELSE "status.change"

StatusGetRecord(r) ==
  LET record == getRecord(call[r].id) IN
  /\ pc[r] = "status.get"
  /\ \/ /\ isUpdatable(record)
        /\ seen' = [seen EXCEPT ![r] = record.name]
        /\ Await(r, AfterStatusCheck)
        /\ UNCHANGED <<services, history>>
     \/ /\ ~isUpdatable(record)
        /\ Respond(r, "BadRequest")
        /\ UNCHANGED <<services, history>>
     \/ /\ NotFoundIsRejected(record, r)
        /\ UNCHANGED <<services, history>>
     \/ CallFails(r)
  /\ UNCHANGED call

StatusCheckLock(r) ==
  /\ pc[r] = "status.lock"
  /\ \/ /\ isRecordAbsentFromExtractable(seen[r])
        /\ Await(r, "status.change")
        /\ UNCHANGED <<seen, services, history>>
     \/ /\ ~isRecordAbsentFromExtractable(seen[r])
        /\ Respond(r, "Conflict")
        /\ UNCHANGED <<services, history>>
     \/ CallFails(r)
  /\ UNCHANGED call

StatusChange(r) ==
  LET c == call[r] IN
  /\ pc[r] = "status.change"
  /\ \/ /\ ApplyStatus(r, c.id, c.status)
        /\ Respond(r, "OK") \/ (Faulty /\ Respond(r, "ServerError"))
     \/ /\ NotFoundIsRejected(catalog[c.id], r)
        /\ UNCHANGED <<services, history>>
     \/ CallFails(r)
  /\ UNCHANGED call

MetadataStep(r) ==
  \/ UpdateGetRecord(r)
  \/ UpdateGetFile(r)
  \/ UpdateGetClassifications(r)
  \/ UpdateFindName(r)
  \/ UpdateReadAgain(r)
  \/ UpdateCheckLock(r)
  \/ UpdatePatch(r)
  \/ StatusGetRecord(r)
  \/ StatusCheckLock(r)
  \/ StatusChange(r)
================================================================================
