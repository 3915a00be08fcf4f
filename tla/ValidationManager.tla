--------------------------- MODULE ValidationManager ---------------------------
(***************************************************************************)
(* The checks of src/src/validator/validationManager.ts that run without   *)
(* awaiting another service, and what each awaited one looks at.           *)
(***************************************************************************)
EXTENDS Services

(***************************************************************************)
(* A comparison with undefined is false in JavaScript.                     *)
(***************************************************************************)
isDatesValid(start, end) ==
  /\ start # Undefined
  /\ end # Undefined
  /\ start <= end

isResolutionMeterValid(min, max) ==
  min # Undefined /\ max # Undefined => min <= max

(***************************************************************************)
(* A footprint that is the polygon of a closed ring in one dimension.  The *)
(* check itself throws on a polygon without a ring, which the schema does  *)
(* not exclude: footprintThrows.                                           *)
(***************************************************************************)
isPolygonValid(footprint) == footprint \in {"covers", "far"}
footprintThrows(footprint) == footprint = "empty"

isFootprintAndModelIntersects(footprint) == footprint = "covers"

isClassificationValid(class) == class \in getClassifications

isProductNameValid(name) == findRecords(name) = {}

(***************************************************************************)
(* isMetadataValidForIngestion up to its first await.                      *)
(***************************************************************************)
isMetadataValid(c) ==
  /\ isDatesValid(c.start, c.end)
  /\ isResolutionMeterValid(c.minRes, c.maxRes)
  /\ isPolygonValid(c.footprint)
  /\ isFootprintAndModelIntersects(c.footprint)

(***************************************************************************)
(* validateUpdate up to its first await after getRecord: a payload that    *)
(* gives one date is judged with the other date of the record.             *)
(***************************************************************************)
(* Mutant: the status is not looked at.                                    *)
isUpdatable_AnyStatus(record) == record # NoRecord

isUpdatable(record) == record # NoRecord /\ record.status # BEING_DELETED

(* Mutant: a single date is not compared with the stored one.              *)
isUpdateInOrder_GivenOnly(record, c) ==
  c.start # Undefined /\ c.end # Undefined => isDatesValid(c.start, c.end)

isUpdateInOrder(record, c) ==
  c.start # Undefined \/ c.end # Undefined =>
    isDatesValid(Or(c.start, record.start), Or(c.end, record.end))

updateThrows(record, c) ==
  /\ isUpdatable(record)
  /\ isUpdateInOrder(record, c)
  /\ footprintThrows(c.footprint)

isUpdateValid(record, c) ==
  /\ isUpdatable(record)
  /\ isUpdateInOrder(record, c)
  /\ c.footprint # Undefined => isPolygonValid(c.footprint)

(***************************************************************************)
(* Another record already has the new name.                                *)
(***************************************************************************)
isNameTaken(identifier, name) == findRecords(name) \ {identifier} # {}

(***************************************************************************)
(* The validations of an update that a payload skips: the next call that   *)
(* validateUpdate and updateMetadata await after a given step.             *)
(***************************************************************************)
AfterClass(c) == IF c.name # Undefined THEN "update.find" ELSE "update.reread"
AfterFile(c)  == IF c.class # Undefined THEN "update.class" ELSE AfterClass(c)
AfterGet(c)   == IF c.footprint # Undefined THEN "update.file" ELSE AfterFile(c)

(***************************************************************************)
(* isRecordAbsentFromExtractable: with the service disabled nothing is     *)
(* asked.                                                                  *)
(***************************************************************************)
isRecordAbsentFromExtractable(name) == ~isExtractableRecordExists(name)
================================================================================
