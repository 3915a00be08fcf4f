------------------------------- MODULE Records -------------------------------
(***************************************************************************)
(* The data of the gateway: the records of the catalog, reduced to what    *)
(* the gateway decides on, the payloads of its requests, and what a        *)
(* payload does to a record.  There is no state here: the handlers and the *)
(* contract they are held against share these definitions.                 *)
(***************************************************************************)
EXTENDS Naturals

CONSTANTS
    Requests,            \* the HTTP requests of a behaviour
    Ids,                 \* identifiers of the records present at the start
    Names,               \* product names, as clients spell them
    Simplified,          \* Names -> Names: spaces collapsed and trimmed
    Dates,               \* sourceDateStart, sourceDateEnd
    Resolutions,         \* minResolutionMeter, maxResolutionMeter
    Products,            \* the productIds that exist in the catalog
    InitialCatalogs,     \* the catalogs a behaviour may start from
    Calls,               \* the calls clients may send
    NoRecord,            \* no such record in the catalog
    NoCall,              \* this request has not been received
    Undefined            \* a field that the payload or the record omits

(***************************************************************************)
(* Identifiers of records.  createModel draws a fresh uuid for the new     *)
(* model: the request itself stands for it.                                *)
(***************************************************************************)
Keys == Ids \cup Requests

UNPUBLISHED    == "UNPUBLISHED"
PUBLISHED      == "PUBLISHED"
BEING_DELETED  == "BEING_DELETED"
RecordStatus   == {UNPUBLISHED, PUBLISHED, BEING_DELETED}

PHOTO_REALISTIC_3D      == "3DPhotoRealistic"
QUANTIZED_MESH_DTM_BEST == "QuantizedMeshDTMBest"
ProductType             == {PHOTO_REALISTIC_3D, QUANTIZED_MESH_DTM_BEST}

(***************************************************************************)
(* A record of the catalog, reduced to the fields the gateway decides on.  *)
(***************************************************************************)
Record3D ==
  [ name   : Names,
    type   : ProductType,
    status : RecordStatus,
    start  : Dates,
    end    : Dates,
    minRes : Resolutions \cup {Undefined},
    maxRes : Resolutions \cup {Undefined} ]

(***************************************************************************)
(* A request as it reaches a controller, behind the OpenAPI validation.    *)
(* `footprint' is what the checks can tell about the polygon: "covers" the *)
(* model, is too "far" from it, is "malformed", or is "empty" (coordinates *)
(* without a ring).  `class' says whether lookup-tables lists it.          *)
(***************************************************************************)
Ops == { "createModel", "validate", "deleteModel", "validateDeleteById",
         "updateMetadata", "updateStatus" }

Payloads ==
  [ op        : Ops,
    id        : Keys \cup {Undefined},
    metadata  : BOOLEAN,
    name      : Names \cup {Undefined},
    type      : ProductType \cup {Undefined},
    status    : RecordStatus \cup {Undefined},
    start     : Dates \cup {Undefined},
    end       : Dates \cup {Undefined},
    minRes    : Resolutions \cup {Undefined},
    maxRes    : Resolutions \cup {Undefined},
    product   : Products \cup {Undefined, "unknown"},
    footprint : {"covers", "far", "malformed", "empty", Undefined},
    class     : {"listed", "unlisted", Undefined} ]

-----------------------------------------------------------------------------
(* Assumptions on the constants.                                           *)

(* A client names a record by its identifier, and productName survives     *)
(* being simplified twice.                                                 *)
ASSUME DomainAssumption ==
  /\ Ids \cap Requests = {}
  /\ Dates \subseteq Nat /\ Resolutions \subseteq Nat
  /\ Simplified \in [Names -> Names]
  /\ \A n \in Names : Simplified[Simplified[n]] = Simplified[n]

(* None of the markers is taken for a value.                               *)
ASSUME MarkerAssumption ==
  /\ NoRecord \notin Record3D
  /\ NoCall \notin Payloads
  /\ Undefined \notin Dates \cup Resolutions \cup Names \cup Products

(* The payloads the OpenAPI schema lets through: a model to create has the *)
(* required metadata, a status change has a status, and a request about a  *)
(* record names it.                                                        *)
WellFormed(c) ==
  /\ c.op \in {"deleteModel", "validateDeleteById", "updateMetadata",
               "updateStatus"} => c.id \in Keys
  /\ c.op \in {"updateStatus", "createModel"} => c.status \in RecordStatus
  /\ c.op = "createModel" => c.metadata
  /\ c.op \in {"createModel", "validate"} /\ c.metadata =>
       /\ c.name \in Names /\ c.type \in ProductType
       /\ c.start \in Dates /\ c.end \in Dates
       /\ c.footprint # Undefined /\ c.class # Undefined

ASSUME CallAssumption == \A c \in Calls : c \in Payloads /\ WellFormed(c)

(* A behaviour starts from a catalog whose records are in order and on     *)
(* which no deletion is running.                                           *)
ASSUME CatalogAssumption ==
  \A cat \in InitialCatalogs :
    /\ cat \in [Ids -> Record3D \cup {NoRecord}]
    /\ \A i \in Ids : cat[i] # NoRecord =>
         /\ cat[i].status # BEING_DELETED
         /\ cat[i].start <= cat[i].end

-----------------------------------------------------------------------------
(* What a request does to a payload and a record.                          *)

SimplifyName(c) == [c EXCEPT !.name = IF @ = Undefined THEN @ ELSE Simplified[@]]

(* What the two controllers make of a payload: productName is simplified   *)
(* wherever it is given, and a new model is unpublished whatever status    *)
(* its payload gives.                                                      *)
MetadataController(c) == IF c.op = "updateMetadata" THEN SimplifyName(c) ELSE c

(* Mutants: the name is taken as it is spelt; the status as it is given.   *)
ModelController_RawName(c) ==
  IF c.op = "createModel" THEN [c EXCEPT !.status = UNPUBLISHED] ELSE c
ModelController_GivenStatus(c) ==
  IF c.op \in {"createModel", "validate"} THEN SimplifyName(c) ELSE c

ModelController(c) ==
  CASE c.op = "createModel" -> [SimplifyName(c) EXCEPT !.status = UNPUBLISHED]
    [] c.op = "validate"    -> SimplifyName(c)
    [] OTHER                -> c

Controller(c) ==
  IF c.op \in {"updateMetadata", "updateStatus"}
  THEN MetadataController(c)
  ELSE ModelController(c)

(***************************************************************************)
(* A field of the payload, or the stored one if the payload omits it.      *)
(***************************************************************************)
Or(given, stored) == IF given = Undefined THEN stored ELSE given

(* PATCH of the fields the payload gives.                                  *)
Patched(record, c) ==
  [ record EXCEPT !.name   = Or(c.name, @),
                  !.start  = Or(c.start, @),
                  !.end    = Or(c.end, @),
                  !.minRes = Or(c.minRes, @),
                  !.maxRes = Or(c.maxRes, @) ]

(* The record that the ingestion of a new model inserts.                   *)
IngestedRecord(c) ==
  [ name |-> c.name, type |-> c.type, status |-> c.status,
    start |-> c.start, end |-> c.end, minRes |-> c.minRes, maxRes |-> c.maxRes ]

Answers == { "none", "OK", "Created", "Valid", "Invalid",
             "BadRequest", "Conflict", "ServerError" }
===============================================================================
