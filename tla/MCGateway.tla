------------------------------- MODULE MCGateway -------------------------------
(***************************************************************************)
(* Instances of the gateway for TLC.  Each configuration names the calls   *)
(* its clients send and the catalogs it starts from among those below.     *)
(***************************************************************************)
EXTENDS GatewayRefinement, TLC

CONSTANTS a, b,       \* records present at the start
          n1, n2, n3, \* product names
          n2s,        \* n2 as a client spells it with stray spaces
          p           \* a productId of the catalog

MCNames      == {n1, n2, n3, n2s}
MCSimplified == (n1 :> n1) @@ (n2 :> n2) @@ (n3 :> n3) @@ (n2s :> n2)

Interchangeable == Permutations(Requests)

Payload(o, k) ==
  [ op |-> o, id |-> k, metadata |-> FALSE, name |-> Undefined,
    type |-> Undefined, status |-> Undefined, start |-> Undefined,
    end |-> Undefined, minRes |-> Undefined, maxRes |-> Undefined,
    product |-> Undefined, footprint |-> Undefined, class |-> Undefined ]

Delete(k)         == Payload("deleteModel", k)
CanDeleteCall(k)  == Payload("validateDeleteById", k)
Update(k)         == Payload("updateMetadata", k)
Rename(k, n)      == [Update(k) EXCEPT !.name = n]
Status(k, s)      == [Payload("updateStatus", k) EXCEPT !.status = s]

NewModel(o, n) ==
  [ Payload(o, Undefined) EXCEPT
      !.metadata = TRUE, !.name = n, !.type = PHOTO_REALISTIC_3D,
      !.status = UNPUBLISHED, !.start = 1, !.end = 2,
      !.footprint = "covers", !.class = "listed" ]

Create(n) == NewModel("createModel", n)

StoredRecord(n) ==
  [ name |-> n, type |-> PHOTO_REALISTIC_3D, status |-> UNPUBLISHED,
    start |-> 1, end |-> 2, minRes |-> 1, maxRes |-> 2 ]

Redate(k, start, end) == [Update(k) EXCEPT !.start = start, !.end = end]
Resize(k, min, max)   == [Update(k) EXCEPT !.minRes = min, !.maxRes = max]

Holding(i, record) == i :> record

-----------------------------------------------------------------------------
(* lifecycle: one record, or the best terrain, and everything that touches *)
(* its status; a new model, with a status it must not have, and deletions  *)
(* of what becomes of it.                                                  *)
LifecycleCalls ==
  { Delete(a), CanDeleteCall(a), Rename(a, n2s),
    Status(a, PUBLISHED), Status(a, UNPUBLISHED), Status(a, BEING_DELETED),
    [Create(n2) EXCEPT !.status = BEING_DELETED], NewModel("validate", n2) }
  \cup {Delete(r) : r \in Requests}

LifecycleCatalogs ==
  { Holding(a, StoredRecord(n1)),
    Holding(a, [StoredRecord(n1) EXCEPT !.type = QUANTIZED_MESH_DTM_BEST]) }

OneRecord == {Holding(a, StoredRecord(n1))}

(* turns: updates of every kind, one request after the other, on a record  *)
(* whose name may be locked at any time.                                   *)
TurnCalls ==
  { Redate(a, 2, Undefined), Redate(a, 3, Undefined), Redate(a, Undefined, 1),
    Redate(a, 3, 3), Redate(a, 2, 1), Rename(a, n2s),
    [Redate(a, Undefined, 3) EXCEPT !.footprint = "covers", !.class = "listed"],
    [Rename(a, n1) EXCEPT !.footprint = "far"],
    [Rename(a, n1) EXCEPT !.footprint = "empty"],
    [Rename(a, n3) EXCEPT !.class = "unlisted"],
    Status(a, PUBLISHED), Delete(a) }

TwoRecords ==
  {Holding(a, StoredRecord(n1)) @@ Holding(b, [StoredRecord(n3) EXCEPT !.status = PUBLISHED])}

(* settled: everything that gives a record its name.                       *)
NamingCalls ==
  { Create(n2), Create(n2s), Rename(a, n2), Rename(b, n2s), Rename(b, n1),
    Delete(a) }

(* resolutions: updates of one resolution, each in order with the other    *)
(* one of the first record, or of both.                                    *)
ResolutionCalls == {Resize(a, 2, Undefined), Resize(a, Undefined, 1), Resize(a, 2, 3)}

(* dates: updates that each give one date.                                 *)
DateCalls == {Redate(a, 3, Undefined), Redate(a, Undefined, 3), Redate(a, Undefined, 2)}

OneWideRecord == {Holding(a, [StoredRecord(n1) EXCEPT !.end = 3])}

(* progress: a request of every kind, new models in every state of         *)
(* validity, and deletions of what becomes of them.                        *)
ProgressCalls ==
  { Delete(a), Status(a, PUBLISHED), CanDeleteCall(a),
    [Update(a) EXCEPT !.name = n2, !.class = "listed", !.footprint = "covers"],
    Redate(a, 2, Undefined), Redate(a, 3, Undefined), Redate(a, Undefined, 1),
    Redate(a, 3, 3),
    Create(n1), Create(n2s),
    [Create(n2) EXCEPT !.status = BEING_DELETED, !.product = p],
    [Create(n2) EXCEPT !.start = 2, !.end = 1],
    [Create(n2) EXCEPT !.minRes = 2, !.maxRes = 1],
    [Create(n2) EXCEPT !.product = "unknown"],
    [Create(n2) EXCEPT !.class = "unlisted", !.minRes = 1],
    [Create(n2) EXCEPT !.footprint = "empty"],
    NewModel("validate", n2),
    Payload("validate", Undefined) }
  \cup {Delete(r) : r \in Requests}

(* products: the productId of a new model.                                 *)
ProductCalls == {[Create(n2) EXCEPT !.product = x] : x \in {p, "unknown"}}
================================================================================
