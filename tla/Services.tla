------------------------------- MODULE Services -------------------------------
(***************************************************************************)
(* What the gateway stands on: the records of the catalog, the jobs of the *)
(* store-trigger, the locks of the extractable-management service, and the *)
(* requests the gateway is serving.  The gateway itself keeps no state     *)
(* between requests: what it knows lives in the local variables of each    *)
(* handler, and every `await' of a call to another service lets any other  *)
(* handler, of this or another replica, run.  A handler is therefore a     *)
(* sequence of steps, each of them one awaited call together with the code *)
(* from its answer to the next await (or to the end of the handler).       *)
(***************************************************************************)
EXTENDS Records

CONSTANTS
    Lockable,            \* names the extractable-management service may hold
    ExtractableEnabled,  \* isExtractableLogicEnabled of the configuration
    Turns,               \* how clients take turns: "any", "one" or "settled"
    Faulty,              \* calls may fail, replies be lost, handlers die
    Late                 \* a call may be carried out after its caller gave up

(* The flags, and the names that may be locked.                            *)
ASSUME FlagAssumption ==
  /\ Lockable \subseteq Names
  /\ ExtractableEnabled \in BOOLEAN
  /\ Faulty \in BOOLEAN /\ Late \in BOOLEAN
  /\ Turns \in {"any", "one", "settled"}

-----------------------------------------------------------------------------
VARIABLES
    catalog,    \* Keys -> record: what the catalog service stores
    job,        \* Requests -> state of the job the request made store-trigger open
    locked,     \* product names held by the extractable-management service
    call,       \* Requests -> payload being served
    pc,         \* Requests -> the call the handler awaits
    late,       \* requests that have ended with the call at pc still under way
    seen,       \* Requests -> product name of the record a handler holds
    answer,     \* Requests -> the response
    wrote,      \* history: requests whose write the catalog has applied
    overtaken,  \* history: requests whose record was marked BEING_DELETED
                \* after they had read it
    misled,     \* history: requests about a record whose name was taken by
                \* extractable-management after they had asked about it, or
                \* was changed after they had read it in order to ask
    outdated    \* history: <<q, r>> if metadata of r reached the catalog after
                \* q had looked at it, and before its own did

services == <<catalog, job, locked>>
history  == <<wrote, overtaken, misled, outdated>>
vars     == <<catalog, job, locked, call, pc, late, seen, answer,
              wrote, overtaken, misled, outdated>>

(***************************************************************************)
(* The steps of each handler, named after the call it awaits.              *)
(***************************************************************************)
IngestionSteps == { "create.path", "create.tileset", "create.read",
                    "create.product", "create.name", "create.class",
                    "create.ingest" }

Steps ==
  [ o \in Ops |->
      CASE o \in {"createModel", "validate"} -> IngestionSteps
        [] o = "deleteModel"        -> {"delete.find", "delete.job", "delete.mark"}
        [] o = "validateDeleteById" -> {"candelete.find"}
        [] o = "updateMetadata"     ->
             {"update.get", "update.file", "update.class", "update.find",
              "update.reread", "update.lock", "update.patch"}
        [] o = "updateStatus"       -> {"status.get", "status.lock", "status.change"} ]

(* The calls that change something: they may outlive whoever made them.    *)
Effects == {"update.patch", "status.change", "create.ingest", "delete.job", "delete.mark"}

Ended(r)   == pc[r] \in {"answered", "crashed"} \/ r \in late
Waiting(r) == pc[r] # "idle" /\ ~Ended(r)

(***************************************************************************)
(* A handler goes on to its next awaited call, or responds and forgets     *)
(* what it held.                                                           *)
(***************************************************************************)
Await(r, step) ==
  /\ pc' = [pc EXCEPT ![r] = step]
  /\ UNCHANGED answer

Respond(r, a) ==
  /\ pc' = [pc EXCEPT ![r] = "answered"]
  /\ answer' = [answer EXCEPT ![r] = a]
  /\ seen' = [seen EXCEPT ![r] = Undefined]

(* The awaited call fails before it has done anything.                     *)
CallFails(r) ==
  /\ Faulty
  /\ Respond(r, "ServerError")
  /\ UNCHANGED <<services, history>>

(***************************************************************************)
(* What the services answer when they are asked.                           *)
(***************************************************************************)
getRecord(identifier) == catalog[identifier]

(* Mutant: only published records are found.                               *)
findRecords_Published(name) ==
  {k \in Keys : catalog[k] # NoRecord /\ catalog[k].name = name /\ catalog[k].status = PUBLISHED}

findRecords(name) == {k \in Keys : catalog[k] # NoRecord /\ catalog[k].name = name}

isProductIdExist(productId) == productId \in Products

getClassifications == {"listed"}

isExtractableRecordExists(name) == name \in locked

(***************************************************************************)
(* Requests about record k that rest on a status read earlier: those that  *)
(* are served, and those that have ended with a call under way.            *)
(***************************************************************************)
PastStatusCheck ==
  (Steps["updateMetadata"] \ {"update.get"}) \cup
  (Steps["updateStatus"] \ {"status.get"}) \cup
  (Steps["deleteModel"] \ {"delete.find"})

RestOn(k) == {r \in Requests : pc[r] \in PastStatusCheck /\ call[r].id = k}

(***************************************************************************)
(* Requests that rest on a look at the metadata in the catalog: updates    *)
(* that have read their record, and new models whose name was looked up,   *)
(* until they are ingested.                                                *)
(***************************************************************************)
LookedUp ==
  {r \in Requests :
     \/ pc[r] \in Steps["updateMetadata"] \ {"update.get"}
     \/ pc[r] \in {"create.class", "create.ingest"}
     \/ job[r] = "open" /\ call[r].op = "createModel"}

Outdates(r) == outdated' = outdated \cup ((LookedUp \ {r}) \X {r})

(***************************************************************************)
(* Requests that rest on the name of record k: they ask, or have asked,    *)
(* extractable-management about it and are about to write.                 *)
(***************************************************************************)
AsksForLock(r) == pc[r] \in {"update.lock", "status.lock"}
MayWrite(r)    == pc[r] \in {"update.patch", "status.change"}

RestOnName(k) == {r \in Requests : (AsksForLock(r) \/ MayWrite(r)) /\ call[r].id = k}

(* Requests about to write a record whose name is n.                       *)
RestOnFree(n) ==
  {r \in Requests :
     \E k \in Keys : /\ catalog[k] # NoRecord /\ catalog[k].name = n
                    /\ MayWrite(r) /\ call[r].id = k}

(***************************************************************************)
(* The catalog applies PATCH /metadata/{id} of request r.                  *)
(***************************************************************************)
ApplyPatch(r) ==
  LET k == call[r].id IN
  /\ catalog[k] # NoRecord
  /\ catalog' = [catalog EXCEPT ![k] = Patched(@, call[r])]
  /\ wrote' = wrote \cup {r}
  /\ misled' = IF Patched(catalog[k], call[r]).name # catalog[k].name
               THEN misled \cup (RestOnName(k) \ {r})
               ELSE misled
  /\ Outdates(r)
  /\ UNCHANGED <<job, locked, overtaken>>

(***************************************************************************)
(* The catalog applies PATCH /metadata/status/{id} of request r.           *)
(***************************************************************************)
ApplyStatus(r, k, status) ==
  /\ catalog[k] # NoRecord
  /\ catalog' = [catalog EXCEPT ![k] = [@ EXCEPT !.status = status]]
  /\ wrote' = wrote \cup {r}
  /\ overtaken' = IF status = BEING_DELETED
                  THEN overtaken \cup (RestOn(k) \ {r})
                  ELSE overtaken
  /\ UNCHANGED <<job, locked, misled, outdated>>

(***************************************************************************)
(* The store-trigger opens the job of request r.                           *)
(***************************************************************************)
OpenJob(r) ==
  /\ job' = [job EXCEPT ![r] = "open"]
  /\ UNCHANGED <<catalog, locked, history>>
===============================================================================
