-------------------------------- MODULE Gateway --------------------------------
(***************************************************************************)
(* The whole gateway: requests arrive and are routed to their handlers,    *)
(* the handlers of all replicas interleave at every await, the job workers *)
(* behind the store-trigger change the catalog, and the extractable-       *)
(* management service takes and frees names.                               *)
(***************************************************************************)
EXTENDS MetadataManager, ModelManager

(* Mutant: the two PATCH routes lead to the same handler.                  *)
FirstStep_Misrouted ==
  [ createModel        |-> "create.path",
    validate           |-> "create.path",
    deleteModel        |-> "delete.find",
    validateDeleteById |-> "candelete.find",
    updateMetadata     |-> "update.get",
    updateStatus       |-> "update.get" ]

FirstStep ==
  [ createModel        |-> "create.path",
    validate           |-> "create.path",
    deleteModel        |-> "delete.find",
    validateDeleteById |-> "candelete.find",
    updateMetadata     |-> "update.get",
    updateStatus       |-> "status.get" ]

(***************************************************************************)
(* How the clients take turns.  Nothing in the code makes them: "one" and  *)
(* "settled" say under which use of the gateway a property holds.          *)
(***************************************************************************)
NoneInFlight == \A r \in Requests : ~Waiting(r)

NoIngestionOpen ==
  \A r \in Requests : ~(job[r] = "open" /\ call[r].op = "createModel")

Receive(r) ==
  /\ pc[r] = "idle"
  /\ Turns # "any" => NoneInFlight
  /\ Turns = "settled" => NoIngestionOpen
  /\ \E c \in Calls :
       /\ call' = [call EXCEPT ![r] = Controller(c)]
       /\ Await(r, FirstStep[c.op])
  /\ UNCHANGED <<services, history, seen, late>>

(***************************************************************************)
(* The replica that serves r dies.  Its other requests die by steps of     *)
(* their own.                                                              *)
(***************************************************************************)
Crash(r) ==
  /\ Faulty
  /\ Waiting(r)
  /\ pc' = [pc EXCEPT ![r] = "crashed"]
  /\ seen' = [seen EXCEPT ![r] = Undefined]
  /\ UNCHANGED <<services, history, call, late, answer>>

(***************************************************************************)
(* The connection breaks, or the replica dies, while a call that changes   *)
(* something is on its way.  The client is told of a failure or of nothing,*)
(* and no handler remembers the call.                                      *)
(***************************************************************************)
Abandon(r) ==
  /\ Late
  /\ Waiting(r)
  /\ pc[r] \in Effects
  /\ late' = late \cup {r}
  /\ seen' = [seen EXCEPT ![r] = Undefined]
  /\ answer' \in {answer, [answer EXCEPT ![r] = "ServerError"]}
  /\ UNCHANGED <<services, history, call, pc>>

(* The call that was abandoned is carried out all the same.                *)
Deliver(r) ==
  /\ r \in late
  /\ \/ pc[r] = "update.patch" /\ ApplyPatch(r)
     \/ pc[r] = "status.change" /\ ApplyStatus(r, call[r].id, call[r].status)
     \/ pc[r] = "delete.mark" /\ ApplyStatus(r, call[r].id, BEING_DELETED)
     \/ pc[r] \in {"create.ingest", "delete.job"} /\ OpenJob(r)
  /\ late' = late \ {r}
  /\ pc' = [pc EXCEPT ![r] = IF answer[r] = "none" THEN "crashed" ELSE "answered"]
  /\ UNCHANGED <<call, seen, answer>>

-----------------------------------------------------------------------------
(* The services, as far as they change what the gateway reads.             *)

RunIngestion(r) ==
  /\ job[r] = "open"
  /\ call[r].op = "createModel"
  /\ catalog' = [catalog EXCEPT ![r] = IngestedRecord(call[r])]
  /\ job' = [job EXCEPT ![r] = "done"]
  /\ Outdates(r)
  /\ UNCHANGED <<locked, call, pc, late, seen, answer, wrote, overtaken, misled>>

RunDelete(r) ==
  /\ job[r] = "open"
  /\ call[r].op = "deleteModel"
  /\ catalog' = [catalog EXCEPT ![call[r].id] = NoRecord]
  /\ job' = [job EXCEPT ![r] = "done"]
  /\ UNCHANGED <<locked, call, pc, late, seen, answer, history>>

(* Extractable-management takes a name or frees it, whatever the gateway   *)
(* and its clients are doing.                                              *)
TakeName(n) ==
  /\ n \notin locked
  /\ locked' = locked \cup {n}
  /\ misled' = misled \cup RestOnFree(n)

FreeName(n) ==
  /\ n \in locked
  /\ locked' = locked \ {n}
  /\ UNCHANGED misled

ToggleLock(n) ==
  /\ TakeName(n) \/ FreeName(n)
  /\ UNCHANGED <<catalog, job, call, pc, late, seen, answer, wrote, overtaken, outdated>>

(***************************************************************************)
(* Every request has ended and every job is done: the system may rest.     *)
(***************************************************************************)
Rest ==
  /\ \A r \in Requests : Ended(r) /\ job[r] # "open"
  /\ UNCHANGED vars

-----------------------------------------------------------------------------
Init ==
  /\ \E cat \in InitialCatalogs :
       catalog = [k \in Keys |-> IF k \in Ids THEN cat[k] ELSE NoRecord]
  /\ job = [r \in Requests |-> "none"]
  /\ locked = {}
  /\ call = [r \in Requests |-> NoCall]
  /\ pc = [r \in Requests |-> "idle"]
  /\ late = {}
  /\ seen = [r \in Requests |-> Undefined]
  /\ answer = [r \in Requests |-> "none"]
  /\ wrote = {}
  /\ overtaken = {}
  /\ misled = {}
  /\ outdated = {}

Handle(r) ==
  /\ r \notin late
  /\ MetadataStep(r) \/ ModelManagerStep(r)
  /\ UNCHANGED late

RunJob(r) == RunIngestion(r) \/ RunDelete(r)

Next ==
  \/ \E r \in Requests :
       Receive(r) \/ Handle(r) \/ Crash(r) \/ Abandon(r) \/ Deliver(r) \/ RunJob(r)
  \/ \E n \in Lockable : ToggleLock(n)
  \/ Rest

Spec == Init /\ [][Next]_vars

(***************************************************************************)
(* A call that is awaited is answered or fails (axios has no timeout of    *)
(* its own: this is an assumption on the services), and a job that is open *)
(* is carried out.  No client has to send a request.                       *)
(***************************************************************************)
FairSpec ==
  /\ Spec
  /\ \A r \in Requests : WF_vars(Handle(r)) /\ WF_vars(RunJob(r))
================================================================================
