---------------------------- MODULE GatewayContract ----------------------------
(***************************************************************************)
(* What the gateway promises to its clients and to whoever runs the        *)
(* catalog, without its handlers: a request is pending from its arrival to *)
(* its end; until then, and also after its client was told of a failure or *)
(* of nothing, it may have the effects of its operation, each of them      *)
(* once; and any other answer means that all of them, or none, are there.  *)
(***************************************************************************)
EXTENDS Records

VARIABLES
    catalog,    \* Keys -> record
    job,        \* Requests -> state of the job the request has opened
    call,       \* Requests -> payload
    phase,      \* Requests -> "idle", "pending" or "ended"
    answer,     \* Requests -> the response
    wrote,      \* requests that have changed their record
    excused     \* requests about a record that was marked while they were
                \* undecided: they may still change it

vars == <<catalog, job, call, phase, answer, wrote, excused>>

Doomed(k) == catalog[k] # NoRecord /\ catalog[k].status = BEING_DELETED

Undecided(r) ==
  \/ phase[r] = "pending"
  \/ phase[r] = "ended" /\ answer[r] \in {"none", "ServerError"}

(***************************************************************************)
(* The answers of each operation: of a request that had its effects, and   *)
(* of one that had none.                                                   *)
(***************************************************************************)
Success ==
  [ createModel        |-> {"Created"},
    validate           |-> {},
    deleteModel        |-> {"OK"},
    validateDeleteById |-> {},
    updateMetadata     |-> {"OK"},
    updateStatus       |-> {"OK"} ]

Refusal ==
  [ createModel        |-> {"BadRequest"},
    validate           |-> {"Valid", "Invalid"},
    deleteModel        |-> {"BadRequest"},
    validateDeleteById |-> {"Valid", "Invalid"},
    updateMetadata     |-> {"BadRequest", "Conflict"},
    updateStatus       |-> {"BadRequest", "Conflict"} ]

(* A pending request ends with one of these answers, or without an answer. *)
End(r, answers) ==
  /\ phase[r] = "pending"
  /\ phase' = [phase EXCEPT ![r] = "ended"]
  /\ \E a \in answers \cup {"ServerError", "none"} : answer' = [answer EXCEPT ![r] = a]

(* An effect is the last thing a pending request has to do, or comes late. *)
EndWith(r, answers) ==
  \/ End(r, answers)
  \/ phase[r] = "ended" /\ UNCHANGED <<phase, answer>>

-----------------------------------------------------------------------------
Init ==
  /\ \E cat \in InitialCatalogs :
       catalog = [k \in Keys |-> IF k \in Ids THEN cat[k] ELSE NoRecord]
  /\ job = [r \in Requests |-> "none"]
  /\ call = [r \in Requests |-> NoCall]
  /\ phase = [r \in Requests |-> "idle"]
  /\ answer = [r \in Requests |-> "none"]
  /\ wrote = {}
  /\ excused = {}

Arrive(r) ==
  /\ phase[r] = "idle"
  /\ \E c \in Calls : call' = [call EXCEPT ![r] = Controller(c)]
  /\ phase' = [phase EXCEPT ![r] = "pending"]
  /\ UNCHANGED <<catalog, job, answer, wrote, excused>>

(* A request that has had no effect is refused; any may fail.              *)
Refuse(r) ==
  /\ End(r, IF job[r] = "none" THEN Refusal[call[r].op] ELSE {})
  /\ UNCHANGED <<catalog, job, call, wrote, excused>>

OpenIngestion(r) ==
  /\ Undecided(r)
  /\ call[r].op = "createModel"
  /\ job[r] = "none"
  /\ job' = [job EXCEPT ![r] = "open"]
  /\ EndWith(r, Success["createModel"])
  /\ UNCHANGED <<catalog, call, wrote, excused>>

(* The deletion of a record that is not the best terrain and that nobody   *)
(* else is deleting, as far as the request could know.  Its mark is still  *)
(* to be written.                                                          *)
OpenDeletion(r) ==
  LET k == call[r].id IN
  /\ Undecided(r)
  /\ call[r].op = "deleteModel"
  /\ job[r] = "none"
  /\ catalog[k] # NoRecord => catalog[k].type # QUANTIZED_MESH_DTM_BEST
  /\ Doomed(k) => r \in excused
  /\ job' = [job EXCEPT ![r] = "open"]
  /\ EndWith(r, {}) \/ UNCHANGED <<phase, answer>>
  /\ UNCHANGED <<catalog, call, wrote, excused>>

(* What a request makes of its record.                                     *)
Effect(c, record) ==
  CASE c.op = "updateMetadata" -> Patched(record, c)
    [] c.op = "updateStatus"   -> [record EXCEPT !.status = c.status]
    [] c.op = "deleteModel"    -> [record EXCEPT !.status = BEING_DELETED]

(* A record that is being deleted is changed only by the requests that its *)
(* mark has overtaken, and a deletion marks only what its job will remove. *)
Write(r) ==
  LET k == call[r].id IN
  /\ Undecided(r)
  /\ r \notin wrote
  /\ call[r].op \in {"updateMetadata", "updateStatus", "deleteModel"}
  /\ call[r].op = "deleteModel" => job[r] = "open"
  /\ catalog[k] # NoRecord
  /\ Doomed(k) => r \in excused
  /\ catalog' = [catalog EXCEPT ![k] = Effect(call[r], @)]
  /\ wrote' = wrote \cup {r}
  /\ \/ excused' = excused
     \/ /\ Effect(call[r], catalog[k]).status = BEING_DELETED
        /\ \E S \in SUBSET {s \in Requests : Undecided(s) /\ s \notin wrote /\ call[s].id = k} :
             excused' = excused \cup S
  /\ EndWith(r, Success[call[r].op])
  /\ UNCHANGED <<job, call>>

(* The jobs: a model appears once, and only what was marked by a deletion, *)
(* or was to be, disappears.                                               *)
Ingest(r) ==
  /\ job[r] = "open"
  /\ call[r].op = "createModel"
  /\ catalog[r] = NoRecord
  /\ catalog' = [catalog EXCEPT ![r] = IngestedRecord(call[r])]
  /\ job' = [job EXCEPT ![r] = "done"]
  /\ UNCHANGED <<call, phase, answer, wrote, excused>>

Remove(r) ==
  LET k == call[r].id IN
  /\ job[r] = "open"
  /\ call[r].op = "deleteModel"
  /\ catalog[k] # NoRecord => catalog[k].type # QUANTIZED_MESH_DTM_BEST
  /\ catalog' = [catalog EXCEPT ![k] = NoRecord]
  /\ job' = [job EXCEPT ![r] = "done"]
  /\ UNCHANGED <<call, phase, answer, wrote, excused>>

Next ==
  \E r \in Requests :
    \/ Arrive(r)
    \/ Refuse(r)
    \/ OpenIngestion(r)
    \/ OpenDeletion(r)
    \/ Write(r)
    \/ Ingest(r)
    \/ Remove(r)

Spec == Init /\ [][Next]_vars
================================================================================
