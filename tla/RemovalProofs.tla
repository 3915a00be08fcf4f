---------------------------- MODULE RemovalProofs ----------------------------
(***************************************************************************)
(* What the removal of records guarantees, for every value of the          *)
(* constants: the best terrain stays, a record that is to be removed       *)
(* without being marked has a reason to be, and so has a second deletion.  *)
(*                                                                         *)
(* The argument: from the moment deleteModel has looked at a record until  *)
(* its job is done, the record is the one it looked at.  No ingestion      *)
(* makes it anew (RemovesOld), so that its type is still the one that was  *)
(* checked (NeverTheBest), and the only thing that can cover up its mark   *)
(* is a status change that the mark has overtaken.  A second deletion can  *)
(* therefore only begin before the first mark, after a failure, or after   *)
(* such a cover-up (Unaware).                                              *)
(***************************************************************************)
EXTENDS AnswerProofs

(* Request r has found a record to delete, or opened the job.              *)
Removal(r) == pc[r] \in {"delete.job", "delete.mark"} \/ r \in DeleteJobs

RemovesOld ==
  \A r \in Requests :
    Removal(r) /\ call[r].id \in Requests => job[call[r].id] = "done"

NeverTheBest ==
  \A r \in Requests :
    Removal(r) /\ IsRecord(call[r].id) =>
      catalog[call[r].id].type # QUANTIZED_MESH_DTM_BEST

RemovalInv == RemovesOld /\ NeverTheBest /\ UnmarkedDeletionExplained

(* Nothing is removed at the start.                                        *)
LEMMA InitRemovalInv == Init => RemovalInv
BY DEF Init, RemovalInv, RemovesOld, NeverTheBest, UnmarkedDeletionExplained,
       Removal, DeleteJobs

(* A removal is one of a received request that names a record.             *)
LEMMA RemovalIsOfRecord ==
  ASSUME TypeOK, NEW r \in Requests, Removal(r)
  PROVE  pc[r] # "idle" /\ call[r].op = "deleteModel" /\ call[r].id \in Keys
<1>1. CASE pc[r] \in {"delete.job", "delete.mark"}
  BY <1>1, StepTellsOp, StepsOfOps, ReadType DEF Placed
<1>2. CASE r \in DeleteJobs
  BY <1>2 DEF DeleteJobs, TypeOK, WellFormed
<1>. QED
  BY <1>1, <1>2 DEF Removal

(* A job changes in three ways only.                                       *)
LEMMA JobsMove ==
  ASSUME TypeOK, DeletionInv, [Next]_vars, NEW q \in Requests
  PROVE  \/ job'[q] = job[q]
         \/ job[q] = "open" /\ job'[q] = "done"
         \/ job[q] = "none" /\ job'[q] = "open" /\ Opens(q) /\ call' = call
<1>1. CASE Unseen
  BY <1>1 DEF Unseen
<1>2. ASSUME NEW r \in Requests, Receive(r) \/ Crash(r) PROVE job'[q] = job[q]
  BY <1>2 DEF Receive, Crash, services
<1>3. ASSUME NEW r \in Requests, RunIngestion(r) \/ RunDelete(r)
      PROVE  job'[q] = job[q] \/ (job[q] = "open" /\ job'[q] = "done")
  BY <1>3 DEF RunIngestion, RunDelete, TypeOK
<1>4. ASSUME NEW r \in Requests, Quiet(r) \/ Patches(r) \/ Marks(r) PROVE job'[q] = job[q]
  BY <1>4 DEF Quiet, Patches, Marks, ApplyPatch, ApplyStatus
<1>5. ASSUME NEW r \in Requests, Opens(r)
      PROVE  job'[q] = job[q] \/ (job[q] = "none" /\ job'[q] = "open" /\ q = r)
  BY <1>5, BeforeJobSteps DEF Opens, OpenJob, TypeOK, DeletionInv, NoJobBeforeAsking
<1>. QED
  BY <1>1, <1>2, <1>3, <1>4, <1>5, StepKinds

(* A record comes with the job that ingests it; while it stays it keeps    *)
(* its type.                                                               *)
LEMMA RecordsMove ==
  ASSUME TypeOK, DeletionInv, [Next]_vars, NEW k \in Keys, IsRecord(k)'
  PROVE  \/ IsRecord(k) /\ catalog'[k].type = catalog[k].type
         \/ ~IsRecord(k) /\ k \in Requests /\ job[k] = "open"
<1>1. CASE Unseen
  BY <1>1 DEF Unseen, IsRecord
<1>2. ASSUME NEW r \in Requests, Receive(r) \/ Crash(r) \/ Quiet(r) \/ Opens(r)
      PROVE  catalog'[k] = catalog[k]
  BY <1>2 DEF Receive, Crash, services, Quiet, Opens, OpenJob
<1>3. ASSUME NEW r \in Requests, RunIngestion(r)
      PROVE  catalog'[k] = catalog[k] \/ (~IsRecord(k) /\ k \in Requests /\ job[k] = "open")
  BY <1>3 DEF RunIngestion, TypeOK, DeletionInv, IngestedByDoneJob
<1>4. ASSUME NEW r \in Requests, RunDelete(r)
      PROVE  catalog'[k] = catalog[k]
  BY <1>4 DEF RunDelete, TypeOK, IsRecord
<1>5. ASSUME NEW r \in Requests, Patches(r)
      PROVE  IsRecord(k) /\ catalog'[k].type = catalog[k].type
  <2>. DEFINE record == Patched(catalog[call[r].id], call[r])
  <2>1. Rewrites(call[r].id, record) /\ record.type = catalog[call[r].id].type
    BY <1>5, PatchRewrites
  <2>. HIDE DEF record
  <2>. QED
    BY <2>1 DEF Rewrites, IsRecord, TypeOK
<1>6. ASSUME NEW r \in Requests, Marks(r)
      PROVE  IsRecord(k) /\ catalog'[k].type = catalog[k].type
  <2>1. PICK s \in RecordStatus : call[r].id \in Keys /\ ApplyStatus(r, call[r].id, s)
    BY <1>6 DEF Marks, RecordStatus
  <2>. DEFINE record == [catalog[call[r].id] EXCEPT !.status = s]
  <2>2. Rewrites(call[r].id, record) /\ record.type = catalog[call[r].id].type
    BY <2>1, MarkRewrites
  <2>. HIDE DEF record
  <2>. QED
    BY <2>2 DEF Rewrites, IsRecord, TypeOK
<1>. QED
  BY <1>1, <1>2, <1>3, <1>4, <1>5, <1>6, StepKinds DEF IsRecord

(* A removal begins when deleteModel finds a record that is not the best   *)
(* terrain.                                                                *)
LEMMA RemovalBegins ==
  ASSUME TypeOK, DeletionInv, AnswerInv, [Next]_vars, NEW r \in Requests,
         Removal(r)', ~Removal(r)
  PROVE  /\ UNCHANGED <<catalog, job, call>>
         /\ IsRecord(call[r].id)
         /\ catalog[call[r].id].type # QUANTIZED_MESH_DTM_BEST
         /\ job[r] = "none"
<1>1. job[r] # "none" => call[r].op # "deleteModel"
  BY DEF Removal, DeleteJobs
<1>2. PICK q \in Requests :
        \/ Unseen \/ Receive(q) \/ Crash(q) \/ RunIngestion(q) \/ RunDelete(q)
        \/ call' = call /\ (Patches(q) \/ Marks(q) \/ Opens(q))
        \/ call' = call /\ Quiet(q)
  BY StepKinds
<1>3. CASE Unseen
  BY <1>3 DEF Unseen, Removal, DeleteJobs
<1>4. CASE Receive(q)
  <2>1. PICK c \in Calls : /\ pc' = [pc EXCEPT ![q] = FirstStep[c.op]]
                           /\ call' = [call EXCEPT ![q] = Controller(c)]
    BY <1>4 DEF Receive, Await
  <2>2. FirstStep[c.op] \notin {"delete.job", "delete.mark"}
    BY CallAssumption DEF Payloads, Ops, FirstStep
  <2>3. job' = job /\ job[q] = "none"
    BY <1>4 DEF Receive, services, TypeOK
  <2>. QED
    BY <2>1, <2>2, <2>3 DEF Removal, DeleteJobs, TypeOK
<1>5. CASE Crash(q)
  BY <1>5 DEF Crash, services, Removal, DeleteJobs, TypeOK
<1>6. CASE RunIngestion(q) \/ RunDelete(q)
  BY <1>6 DEF RunIngestion, RunDelete, Removal, DeleteJobs, TypeOK
<1>7. CASE call' = call /\ (Patches(q) \/ Marks(q))
  BY <1>7 DEF Patches, Marks, Goes, ApplyPatch, ApplyStatus, Removal, DeleteJobs, TypeOK
<1>8. CASE call' = call /\ Opens(q)
  <2>1. \/ pc[q] = "create.ingest" /\ call[q].op = "createModel"
        \/ pc[q] = "delete.job"
    BY <1>8 DEF Opens, AnswerInv, Truthful
  <2>2. /\ pc'[q] \in {"answered", "crashed", "delete.mark"}
        /\ pc[q] = "create.ingest" => pc'[q] # "delete.mark"
    BY <1>8 DEF Opens, Goes, TypeOK
  <2>3. \A p \in Requests : p # q => pc'[p] = pc[p] /\ job'[p] = job[p]
    BY <1>8 DEF Opens, OpenJob, Goes, TypeOK
  <2>. QED
    BY <1>8, <2>1, <2>2, <2>3 DEF Removal, DeleteJobs
<1>9. CASE call' = call /\ Quiet(q)
  <2>1. PICK s : QuietTarget(q, s) /\ pc' = [pc EXCEPT ![q] = s]
    BY <1>9 DEF Quiet
  <2>2. UNCHANGED <<catalog, job, call>>
    BY <1>9 DEF Quiet
  <2>3. q = r /\ s = "delete.job"
    BY <2>1, <2>2 DEF Removal, DeleteJobs, QuietTarget, TypeOK
  <2>4. job[r] = "none"
    BY <2>1, <2>3 DEF QuietTarget, BeforeJob, DeletionInv, NoJobBeforeAsking
  <2>. QED
    BY <2>1, <2>2, <2>3, <2>4 DEF QuietTarget
<1>. QED
  BY <1>2, <1>3, <1>4, <1>5, <1>6, <1>7, <1>8, <1>9

(* No job makes anew what a removal is about.                              *)
LEMMA NextRemovesOld ==
  ASSUME TypeOK, DeletionInv, AnswerInv, RemovesOld, [Next]_vars
  PROVE  RemovesOld'
<1>. SUFFICES ASSUME NEW r \in Requests, Removal(r)', call'[r].id \in Requests
              PROVE  job'[call'[r].id] = "done"
  BY DEF RemovesOld
<1>1. CASE Removal(r)
  <2>1. call'[r] = call[r]
    BY <1>1, RemovalIsOfRecord, CallsLast
  <2>2. job[call[r].id] = "done"
    BY <1>1, <2>1 DEF RemovesOld
  <2>. QED
    BY <2>1, <2>2, JobsMove
<1>2. CASE ~Removal(r)
  BY <1>2, RemovalBegins DEF DeletionInv, IngestedByDoneJob
<1>. QED
  BY <1>1, <1>2

(* Who is removed was there all the time, and has the type that was        *)
(* checked.                                                                *)
LEMMA RemovedWasThere ==
  ASSUME TypeOK, DeletionInv, AnswerInv, RemovesOld, [Next]_vars, NEW r \in Requests,
         Removal(r), IsRecord(call[r].id)'
  PROVE  /\ IsRecord(call[r].id)
         /\ catalog'[call[r].id].type = catalog[call[r].id].type
<1>1. call'[r] = call[r] /\ call[r].id \in Keys
  BY RemovalIsOfRecord, CallsLast
<1>2. PICK k \in Keys : k = call[r].id
  BY <1>1
<1>3. IsRecord(k)'
  BY <1>1, <1>2 DEF IsRecord
<1>4. k \in Requests => job[k] = "done"
  BY <1>2 DEF RemovesOld
<1>. QED
  BY <1>2, <1>3, <1>4, RecordsMove

(* A removal is never of the best terrain.                                 *)
LEMMA NextNeverTheBest ==
  ASSUME TypeOK, DeletionInv, AnswerInv, RemovesOld, NeverTheBest, [Next]_vars
  PROVE  NeverTheBest'
<1>. SUFFICES ASSUME NEW r \in Requests, Removal(r)', IsRecord(call[r].id)'
              PROVE  catalog'[call'[r].id].type # QUANTIZED_MESH_DTM_BEST
  BY DEF NeverTheBest
<1>1. CASE Removal(r)
  BY <1>1, RemovalIsOfRecord, CallsLast, RemovedWasThere DEF NeverTheBest
<1>2. CASE ~Removal(r)
  BY <1>2, RemovalBegins
<1>. QED
  BY <1>1, <1>2

(* Who takes a record away is the job of a deletion.                       *)
LEMMA RecordsGoByJobs ==
  ASSUME TypeOK, DeletionInv, [Next]_vars, NEW k \in Keys, IsRecord(k), catalog'[k] = NoRecord
  PROVE  \E r \in Requests : RunDelete(r) /\ Removal(r) /\ call[r].id = k
<1>1. CASE Unseen
  BY <1>1 DEF Unseen, IsRecord
<1>2. ASSUME NEW r \in Requests, Receive(r) \/ Crash(r) \/ Quiet(r) \/ Opens(r) PROVE FALSE
  BY <1>2 DEF Receive, Crash, services, Quiet, Opens, OpenJob, IsRecord
<1>3. ASSUME NEW r \in Requests, RunIngestion(r) PROVE FALSE
  <2>1. k # r
    BY <1>3 DEF RunIngestion, DeletionInv, IngestedByDoneJob
  <2>. QED
    BY <1>3, <2>1 DEF RunIngestion, TypeOK, IsRecord
<1>4. ASSUME NEW r \in Requests, RunDelete(r) PROVE RunDelete(r) /\ Removal(r) /\ call[r].id = k
  BY <1>4 DEF RunDelete, TypeOK, IsRecord, Removal, DeleteJobs
<1>5. ASSUME NEW r \in Requests, Patches(r) PROVE FALSE
  <2>. DEFINE record == Patched(catalog[call[r].id], call[r])
  <2>1. Rewrites(call[r].id, record)
    BY <1>5, PatchRewrites
  <2>. HIDE DEF record
  <2>. QED
    BY <2>1, RewriteKeepsRecords DEF IsRecord
<1>6. ASSUME NEW r \in Requests, Marks(r) PROVE FALSE
  <2>1. PICK s \in RecordStatus : call[r].id \in Keys /\ ApplyStatus(r, call[r].id, s)
    BY <1>6 DEF Marks, RecordStatus
  <2>. DEFINE record == [catalog[call[r].id] EXCEPT !.status = s]
  <2>2. Rewrites(call[r].id, record)
    BY <2>1, MarkRewrites
  <2>. HIDE DEF record
  <2>. QED
    BY <2>2, RewriteKeepsRecords DEF IsRecord
<1>. QED
  BY <1>1, <1>2, <1>3, <1>4, <1>5, <1>6, StepKinds

-----------------------------------------------------------------------------
(* Removals without a mark.                                                *)

(* A status change that had read record k before a mark has covered it up. *)
CoveredUp(k) ==
  \E t \in overtaken \cap wrote : call[t].op = "updateStatus" /\ call[t].id = k

(* There is a reason why the record that r removes has no mark.            *)
Explained(r) ==
  \/ pc[r] \in {"delete.mark", "crashed"}
  \/ answer[r] = "ServerError"
  \/ CoveredUp(call[r].id)

(* The histories only grow.                                                *)
LEMMA HistoryGrows ==
  ASSUME TypeOK, [Next]_vars
  PROVE  overtaken \subseteq overtaken' /\ wrote \subseteq wrote'
<1>1. ASSUME NEW r \in Requests,
             \/ Receive(r) \/ Crash(r) \/ RunIngestion(r) \/ RunDelete(r)
             \/ Quiet(r) \/ Patches(r) \/ Marks(r) \/ Opens(r)
      PROVE  overtaken \subseteq overtaken' /\ wrote \subseteq wrote'
  BY <1>1 DEF Receive, Crash, RunIngestion, RunDelete, history, Quiet, Patches, Marks,
              ApplyPatch, ApplyStatus, Opens, OpenJob
<1>. QED
  BY <1>1, StepKinds DEF Unseen

(* A cover-up lasts.                                                       *)
LEMMA CoverUpLasts ==
  ASSUME TypeOK, WritesLast, [Next]_vars, NEW k, CoveredUp(k)
  PROVE  CoveredUp(k)'
<1>1. PICK t \in overtaken \cap wrote : call[t].op = "updateStatus" /\ call[t].id = k
  BY DEF CoveredUp
<1>2. t \in Requests /\ pc[t] # "idle"
  BY DEF TypeOK, WritesLast
<1>3. call'[t] = call[t] /\ t \in overtaken' \cap wrote'
  BY <1>2, CallsLast, HistoryGrows
<1>. QED
  BY <1>1, <1>3 DEF CoveredUp

(* So it does for the request that it is an excuse for.                    *)
LEMMA CoverUpStays ==
  ASSUME TypeOK, WritesLast, [Next]_vars, NEW r \in Requests, Removal(r), CoveredUp(call[r].id)
  PROVE  CoveredUp(call[r].id)'
<1>1. PICK k \in Keys : k = call[r].id
  BY RemovalIsOfRecord
<1>2. CoveredUp(k)' /\ call'[r] = call[r]
  BY <1>1, CoverUpLasts, RemovalIsOfRecord, CallsLast
<1>. QED
  BY <1>1, <1>2 DEF CoveredUp

(* A mark that is applied is there.                                        *)
LEMMA MarkIsThere ==
  ASSUME TypeOK, NEW r \in Requests, NEW k \in Keys, ApplyStatus(r, k, BEING_DELETED)
  PROVE  IsRecord(k) /\ catalog'[k] # NoRecord /\ catalog'[k].status = BEING_DELETED
<1>. DEFINE record == [catalog[k] EXCEPT !.status = BEING_DELETED]
<1>1. Rewrites(k, record) /\ record.status = BEING_DELETED
  BY MarkRewrites DEF RecordStatus
<1>. HIDE DEF record
<1>. QED
  BY <1>1, MarkerAssumption DEF Rewrites, TypeOK

(* A request that is about to mark does so, or fails towards its client.   *)
LEMMA MarkingEnds ==
  ASSUME TypeOK, DeletionInv, WritesLast, NEW r \in Requests, Handle(r) \/ Deliver(r),
         pc[r] = "delete.mark"
  PROVE  answer'[r] = "ServerError" \/ IsBeingDeleted(call[r].id)'
<1>1. r \notin wrote /\ call' = call
  BY HandleKinds, DeliverKinds DEF Placed, WritesLast
<1>2. CASE r \in wrote'
  <2>1. call[r].id \in Keys /\ ApplyStatus(r, call[r].id, BEING_DELETED)
    BY <1>1, <1>2, HandleKinds, DeliverKinds DEF Quiet, Patches, Marks, Opens, OpenJob, history
  <2>. QED
    BY <1>1, <2>1, MarkIsThere DEF IsBeingDeleted, IsRecord
<1>3. CASE Handle(r)
  <2>1. PICK a \in Answers :
          /\ Respond(r, a)
          /\ a = "ServerError" \/ (a = "OK" /\ r \in wrote')
    BY <1>3, MetadataOutcome, ModelOutcome DEF Handle, Continues, Ends
  <2>. QED
    BY <1>2, <2>1 DEF Respond, TypeOK
<1>4. CASE Deliver(r)
  BY <1>2, <1>4 DEF Deliver, ApplyStatus
<1>. QED
  BY <1>3, <1>4

(* A received request goes on by its handler, or dies, or ends with its    *)
(* call under way, which may be carried out later.                         *)
LEMMA PlacesMove ==
  ASSUME TypeOK, [Next]_vars, NEW q \in Requests, pc[q] # "idle"
  PROVE  \/ pc'[q] = pc[q] /\ answer'[q] = answer[q]
         \/ pc'[q] = pc[q] /\ answer'[q] = "ServerError"
         \/ Waiting(q) /\ pc'[q] = "crashed"
         \/ Placed(q) /\ (Handle(q) \/ Deliver(q))
<1>1. ASSUME NEW r \in Requests, Receive(r)
      PROVE  pc'[q] = pc[q] /\ answer'[q] = answer[q]
  BY <1>1 DEF Receive, Await, TypeOK
<1>2. ASSUME NEW r \in Requests, Crash(r)
      PROVE  \/ pc'[q] = pc[q] /\ answer'[q] = answer[q]
             \/ Waiting(q) /\ pc'[q] = "crashed"
  BY <1>2 DEF Crash, TypeOK
<1>3. ASSUME NEW r \in Requests, Handle(r) \/ Deliver(r)
      PROVE  \/ pc'[q] = pc[q] /\ answer'[q] = answer[q]
             \/ Placed(q) /\ (Handle(q) \/ Deliver(q))
  BY <1>3, HandleKinds, DeliverKinds, HandleIsLocal
<1>4. ASSUME NEW r \in Requests, RunIngestion(r) \/ RunDelete(r)
      PROVE  pc' = pc /\ answer' = answer
  BY <1>4 DEF RunIngestion, RunDelete
<1>5. CASE (\E n \in Lockable : ToggleLock(n)) \/ Rest \/ UNCHANGED vars
  BY <1>5 DEF ToggleLock, Rest, vars
<1>6. ASSUME NEW r \in Requests, Abandon(r)
      PROVE  pc'[q] = pc[q] /\ answer'[q] \in {answer[q], "ServerError"}
  BY <1>6 DEF Abandon, TypeOK
<1>. QED
  BY <1>1, <1>2, <1>3, <1>4, <1>5, <1>6 DEF Next, RunJob

(* A handler that is at another step than before has taken it itself.      *)
LEMMA StepTaken ==
  ASSUME TypeOK, [Next]_vars, NEW r \in Requests,
         pc'[r] # pc[r], pc'[r] \notin {"answered", "crashed"}
  PROVE  \/ pc[r] = "idle" /\ Receive(r)
         \/ Placed(r) /\ Handle(r) /\ call' = call /\ pc'[r] \in Steps[call[r].op]
<1>1. CASE pc[r] = "idle"
  <2>1. PICK q \in Requests :
          \/ Unseen \/ Receive(q) \/ Crash(q) \/ RunIngestion(q) \/ RunDelete(q)
          \/ Placed(q) /\ (Quiet(q) \/ Patches(q) \/ Marks(q) \/ Opens(q))
    BY StepKinds
  <2>2. CASE Receive(q)
    BY <2>2, <1>1 DEF Receive, Await, TypeOK
  <2>3. CASE Unseen \/ Crash(q) \/ RunIngestion(q) \/ RunDelete(q)
    BY <2>3 DEF Unseen, Crash, RunIngestion, RunDelete, TypeOK
  <2>4. CASE Placed(q) /\ (Quiet(q) \/ Patches(q) \/ Marks(q) \/ Opens(q))
    BY <1>1, <2>4 DEF Quiet, Patches, Marks, Opens, Goes, TypeOK, Placed
  <2>. QED
    BY <1>1, <2>1, <2>2, <2>3, <2>4
<1>2. CASE pc[r] # "idle"
  <2>1. Placed(r) /\ (Handle(r) \/ Deliver(r))
    BY <1>2, PlacesMove
  <2>2. ~Deliver(r)
    BY DeliverTyped DEF TypeOK
  <2>3. HandlerStep(r)
    BY <2>1, <2>2, MetadataStepIsHandlerStep, ModelManagerStepIsHandlerStep DEF Handle
  <2>4. call' = call /\ pc'[r] \in Steps[call[r].op]
    BY <2>3 DEF HandlerStep, Moves, Await, Respond, TypeOK
  <2>. QED
    BY <2>1, <2>2, <2>4
<1>. QED
  BY <1>1, <1>2

(* A job is opened by the handler of its own request, or late.             *)
LEMMA OpenedByRequest ==
  ASSUME TypeOK, [Next]_vars, NEW q \in Requests, job[q] = "none", job'[q] = "open"
  PROVE  Handle(q) \/ Deliver(q)
<1>1. ASSUME NEW r \in Requests, Receive(r) \/ Crash(r) \/ Abandon(r) PROVE FALSE
  BY <1>1 DEF Receive, Crash, Abandon, services
<1>2. ASSUME NEW r \in Requests, Handle(r) \/ Deliver(r) PROVE Handle(q) \/ Deliver(q)
  BY <1>2, HandleIsLocal
<1>3. ASSUME NEW r \in Requests, RunIngestion(r) \/ RunDelete(r) PROVE FALSE
  BY <1>3 DEF RunIngestion, RunDelete, TypeOK
<1>4. CASE (\E n \in Lockable : ToggleLock(n)) \/ Rest \/ UNCHANGED vars
  BY <1>4 DEF ToggleLock, Rest, vars
<1>. QED
  BY <1>1, <1>2, <1>3, <1>4 DEF Next, RunJob

(* A deletion that has just opened its job goes on to the mark, or has     *)
(* failed towards its client, or is dead.                                  *)
LEMMA OpeningIsExplained ==
  ASSUME TypeOK, DeletionInv, AnswerInv, [Next]_vars, NEW r \in Requests,
         job[r] = "none", job'[r] = "open", Opens(r), call[r].op = "deleteModel"
  PROVE  Explained(r)'
<1>1. pc[r] = "delete.job" /\ Goes(r, {"delete.mark", "answered", "crashed"})
  BY DEF Opens, AnswerInv, Truthful
<1>2. CASE Continues(r)
  BY <1>1, <1>2 DEF Continues, Await, Goes, Explained, TypeOK
<1>3. CASE Ends(r)
  <2>1. Respond(r, "ServerError")
    BY <1>1, <1>3 DEF Ends
  <2>. QED
    BY <2>1 DEF Respond, Explained, TypeOK
<1>4. CASE Deliver(r)
  <2>1. answer[r] \in {"none", "ServerError"} /\ answer' = answer
    BY <1>1, <1>4 DEF Deliver, AnswerInv, Truthful
  <2>2. pc'[r] = IF answer[r] = "none" THEN "crashed" ELSE "answered"
    BY <1>4 DEF Deliver, TypeOK
  <2>. QED
    BY <2>1, <2>2 DEF Explained
<1>. QED
  BY <1>2, <1>3, <1>4, OpenedByRequest, MetadataOutcome, ModelOutcome DEF Handle

(* The mark of a record that stays is covered up by an overtaken status    *)
(* change.                                                                 *)
LEMMA CoverUp ==
  ASSUME TypeOK, DeletionInv, [Next]_vars, NEW k \in Keys,
         IsBeingDeleted(k), IsRecord(k)', ~IsBeingDeleted(k)'
  PROVE  \E s \in overtaken' \cap wrote' : call'[s].op = "updateStatus" /\ call'[s].id = k
<1>1. PICK s \in Requests :
        \/ RunIngestion(s) \/ RunDelete(s) \/ Patches(s)
        \/ call' = call /\ Marks(s)
  BY StepKinds
     DEF Unseen, Receive, Crash, services, Quiet, Opens, OpenJob, IsBeingDeleted, IsRecord
<1>2. CASE RunIngestion(s)
  <2>1. k # s
    BY <1>2 DEF RunIngestion, DeletionInv, IngestedByDoneJob, IsBeingDeleted
  <2>. QED
    BY <1>2, <2>1 DEF RunIngestion, TypeOK, IsBeingDeleted, IsRecord
<1>3. CASE RunDelete(s)
  BY <1>3 DEF RunDelete, TypeOK, IsBeingDeleted, IsRecord
<1>4. CASE Patches(s)
  <2>. DEFINE record == Patched(catalog[call[s].id], call[s])
  <2>1. Rewrites(call[s].id, record) /\ record.status = catalog[call[s].id].status
    BY <1>4, PatchRewrites
  <2>. HIDE DEF record
  <2>. QED
    BY <2>1, RewriteKeepsRecords DEF IsBeingDeleted
<1>5. CASE call' = call /\ Marks(s)
  <2>1. PICK t \in RecordStatus :
          /\ call[s].id \in Keys
          /\ ApplyStatus(s, call[s].id, t)
          /\ \/ pc[s] = "delete.mark" /\ t = BEING_DELETED
             \/ pc[s] = "status.change" /\ call[s].op = "updateStatus"
    BY <1>5 DEF Marks, RecordStatus
  <2>2. IsBeingDeleted(k)' <=> IF k = call[s].id THEN t = BEING_DELETED ELSE IsBeingDeleted(k)
    <3>. DEFINE record == [catalog[call[s].id] EXCEPT !.status = t]
    <3>1. Rewrites(call[s].id, record) /\ record.status = t
      BY <2>1, MarkRewrites
    <3>. HIDE DEF record
    <3>. QED
      BY <3>1, RewriteKeepsRecords
  <2>3. k = call[s].id /\ pc[s] = "status.change" /\ call[s].op = "updateStatus"
    BY <2>1, <2>2
  <2>4. s \in overtaken
    BY <2>3, PastStatusCheckSteps DEF DeletionInv, OnlyOvertakenAreStale
  <2>5. s \in wrote' /\ s \in overtaken'
    BY <2>1, <2>4 DEF ApplyStatus
  <2>. QED
    BY <1>5, <2>3, <2>5
<1>. QED
  BY <1>1, <1>2, <1>3, <1>4, <1>5

(* An explanation lasts until the mark is there.                           *)
LEMMA ExplanationLasts ==
  ASSUME TypeOK, DeletionInv, WritesLast, AnswerInv, [Next]_vars, NEW r \in Requests,
         Explained(r), Removal(r)
  PROVE  Explained(r)' \/ IsBeingDeleted(call[r].id)'
<1>. pc[r] # "idle"
  BY RemovalIsOfRecord
<1>1. CASE pc[r] = "delete.mark"
  BY <1>1, PlacesMove, MarkingEnds DEF Explained
<1>2. CASE pc[r] = "crashed"
  BY <1>2, PlacesMove DEF Explained, Waiting, Ended, Placed
<1>3. CASE answer[r] = "ServerError"
  <2>1. pc[r] = "answered" \/ r \in late
    BY <1>3 DEF AnswerInv, Truthful
  <2>2. ~Waiting(r) /\ ~(Placed(r) /\ Handle(r))
    BY <2>1 DEF Waiting, Ended, Placed, Handle
  <2>3. Deliver(r) => answer' = answer
    BY DEF Deliver
  <2>. QED
    BY <1>3, <2>2, <2>3, PlacesMove DEF Explained
<1>4. CASE CoveredUp(call[r].id)
  BY <1>4, CoverUpStays DEF Explained
<1>. QED
  BY <1>1, <1>2, <1>3, <1>4 DEF Explained

(* Every step keeps every removal without a mark explained.                *)
LEMMA NextUnmarkedDeletionExplained ==
  ASSUME TypeOK, DeletionInv, WritesLast, AnswerInv, RemovesOld,
         UnmarkedDeletionExplained, [Next]_vars
  PROVE  UnmarkedDeletionExplained'
<1>. SUFFICES ASSUME NEW r \in Requests, call'[r].op = "deleteModel", job'[r] = "open",
                     IsRecord(call[r].id)', ~IsBeingDeleted(call[r].id)'
              PROVE  Explained(r)'
  BY DEF UnmarkedDeletionExplained, DeleteJobs, Explained, CoveredUp
<1>1. CASE job[r] = "none"
  BY <1>1, JobsMove, OpeningIsExplained
<1>2. CASE job[r] = "open"
  <2>1. pc[r] # "idle"
    BY <1>2 DEF TypeOK
  <2>2. call'[r] = call[r]
    BY <2>1, CallsLast
  <2>3. r \in DeleteJobs /\ Removal(r)
    BY <1>2, <2>2 DEF DeleteJobs, Removal
  <2>4. call[r].id \in Keys /\ IsRecord(call[r].id)
    BY <2>3, RemovalIsOfRecord, RemovedWasThere
  <2>5. CASE IsBeingDeleted(call[r].id)
    <3>1. PICK k \in Keys : k = call[r].id
      BY <2>4
    <3>2. IsBeingDeleted(k) /\ IsRecord(k)' /\ ~IsBeingDeleted(k)'
      BY <2>2, <2>5, <3>1 DEF IsBeingDeleted, IsRecord
    <3>. QED
      BY <2>2, <3>1, <3>2, CoverUp DEF Explained, CoveredUp
  <2>6. CASE ~IsBeingDeleted(call[r].id)
    <3>1. Explained(r)
      BY <1>2, <2>3, <2>4, <2>6 DEF UnmarkedDeletionExplained, Explained, CoveredUp
    <3>. QED
      BY <2>3, <3>1, ExplanationLasts
  <2>. QED
    BY <2>5, <2>6
<1>. QED
  BY <1>1, <1>2, JobsMove

(* The three parts hold at any time.                                       *)
LEMMA RemovalInvariant == Spec => []RemovalInv
<1>1. /\ TypeOK /\ DeletionInv /\ WritesLast /\ AnswerInv /\ RemovalInv
      /\ [Next]_vars
      => RemovalInv'
  BY NextRemovesOld, NextNeverTheBest, NextUnmarkedDeletionExplained DEF RemovalInv
<1>. QED
  BY <1>1, InitRemovalInv, TypeCorrect, DeletionInvariant, RequestsWriteLast,
     AnswersStayTrue, PTL DEF Spec

(* A record that is to be removed without being marked is one whose        *)
(* deletion is still under way, has failed towards its client, or was      *)
(* covered up by a status change that had read the record before the mark: *)
(* deleteModel opens the job before it marks and never takes it back.      *)
THEOREM RemovalsExplained == Spec => []UnmarkedDeletionExplained
<1>1. RemovalInv => UnmarkedDeletionExplained
  BY DEF RemovalInv
<1>. QED
  BY <1>1, RemovalInvariant, PTL

(* The best terrain is never removed, though deleteModel checks the type   *)
(* only when it finds the record, and the job runs at some later time.     *)
THEOREM BestTerrainIsSafe == Spec => BestTerrainStays
<1>1. TypeOK /\ DeletionInv /\ RemovalInv /\ [Next]_vars =>
        [\A k \in Keys :
           IsRecord(k) /\ catalog[k].type = QUANTIZED_MESH_DTM_BEST =>
             catalog'[k] # NoRecord]_vars
  BY RecordsGoByJobs DEF RemovalInv, NeverTheBest
<1>. QED
  BY <1>1, RemovalInvariant, TypeCorrect, DeletionInvariant, PTL DEF Spec, BestTerrainStays

-----------------------------------------------------------------------------
(* Records that nothing removes.                                           *)

(* Nobody passes its status check on a record that is being deleted.       *)
LEMMA NobodyComesToRest ==
  ASSUME TypeOK, [Next]_vars, NEW k \in Keys, IsBeingDeleted(k), RestOn(k) = {},
         NEW r \in Requests, pc'[r] \in PastStatusCheck, call'[r].id = k
  PROVE  FALSE
<1>1. pc[r] \in PastStatusCheck => call[r].id # k
  BY DEF RestOn
<1>2. PICK q \in Requests :
        \/ Unseen
        \/ Receive(q)
        \/ Crash(q)
        \/ RunIngestion(q) \/ RunDelete(q)
        \/ call' = call /\ Quiet(q)
        \/ call' = call /\ (Patches(q) \/ Marks(q) \/ Opens(q))
  BY StepKinds
<1>3. CASE Unseen \/ RunIngestion(q) \/ RunDelete(q)
  BY <1>1, <1>3 DEF Unseen, RunIngestion, RunDelete
<1>4. CASE Receive(q)
  <2>1. PICK c \in Calls : /\ pc' = [pc EXCEPT ![q] = FirstStep[c.op]]
                           /\ call' = [call EXCEPT ![q] = Controller(c)]
    BY <1>4 DEF Receive, Await
  <2>2. FirstStep[c.op] \notin PastStatusCheck
    BY CallAssumption, PastStatusCheckSteps DEF Payloads, Ops, FirstStep
  <2>. QED
    BY <1>1, <2>1, <2>2 DEF TypeOK
<1>5. CASE Crash(q)
  BY <1>1, <1>5, PastStatusCheckSteps DEF Crash, TypeOK
<1>6. CASE call' = call /\ Quiet(q)
  BY <1>1, <1>6 DEF Quiet, QuietTarget, TypeOK
<1>7. CASE call' = call /\ (Patches(q) \/ Marks(q) \/ Opens(q))
  BY <1>1, <1>7, PastStatusCheckSteps DEF Patches, Marks, Opens, Goes, TypeOK
<1>. QED
  BY <1>2, <1>3, <1>4, <1>5, <1>6, <1>7

(* A deletion that is open was open, or its request rested on the record.  *)
LEMMA OpenDeletionFrom ==
  ASSUME TypeOK, DeletionInv, AnswerInv, [Next]_vars, NEW k \in Keys,
         NEW r \in Requests, OpenDeletion(r, k)'
  PROVE  OpenDeletion(r, k) \/ r \in RestOn(k)
<1>1. job'[r] = "open" /\ call'[r].op = "deleteModel" /\ call'[r].id = k
  BY DEF OpenDeletion, DeleteJobs
<1>2. CASE job[r] = "open"
  BY <1>1, <1>2, CallsLast DEF OpenDeletion, DeleteJobs, TypeOK
<1>3. CASE Opens(r) /\ call' = call
  BY <1>1, <1>3, PastStatusCheckSteps DEF Opens, RestOn, AnswerInv, Truthful
<1>. QED
  BY <1>1, <1>2, <1>3, JobsMove

(* A record that is marked, has no open deletion and no request about it   *)
(* past its status check, is neither changed nor removed any more: what a  *)
(* client marks with updateStatus, only the catalog itself can free.       *)
THEOREM StuckStaysStuck == Spec => StuckForGood
<1>1. ASSUME TypeOK, DeletionInv, WritesLast, AnswerInv, [Next]_vars, NEW k \in Keys, Stuck(k)
      PROVE  catalog'[k] = catalog[k] /\ Stuck(k)'
  <2>1. catalog'[k] \in {catalog[k], NoRecord}
    BY <1>1, Rewriters DEF Stuck, IsBeingDeleted, RestOn
  <2>2. catalog'[k] # NoRecord
    BY <1>1, RecordsGoByJobs DEF Stuck, IsBeingDeleted, OpenDeletion, DeleteJobs, RunDelete
  <2>3. IsBeingDeleted(k)'
    BY <1>1, <2>1, <2>2 DEF Stuck, IsBeingDeleted, IsRecord
  <2>4. (RestOn(k) = {})'
    BY <1>1, NobodyComesToRest DEF Stuck, RestOn, PastStatusCheck, Steps
  <2>5. \A r \in Requests : ~OpenDeletion(r, k)'
    BY <1>1, OpenDeletionFrom DEF Stuck
  <2>. QED
    BY <2>1, <2>2, <2>3, <2>4, <2>5 DEF Stuck
<1>2. TypeOK /\ DeletionInv /\ WritesLast /\ AnswerInv /\ [Next]_vars =>
        [\A k \in Keys : Stuck(k) => catalog'[k] = catalog[k] /\ Stuck(k)']_vars
  BY <1>1
<1>. QED
  BY <1>2, TypeCorrect, DeletionInvariant, RequestsWriteLast, AnswersStayTrue,
     PTL DEF Spec, StuckForGood
-----------------------------------------------------------------------------
(* Second deletions.                                                       *)

(* Request r has found its record, and has not ended.                      *)
Deleting(r) == pc[r] \in {"delete.job", "delete.mark"}

(* A deletion goes on only from a record that is there and unpublished.    *)
LEMMA DeletingBegins ==
  ASSUME TypeOK, DeletionInv, AnswerInv, [Next]_vars, NEW r \in Requests,
         Deleting(r)', ~Deleting(r)
  PROVE  /\ UNCHANGED <<catalog, job, call>>
         /\ Placed(r)
         /\ job[r] = "none"
         /\ IsRecord(call[r].id)
         /\ catalog[call[r].id].status = UNPUBLISHED
<1>1. pc'[r] \in {"delete.job", "delete.mark"} /\ pc[r] \notin {"delete.job", "delete.mark"}
  BY DEF Deleting
<1>2. ~Receive(r)
  <2>1. ASSUME Receive(r) PROVE FALSE
    <3>1. PICK c \in Calls : pc' = [pc EXCEPT ![r] = FirstStep[c.op]]
      BY <2>1 DEF Receive, Await
    <3>2. FirstStep[c.op] \notin {"delete.job", "delete.mark"}
      BY CallAssumption DEF Payloads, Ops, FirstStep
    <3>. QED
      BY <1>1, <3>1, <3>2 DEF TypeOK
  <2>. QED
    BY <2>1
<1>3. Placed(r) /\ Handle(r) /\ pc'[r] \in Steps[call[r].op]
  BY <1>1, <1>2, StepTaken
<1>4. call[r].op = "deleteModel" /\ pc[r] = "delete.find"
  BY <1>1, <1>3, StepTellsOp, StepsOfOps DEF Ops, IngestionSteps
<1>5. DeleteFindRecord(r)
  BY <1>3, <1>4
     DEF Handle, MetadataStep, UpdateGetRecord, UpdateGetFile, UpdateGetClassifications,
         UpdateFindName, UpdateReadAgain, UpdateCheckLock, UpdatePatch, StatusGetRecord,
         StatusCheckLock, StatusChange, ModelManagerStep, CheckModelPath, CheckTileset,
         ReadTileset, CheckProductId, CheckProductName, CheckClassification, StartIngestion,
         StartDeleteJob, MarkBeingDeleted, CanDelete
<1>6. isDeletable(catalog[call[r].id]) /\ UNCHANGED <<catalog, job, call>>
  BY <1>1, <1>5 DEF DeleteFindRecord, getRecord, CallFails, Respond, services, TypeOK
<1>7. job[r] = "none"
  BY <1>4 DEF DeletionInv, NoJobBeforeAsking, BeforeJob
<1>. QED
  BY <1>3, <1>6, <1>7 DEF isDeletable, validateDelete, IsRecord

(* How a deletion that has found its record goes on.                       *)
LEMMA DeletingMoves ==
  ASSUME TypeOK, NEW r \in Requests, Deleting(r), Handle(r)
  PROVE  StartDeleteJob(r) \/ MarkBeingDeleted(r)
BY DEF Deleting, Handle, MetadataStep, UpdateGetRecord, UpdateGetFile,
       UpdateGetClassifications, UpdateFindName, UpdateReadAgain, UpdateCheckLock,
       UpdatePatch, StatusGetRecord, StatusCheckLock, StatusChange, ModelManagerStep,
       CheckModelPath, CheckTileset, ReadTileset, CheckProductId, CheckProductName,
       CheckClassification, StartIngestion, DeleteFindRecord, CanDelete

(* A call that was abandoned stays so until it is carried out.             *)
LEMMA LateStays ==
  ASSUME [Next]_vars, NEW r \in late
  PROVE  r \in late' \/ Deliver(r)
<1>1. ASSUME NEW q \in Requests,
             Receive(q) \/ Handle(q) \/ Crash(q) \/ Abandon(q) \/ Deliver(q) \/ RunJob(q)
      PROVE  r \in late' \/ Deliver(r)
  BY <1>1 DEF Receive, Handle, Crash, Abandon, Deliver, RunJob, RunIngestion, RunDelete
<1>. QED
  BY <1>1 DEF Next, ToggleLock, Rest, vars

(* What has failed has failed for good, though its call may still be       *)
(* carried out.                                                            *)
LEMMA FailedForGood ==
  ASSUME TypeOK, [Next]_vars, NEW s \in Requests, Failed(s)
  PROVE  Failed(s)'
<1>1. pc[s] # "idle" /\ ~Waiting(s) /\ ~Handle(s)
  <2>1. CASE pc[s] \in {"answered", "crashed"}
    <3>1. ~Handle(s)
      BY <2>1, HandleKinds DEF Placed
    <3>. QED
      BY <2>1, <3>1 DEF Waiting, Ended
  <2>2. CASE s \in late
    BY <2>2 DEF Waiting, Ended, Handle, TypeOK, Effects
  <2>. QED
    BY <2>1, <2>2 DEF Failed, Ended
<1>2. CASE Deliver(s)
  BY <1>2, DeliverTyped DEF Failed, Ended, TypeOK
<1>3. CASE ~Deliver(s)
  <2>1. pc'[s] = pc[s] /\ answer'[s] \in {answer[s], "ServerError"}
    BY <1>1, <1>3, PlacesMove
  <2>2. s \in late => s \in late'
    BY <1>3, LateStays
  <2>. QED
    BY <2>1, <2>2 DEF Failed, Ended
<1>. QED
  BY <1>2, <1>3

(* A deletion ends with its mark, which overtakes whoever has found the    *)
(* same record, or fails.                                                  *)
LEMMA DeletingEnds ==
  ASSUME TypeOK, AnswerInv, [Next]_vars, NEW r \in Requests, Deleting(r), ~Deleting(r)',
         NEW q \in Requests, q # r, Deleting(q), call[q].id = call[r].id
  PROVE  Failed(r)' \/ q \in overtaken'
<1>1. Placed(r) /\ pc[r] # "idle" /\ pc[r] # "answered"
  BY DEF Deleting, Placed
<1>2. answer[r] # "OK"
  BY <1>1 DEF AnswerInv, Truthful
<1>3. pc'[r] # pc[r]
  BY DEF Deleting
<1>4. CASE pc'[r] = "crashed" /\ answer'[r] = answer[r]
  BY <1>2, <1>4 DEF Failed, Ended
<1>5. CASE Deliver(r)
  <2>1. Failed(r)
    BY <1>2, <1>5 DEF Deliver, Failed, Ended
  <2>. QED
    BY <2>1, FailedForGood
<1>6. CASE StartDeleteJob(r)
  BY <1>6
     DEF StartDeleteJob, ModelStep, CallFails, Await, Respond, Deleting, Failed, Ended, TypeOK
<1>7. CASE MarkBeingDeleted(r)
  <2>1. CASE ApplyStatus(r, call[r].id, BEING_DELETED)
    BY <2>1, PastStatusCheckSteps DEF ApplyStatus, RestOn, Deleting
  <2>2. CASE \E a \in {"ServerError"} : Respond(r, a)
    BY <2>2 DEF Respond, Failed, Ended, TypeOK
  <2>. QED
    BY <1>7, <2>1, <2>2 DEF MarkBeingDeleted, CallFails
<1>8. CASE Crash(r)
  BY <1>4, <1>8 DEF Crash, TypeOK
<1>9. Crash(r) \/ Handle(r) \/ Deliver(r)
  <2>1. ASSUME NEW p \in Requests,
               Receive(p) \/ Crash(p) \/ Abandon(p) \/ RunJob(p) \/ Handle(p) \/ Deliver(p)
        PROVE  Crash(r) \/ Handle(r) \/ Deliver(r)
    BY <1>1, <1>3, <2>1, HandleIsLocal
       DEF Receive, Await, Crash, Abandon, RunJob, RunIngestion, RunDelete, TypeOK
  <2>2. ~((\E n \in Lockable : ToggleLock(n)) \/ Rest \/ UNCHANGED vars)
    BY <1>3 DEF ToggleLock, Rest, vars
  <2>. QED
    BY <2>1, <2>2 DEF Next
<1>. QED
  BY <1>5, <1>6, <1>7, <1>8, <1>9, DeletingMoves

(* A deletion that has found a record does not know of another one of it,  *)
(* or comes after a failure or a cover-up.                                 *)
Unaware(r, s) ==
  \/ Failed(r) \/ Failed(s)
  \/ r \in overtaken \/ s \in overtaken
  \/ Deleting(r) /\ Deleting(s)
  \/ CoveredUp(call[r].id)

RemovalsUnaware ==
  \A r, s \in Requests :
    r # s /\ Removal(r) /\ Removal(s) /\ call[r].id = call[s].id => Unaware(r, s)

(* A deletion whose job is done has removed its record for good.           *)
RemovedByDoneJob ==
  \A r \in DeleteJobs : job[r] = "done" => ~IsRecord(call[r].id)

SecondJobInv == RemovedByDoneJob /\ RemovalsUnaware

(* Nothing has been found or removed at the start.                         *)
LEMMA InitSecondJobInv == Init => SecondJobInv
BY DEF Init, SecondJobInv, RemovedByDoneJob, RemovalsUnaware, Removal, DeleteJobs

(* What a deletion has removed does not come back.                         *)
LEMMA NextRemovedByDoneJob ==
  ASSUME TypeOK, DeletionInv, AnswerInv, RemovesOld, RemovedByDoneJob, [Next]_vars
  PROVE  RemovedByDoneJob'
<1>. SUFFICES ASSUME NEW r \in Requests, job'[r] = "done", call'[r].op = "deleteModel",
                     IsRecord(call[r].id)'
              PROVE  FALSE
  BY DEF RemovedByDoneJob, DeleteJobs
<1>1. job[r] \in {"open", "done"}
  BY JobsMove
<1>2. call'[r] = call[r] /\ r \in DeleteJobs /\ Removal(r)
  BY <1>1, CallsLast DEF TypeOK, DeleteJobs, Removal
<1>3. IsRecord(call[r].id)
  BY <1>2, RemovedWasThere
<1>4. job[r] = "open"
  BY <1>1, <1>2, <1>3 DEF RemovedByDoneJob
<1>5. ~OpenDeletion(r, call[r].id)'
  BY DEF OpenDeletion
<1>6. RunDelete(r)
  BY <1>2, <1>4, <1>5, OpenDeletionLasts DEF OpenDeletion
<1>. QED
  BY <1>2, <1>6, RemovalIsOfRecord DEF RunDelete, TypeOK, IsRecord

(* Whoever has not known of the other deletion never will.                 *)
LEMMA UnawareLasts ==
  ASSUME TypeOK, WritesLast, AnswerInv, [Next]_vars, NEW r \in Requests, NEW s \in Requests,
         r # s, Removal(r), Removal(s), call[r].id = call[s].id, Unaware(r, s)
  PROVE  Unaware(r, s)'
<1>1. CASE Failed(r) \/ Failed(s)
  BY <1>1, FailedForGood DEF Unaware
<1>2. CASE r \in overtaken \/ s \in overtaken
  BY <1>2, HistoryGrows DEF Unaware
<1>3. CASE Deleting(r) /\ Deleting(s)
  BY <1>3, DeletingEnds DEF Unaware
<1>4. CASE CoveredUp(call[r].id)
  BY <1>4, CoverUpStays DEF Unaware
<1>. QED
  BY <1>1, <1>2, <1>3, <1>4 DEF Unaware

(* A removal begins with a record that shows nothing of the other one.     *)
LEMMA UnawareBegins ==
  ASSUME TypeOK, DeletionInv, WritesLast, AnswerInv, UnmarkedDeletionExplained,
         RemovedByDoneJob, [Next]_vars,
         NEW r \in Requests, NEW s \in Requests, r # s, Removal(r)', ~Removal(r),
         Removal(s)', call'[r].id = call'[s].id
  PROVE  Unaware(r, s)'
<1>1. /\ UNCHANGED <<catalog, job, call>>
      /\ IsRecord(call[r].id)
      /\ job[r] = "none"
  BY RemovalBegins
<1>2. Deleting(r)' /\ ~Deleting(r)
  BY <1>1 DEF Removal, DeleteJobs, Deleting
<1>3. catalog[call[r].id].status = UNPUBLISHED
  BY <1>2, DeletingBegins
<1>4. CASE Deleting(s)'
  BY <1>2, <1>4 DEF Unaware
<1>5. CASE ~Deleting(s)'
  <2>1. s \in DeleteJobs /\ job[s] = "open"
    BY <1>1, <1>5 DEF Removal, Deleting, DeleteJobs, RemovedByDoneJob, TypeOK
  <2>2. IsRecord(call[s].id) /\ ~IsBeingDeleted(call[s].id)
    BY <1>1, <1>3 DEF IsBeingDeleted, UNPUBLISHED, BEING_DELETED
  <2>3. \/ pc[s] \in {"delete.mark", "crashed"}
        \/ answer[s] = "ServerError"
        \/ CoveredUp(call[s].id)
    BY <2>1, <2>2 DEF UnmarkedDeletionExplained, CoveredUp
  <2>4. CASE pc[s] = "delete.mark"
    <3>1. Handle(r)
      BY <1>2, DeletingBegins, StepTaken DEF Deleting, Placed
    <3>2. pc'[s] = pc[s]
      BY <3>1, HandleIsLocal
    <3>. QED
      BY <1>5, <2>4, <3>2 DEF Deleting
  <2>5. CASE pc[s] = "crashed" \/ answer[s] = "ServerError"
    <3>1. Failed(s)
      BY <2>5 DEF Failed, Ended, AnswerInv, Truthful
    <3>. QED
      BY <3>1, FailedForGood DEF Unaware
  <2>6. CASE CoveredUp(call[s].id)
    <3>1. CoveredUp(call[s].id)'
      BY <2>1, <2>6, CoverUpStays DEF Removal
    <3>. QED
      BY <1>1, <3>1 DEF Unaware, CoveredUp
  <2>. QED
    BY <2>3, <2>4, <2>5, <2>6
<1>. QED
  BY <1>4, <1>5

(* By induction.                                                           *)
LEMMA SecondJobInvariant == Spec => []SecondJobInv
<1>1. ASSUME TypeOK, DeletionInv, WritesLast, AnswerInv, RemovalInv, SecondJobInv, [Next]_vars
      PROVE  SecondJobInv'
  <2>1. RemovedByDoneJob'
    BY <1>1, NextRemovedByDoneJob DEF RemovalInv, SecondJobInv
  <2>2. ASSUME NEW r \in Requests, NEW s \in Requests, r # s,
               Removal(r)', Removal(s)', call'[r].id = call'[s].id
        PROVE  Unaware(r, s)'
    <3>1. CASE Removal(r) /\ Removal(s)
      <4>1. call'[r] = call[r] /\ call'[s] = call[s]
        BY <1>1, <3>1, RemovalIsOfRecord, CallsLast
      <4>. QED
        BY <1>1, <2>2, <3>1, <4>1, UnawareLasts DEF SecondJobInv, RemovalsUnaware
    <3>2. CASE ~Removal(r)
      BY <1>1, <2>2, <3>2, UnawareBegins DEF RemovalInv, SecondJobInv
    <3>3. CASE ~Removal(s)
      <4>1. Unaware(s, r)'
        BY <1>1, <2>2, <3>3, UnawareBegins DEF RemovalInv, SecondJobInv
      <4>. QED
        BY <2>2, <4>1 DEF Unaware, CoveredUp
    <3>. QED
      BY <3>1, <3>2, <3>3
  <2>. QED
    BY <2>1, <2>2 DEF SecondJobInv, RemovalsUnaware
<1>. QED
  BY <1>1, InitSecondJobInv, RemovalInvariant, TypeCorrect, DeletionInvariant,
     RequestsWriteLast, AnswersStayTrue, PTL DEF Spec

(* Under any interleaving and with every fault, a record has two deletions *)
(* that have not failed only if both had found it before the first mark,   *)
(* or a status change that had read it before a mark has covered it up:    *)
(* the status check of deleteModel guards against every retry but those.   *)
THEOREM SecondJobsExplained == Spec => []SecondJobExplained
<1>1. ASSUME DeletionInv, SecondJobInv
      PROVE  SecondJobExplained
  <2>. SUFFICES ASSUME NEW r \in DeleteJobs, NEW s \in DeleteJobs, r # s,
                       call[r].id = call[s].id, ~Failed(r), ~Failed(s)
                PROVE  \/ pc[r] = "delete.mark" /\ pc[s] = "delete.mark"
                       \/ r \in overtaken \/ s \in overtaken
                       \/ CoveredUp(call[r].id)
    BY DEF SecondJobExplained, CoveredUp
  <2>1. Unaware(r, s)
    BY <1>1 DEF SecondJobInv, RemovalsUnaware, Removal, DeleteJobs
  <2>2. pc[r] # "delete.job" /\ pc[s] # "delete.job"
    BY <1>1, BeforeJobSteps DEF DeletionInv, NoJobBeforeAsking, DeleteJobs
  <2>. QED
    BY <2>1, <2>2 DEF Unaware, Deleting
<1>. QED
  BY <1>1, DeletionInvariant, SecondJobInvariant, PTL
================================================================================
