----------------------------- MODULE AnswerProofs -----------------------------
(***************************************************************************)
(* What the gateway tells its clients is what it has done, for every value *)
(* of the constants, any interleaving and any failure.                     *)
(*                                                                         *)
(* The argument: a step of a handler either goes on to another call, and   *)
(* says nothing, or ends with an answer that fits what this very step has  *)
(* done (Continues and Ends below); and what earlier steps of the request  *)
(* have done is at most the job that a deletion opened before its mark.    *)
(***************************************************************************)
EXTENDS DeletionProofs

Refusals == {"BadRequest", "Conflict", "Valid", "Invalid"}

(* The step awaits another call; only createModel goes on to ingest.       *)
Continues(r) ==
  \E s :
    /\ s # "answered" /\ pc[r] # "delete.mark"
    /\ s = "create.ingest" => call[r].op = "createModel"
    /\ Await(r, s)

(* The step ends the handler with an answer.                               *)
Ends(r) ==
  \E a \in Answers :
    /\ Respond(r, a)
    /\ \/ a = "ServerError"
       \/ a \in Refusals /\ pc[r] # "delete.mark" /\ UNCHANGED <<job, wrote>>
       \/ a = "OK" /\ r \in wrote' /\ UNCHANGED job
       \/ a = "Created" /\ pc[r] = "create.ingest" /\ OpenJob(r)

(* An awaited call that fails ends in a server error.                      *)
LEMMA FailsEnds ==
  ASSUME NEW r, CallFails(r)
  PROVE  Ends(r)
BY DEF CallFails, Ends, Answers

(* A server error may end any step.                                        *)
LEMMA ErrorEnds ==
  ASSUME NEW r, Respond(r, "ServerError")
  PROVE  Ends(r)
BY DEF Ends, Answers

(* A refusal, or the result of a validation, ends a step that is quiet.    *)
LEMMA RefusalEnds ==
  ASSUME NEW r, NEW a \in Refusals, Respond(r, a), pc[r] # "delete.mark",
         UNCHANGED <<services, history>>
  PROVE  Ends(r)
BY DEF Ends, Answers, Refusals, services, history

(* The steps of updateMetadata and updateStatus.                           *)
LEMMA MetadataOutcome ==
  ASSUME NEW r \in Requests, MetadataStep(r)
  PROVE  Continues(r) \/ Ends(r)
<1>. USE FailsEnds, ErrorEnds, RefusalEnds DEF Continues, Refusals
<1>1. CASE UpdateGetRecord(r)
  BY <1>1 DEF UpdateGetRecord, AfterGet, AfterFile, AfterClass
<1>2. CASE UpdateGetFile(r)
  BY <1>2 DEF UpdateGetFile, AfterFile, AfterClass
<1>3. CASE UpdateGetClassifications(r)
  BY <1>3 DEF UpdateGetClassifications, AfterClass
<1>4. CASE UpdateFindName(r)
  BY <1>4 DEF UpdateFindName
<1>5. CASE UpdateReadAgain(r)
  BY <1>5 DEF UpdateReadAgain, NotFoundIsRejected
<1>6. CASE UpdateCheckLock(r)
  BY <1>6 DEF UpdateCheckLock
<1>7. CASE UpdatePatch(r)
  BY <1>7 DEF UpdatePatch, ApplyPatch, NotFoundIsRejected, Ends, Answers
<1>8. CASE StatusGetRecord(r)
  BY <1>8 DEF StatusGetRecord, NotFoundIsRejected, AfterStatusCheck
<1>9. CASE StatusCheckLock(r)
  BY <1>9 DEF StatusCheckLock
<1>10. CASE StatusChange(r)
  BY <1>10 DEF StatusChange, NotFoundIsRejected, ApplyStatus, Ends, Answers
<1>. QED
  BY <1>1, <1>2, <1>3, <1>4, <1>5, <1>6, <1>7, <1>8, <1>9, <1>10 DEF MetadataStep

(* The steps of the handlers of models.                                    *)
LEMMA ModelOutcome ==
  ASSUME NEW r \in Requests, ModelManagerStep(r)
  PROVE  Continues(r) \/ Ends(r)
<1>. USE FailsEnds, ErrorEnds, RefusalEnds
     DEF Continues, Refusals, ModelRefused, ModelAccepted, ModelStep
<1>1. CASE CheckModelPath(r)
  BY <1>1 DEF CheckModelPath
<1>2. CASE CheckTileset(r)
  BY <1>2 DEF CheckTileset
<1>3. CASE ReadTileset(r)
  BY <1>3 DEF ReadTileset, AfterRead
<1>4. CASE CheckProductId(r)
  BY <1>4 DEF CheckProductId
<1>5. CASE CheckProductName(r)
  BY <1>5 DEF CheckProductName
<1>6. CASE CheckClassification(r)
  BY <1>6 DEF CheckClassification
<1>7. CASE StartIngestion(r)
  BY <1>7 DEF StartIngestion, Ends, Answers
<1>8. CASE DeleteFindRecord(r)
  BY <1>8 DEF DeleteFindRecord
<1>9. CASE StartDeleteJob(r)
  BY <1>9 DEF StartDeleteJob
<1>10. CASE MarkBeingDeleted(r)
  BY <1>10 DEF MarkBeingDeleted, ApplyStatus, Ends, Answers
<1>11. CASE CanDelete(r)
  BY <1>11 DEF CanDelete
<1>. QED
  BY <1>1, <1>2, <1>3, <1>4, <1>5, <1>6, <1>7, <1>8, <1>9, <1>10, <1>11
     DEF ModelManagerStep

-----------------------------------------------------------------------------
(* The invariant: each answer is true, and nothing is said before the end. *)

Told(r) ==
  /\ answer[r] \in Refusals => job[r] = "none" /\ r \notin wrote
  /\ answer[r] = "OK" =>
       r \in wrote /\ (call[r].op = "deleteModel" => job[r] # "none")
  /\ answer[r] = "Created" => job[r] # "none"

Truthful(r) ==
  /\ Told(r)
  /\ pc[r] # "answered" =>
       answer[r] = "none" \/ (answer[r] = "ServerError" /\ r \in late)
  /\ job[r] # "none" => call[r].op \in {"createModel", "deleteModel"}
  /\ pc[r] = "create.ingest" => call[r].op = "createModel"

AnswerInv == \A r \in Requests : Truthful(r)

(* Nothing is said at the start.                                           *)
LEMMA InitAnswerInv == Init => AnswerInv
BY DEF Init, AnswerInv, Truthful, Told, Refusals

(* Before its mark, or if it is none, a request that is served has no job. *)
LEMMA JobOnlyAtMark ==
  ASSUME TypeOK, DeletionInv, NEW r \in Requests, Truthful(r), Placed(r),
         pc[r] # "delete.mark"
  PROVE  job[r] = "none"
<1>1. CASE pc[r] \in BeforeJob
  BY <1>1 DEF DeletionInv, NoJobBeforeAsking
<1>2. CASE pc[r] \notin BeforeJob
  BY <1>2, StepTellsOp, StepsOfOps DEF Truthful, BeforeJob
<1>. QED
  BY <1>1, <1>2

(* A step of one handler, or a call of its that is carried out late, says  *)
(* and does nothing for the others.                                        *)
LEMMA HandleIsLocal ==
  ASSUME TypeOK, NEW r \in Requests, Handle(r) \/ Deliver(r), NEW q \in Requests, q # r
  PROVE  /\ pc'[q] = pc[q] /\ answer'[q] = answer[q] /\ call'[q] = call[q]
         /\ job'[q] = job[q]
         /\ q \in wrote' <=> q \in wrote
         /\ q \in late' <=> q \in late
<1>1. job'[q] = job[q] /\ (q \in wrote' <=> q \in wrote)
  <2>1. CASE Quiet(r)
    BY <2>1 DEF Quiet
  <2>2. CASE Patches(r)
    BY <2>2 DEF Patches, ApplyPatch
  <2>3. CASE Marks(r)
    BY <2>3 DEF Marks, ApplyStatus
  <2>4. CASE Opens(r)
    BY <2>4 DEF Opens, OpenJob, history, TypeOK
  <2>. QED
    BY <2>1, <2>2, <2>3, <2>4, HandleKinds, DeliverKinds
<1>2. CASE Handle(r)
  <2>1. pc'[q] = pc[q] /\ answer'[q] = answer[q] /\ late' = late
    BY <1>2, MetadataOutcome, ModelOutcome DEF Handle, Continues, Ends, Await, Respond, TypeOK
  <2>. QED
    BY <1>1, <1>2, <2>1, HandleKinds
<1>3. CASE Deliver(r)
  BY <1>1, <1>3, DeliverTyped DEF TypeOK
<1>. QED
  BY <1>2, <1>3

(* A deletion writes in one place, and has its job by then.                *)
LEMMA DeletionWritesAtMark ==
  ASSUME TypeOK, DeletionInv, NEW r \in Requests, Handle(r), r \notin wrote, r \in wrote',
         call[r].op = "deleteModel"
  PROVE  job[r] # "none"
<1>1. Patches(r) \/ Marks(r)
  BY HandleKinds DEF Quiet, Opens, OpenJob, history
<1>2. pc[r] # "update.patch" /\ pc[r] # "status.change"
  BY HandleKinds, StepTellsOp, StepsOfOps
<1>. QED
  BY <1>1, <1>2 DEF Patches, Marks, DeletionInv, MarksWithJob

(* A job is opened for a new model or for a deletion.                      *)
LEMMA OpensHasOp ==
  ASSUME TypeOK, NEW r \in Requests, Truthful(r), Opens(r)
  PROVE  call[r].op \in {"createModel", "deleteModel"}
<1>1. pc[r] = "delete.job" => call[r].op = "deleteModel"
  BY StepTellsOp, StepsOfOps DEF Placed
<1>. QED
  BY <1>1 DEF Opens, Truthful

(* A handler's step keeps its own answer true.                             *)
LEMMA HandleTells ==
  ASSUME TypeOK, DeletionInv, WritesLast, AnswerInv, NEW r \in Requests, Handle(r)
  PROVE  Truthful(r)'
<1>1. Placed(r) /\ call' = call /\ r \notin wrote /\ answer[r] = "none"
      /\ r \notin late /\ late' = late
  <2>1. Placed(r) /\ call' = call /\ r \notin late /\ late' = late
    BY HandleKinds DEF Handle
  <2>. QED
    BY <2>1 DEF WritesLast, AnswerInv, Truthful, Placed
<1>2. pc[r] # "delete.mark" => job[r] = "none"
  BY <1>1, JobOnlyAtMark DEF AnswerInv
<1>3. job'[r] = job[r] \/ (Opens(r) /\ job'[r] = "open")
  BY HandleKinds DEF Quiet, Patches, Marks, Opens, OpenJob, ApplyStatus, ApplyPatch, TypeOK
<1>4. job'[r] # "none" => call'[r].op \in {"createModel", "deleteModel"}
  BY <1>1, <1>3, OpensHasOp DEF AnswerInv, Truthful
<1>5. CASE Continues(r)
  <2>1. answer' = answer /\ pc'[r] # "answered"
        /\ (pc'[r] = "create.ingest" => call[r].op = "createModel")
    BY <1>5 DEF Continues, Await, TypeOK
  <2>. QED
    BY <1>1, <1>4, <2>1 DEF Truthful, Told, Refusals
<1>6. CASE Ends(r)
  <2>1. PICK a \in Answers :
          /\ Respond(r, a)
          /\ \/ a = "ServerError"
             \/ a \in Refusals /\ pc[r] # "delete.mark" /\ UNCHANGED <<job, wrote>>
             \/ a = "OK" /\ r \in wrote' /\ UNCHANGED job
             \/ a = "Created" /\ pc[r] = "create.ingest" /\ OpenJob(r)
    BY <1>6 DEF Ends
  <2>2. pc'[r] = "answered" /\ answer'[r] = a
    BY <2>1 DEF Respond, TypeOK
  <2>3. Told(r)'
    <3>1. CASE a \in Refusals
      BY <1>1, <1>2, <2>1, <2>2, <3>1 DEF Told, Refusals
    <3>2. CASE a = "OK"
      <4>1. r \in wrote' /\ UNCHANGED job
        BY <2>1, <3>2 DEF Refusals
      <4>2. call[r].op = "deleteModel" => job[r] # "none"
        BY <1>1, <4>1, DeletionWritesAtMark
      <4>. QED
        BY <1>1, <2>2, <3>2, <4>1, <4>2 DEF Told, Refusals
    <3>3. CASE a = "Created"
      BY <2>1, <2>2, <3>3 DEF Told, Refusals, OpenJob, TypeOK
    <3>4. CASE a = "ServerError"
      BY <2>2, <3>4 DEF Told, Refusals
    <3>. QED
      BY <2>1, <3>1, <3>2, <3>3, <3>4
  <2>. QED
    BY <1>4, <2>2, <2>3 DEF Truthful
<1>. QED
  BY <1>5, <1>6, MetadataOutcome, ModelOutcome DEF Handle

(* A call that is carried out late contradicts nothing: its client was     *)
(* told of a failure, or of nothing.                                       *)
LEMMA DeliverTells ==
  ASSUME TypeOK, NEW r \in Requests, Truthful(r), Deliver(r)
  PROVE  Truthful(r)'
<1>1. Placed(r) /\ r \in late /\ UNCHANGED <<call, answer>>
  BY DeliverTyped DEF Deliver
<1>2. answer[r] \in {"none", "ServerError"}
  BY <1>1 DEF Truthful, Placed
<1>3. pc'[r] = IF answer[r] = "none" THEN "crashed" ELSE "answered"
  BY DEF Deliver, TypeOK
<1>4. job'[r] # "none" => call'[r].op \in {"createModel", "deleteModel"}
  <2>1. job'[r] = job[r] \/ Opens(r)
    BY DeliverKinds DEF Patches, Marks, ApplyStatus, ApplyPatch
  <2>. QED
    BY <1>1, <2>1, OpensHasOp DEF Truthful
<1>. QED
  BY <1>1, <1>2, <1>3, <1>4 DEF Truthful, Told, Refusals

(* Who is not concerned by a step stays truthful.                          *)
LEMMA OthersStayTruthful ==
  ASSUME NEW q, Truthful(q),
         pc'[q] = pc[q], answer'[q] = answer[q], call'[q] = call[q],
         job'[q] = job[q] \/ (job[q] # "none" /\ job'[q] # "none"),
         q \in late' <=> q \in late,
         q \in wrote' <=> q \in wrote
  PROVE  Truthful(q)'
BY DEF Truthful, Told

(* Every step keeps every answer true.                                     *)
LEMMA NextAnswerInv ==
  TypeOK /\ DeletionInv /\ WritesLast /\ AnswerInv /\ [Next]_vars => AnswerInv'
<1>. SUFFICES ASSUME TypeOK, DeletionInv, WritesLast, AnswerInv, [Next]_vars,
                     NEW q \in Requests
              PROVE  Truthful(q)'
  BY DEF AnswerInv
<1>0. Truthful(q)
  BY DEF AnswerInv
<1>1. ASSUME NEW r \in Requests, Receive(r) PROVE Truthful(q)'
  <2>1. UNCHANGED <<job, wrote, answer, late>> /\ pc[r] = "idle"
    BY <1>1 DEF Receive, Await, services, history
  <2>2. CASE q = r
    <3>1. job[r] = "none" /\ answer[r] = "none"
      BY <1>0, <2>1, <2>2 DEF TypeOK, Truthful, Effects
    <3>2. PICK c \in Calls : pc' = [pc EXCEPT ![r] = FirstStep[c.op]]
      BY <1>1 DEF Receive, Await
    <3>3. FirstStep[c.op] \notin {"answered", "create.ingest"}
      BY CallAssumption DEF Payloads, Ops, FirstStep
    <3>. QED
      BY <2>1, <2>2, <3>1, <3>2, <3>3 DEF Truthful, Told, Refusals, TypeOK
  <2>3. CASE q # r
    BY <1>0, <1>1, <2>1, <2>3, OthersStayTruthful DEF Receive, Await, TypeOK
  <2>. QED
    BY <2>2, <2>3
<1>2. ASSUME NEW r \in Requests, Handle(r) \/ Deliver(r) PROVE Truthful(q)'
  BY <1>0, <1>2, HandleTells, DeliverTells, HandleIsLocal, OthersStayTruthful
<1>3. ASSUME NEW r \in Requests, Crash(r) PROVE Truthful(q)'
  <2>1. UNCHANGED <<job, wrote, call, answer, late>> /\ pc[r] # "answered"
        /\ pc' = [pc EXCEPT ![r] = "crashed"]
    BY <1>3 DEF Crash, services, history, Waiting, Ended
  <2>2. CASE q = r
    BY <1>0, <2>1, <2>2 DEF Truthful, Told, Refusals, TypeOK
  <2>3. CASE q # r
    BY <1>0, <2>1, <2>3, OthersStayTruthful DEF TypeOK
  <2>. QED
    BY <2>2, <2>3
<1>4. ASSUME NEW r \in Requests, RunIngestion(r) \/ RunDelete(r) PROVE Truthful(q)'
  BY <1>0, <1>4, OthersStayTruthful DEF RunIngestion, RunDelete, history, TypeOK
<1>5. CASE (\E n \in Lockable : ToggleLock(n)) \/ Rest \/ UNCHANGED vars
  BY <1>0, <1>5, OthersStayTruthful DEF ToggleLock, Rest, vars, history
<1>6. ASSUME NEW r \in Requests, Abandon(r) PROVE Truthful(q)'
  <2>1. UNCHANGED <<job, wrote, call, pc>> /\ late' = late \cup {r}
        /\ answer' \in {answer, [answer EXCEPT ![r] = "ServerError"]}
        /\ pc[r] # "answered"
    BY <1>6 DEF Abandon, services, history, Waiting, Ended
  <2>2. CASE q = r
    BY <1>0, <2>1, <2>2 DEF Truthful, Told, Refusals, TypeOK
  <2>3. CASE q # r
    BY <1>0, <2>1, <2>3, OthersStayTruthful DEF TypeOK
  <2>. QED
    BY <2>2, <2>3
<1>. QED
  BY <1>1, <1>2, <1>3, <1>4, <1>5, <1>6 DEF Next, RunJob

(* Every answer is true at any time.                                       *)
LEMMA AnswersStayTrue == Spec => []AnswerInv
BY InitAnswerInv, NextAnswerInv, TypeCorrect, DeletionInvariant, RequestsWriteLast, PTL
   DEF Spec

(* What a client is told is what happened: a refusal or a validation left  *)
(* no job and no write behind, and a success stands for every effect the   *)
(* request was to have, whatever fails and whoever interferes.             *)
THEOREM AnswersAreTrue == Spec => []AnswerTellsEffect
<1>1. AnswerInv => AnswerTellsEffect
  BY DEF AnswerInv, Truthful, Told, Refusals, AnswerTellsEffect
<1>. QED
  BY <1>1, AnswersStayTrue, PTL
================================================================================
