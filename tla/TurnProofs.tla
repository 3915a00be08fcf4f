------------------------------ MODULE TurnProofs -------------------------------
(***************************************************************************)
(* What holds when clients take turns, a request ending before the next is *)
(* sent, for every value of the other constants; jobs run at any time.     *)
(* Calls that are carried out after their caller has given up are left     *)
(* out: with them a request has not ended when its client is told so.      *)
(*                                                                         *)
(* The argument: at most one request is being served and no mark overtakes *)
(* anybody (TurnInv), so that what a handler has found when it looked at   *)
(* its record is still so when it writes, unless a job has run             *)
(* (Undisturbed).  What holds under any interleaving unless requests have  *)
(* overlapped then holds without exception: there is nothing to except.    *)
(* Only the names need that ingestions are waited for, too.                *)
(***************************************************************************)
EXTENDS MetadataProofs

TakeTurns == Turns # "any" /\ ~Late

TurnInv ==
  /\ late = {}
  /\ overtaken = {}
  /\ \A r, s \in Requests : Waiting(r) /\ Waiting(s) => r = s

(* Nobody is served at the start.                                          *)
LEMMA InitTurnInv == Init => TurnInv
BY DEF Init, TurnInv, Waiting

(* Whoever has a call under way is being served.                           *)
LEMMA PlacedIsWaiting ==
  ASSUME TurnInv, NEW r \in Requests
  PROVE  Placed(r) <=> Waiting(r)
BY DEF TurnInv, Placed, Waiting, Ended

(* No call is abandoned.                                                   *)
LEMMA NobodyIsLate ==
  ASSUME TurnInv, TakeTurns, [Next]_vars
  PROVE  late' = {}
<1>1. ASSUME NEW r \in Requests,
             Receive(r) \/ Handle(r) \/ Crash(r) \/ Abandon(r) \/ Deliver(r) \/ RunJob(r)
      PROVE  late' = {}
  BY <1>1 DEF TurnInv, TakeTurns, Receive, Handle, Crash, Abandon, Deliver, RunJob,
              RunIngestion, RunDelete
<1>. QED
  BY <1>1 DEF Next, TurnInv, ToggleLock, Rest, vars

(* A mark finds nobody to overtake.                                        *)
LEMMA NobodyIsOvertaken ==
  ASSUME TypeOK, TurnInv, [Next]_vars
  PROVE  overtaken' = {}
<1>1. ASSUME NEW r \in Requests, Placed(r), Marks(r)
      PROVE  overtaken' = {}
  <2>1. PICK s \in RecordStatus : ApplyStatus(r, call[r].id, s)
    BY <1>1 DEF Marks, RecordStatus
  <2>2. ASSUME NEW q \in RestOn(call[r].id)
        PROVE  q = r
    BY <1>1, PlacedIsWaiting, PastStatusCheckSteps DEF RestOn, Placed, TurnInv
  <2>. QED
    BY <2>1, <2>2 DEF ApplyStatus, TurnInv
<1>2. ASSUME NEW r \in Requests,
             \/ Receive(r) \/ Crash(r) \/ RunIngestion(r) \/ RunDelete(r)
             \/ Quiet(r) \/ Patches(r) \/ Opens(r)
      PROVE  overtaken' = {}
  BY <1>2 DEF Receive, Crash, RunIngestion, RunDelete, history, Quiet, Patches,
              ApplyPatch, Opens, OpenJob, TurnInv
<1>. QED
  BY <1>1, <1>2, StepKinds DEF Unseen, TurnInv

(* Whoever is being served was, or has just been received.                 *)
LEMMA WaitingMove ==
  ASSUME TypeOK, TurnInv, TakeTurns, [Next]_vars, NEW q \in Requests, Waiting(q)'
  PROVE  \/ Waiting(q)
         \/ \A r \in Requests : ~Waiting(r) /\ (r # q => pc'[r] = pc[r])
<1>1. pc'[q] \notin {"idle", "answered", "crashed"}
  BY DEF Waiting, Ended
<1>2. CASE pc[q] = "idle"
  <2>1. PICK r \in Requests :
          \/ Unseen \/ Receive(r) \/ Crash(r) \/ RunIngestion(r) \/ RunDelete(r)
          \/ Placed(r) /\ (Quiet(r) \/ Patches(r) \/ Marks(r) \/ Opens(r))
    BY StepKinds
  <2>2. CASE Receive(r)
    <3>1. r = q
      BY <1>1, <1>2, <2>2 DEF Receive, Await, TypeOK
    <3>. QED
      BY <2>2, <3>1 DEF Receive, Await, TypeOK, TakeTurns, NoneInFlight
  <2>3. CASE Unseen \/ Crash(r) \/ RunIngestion(r) \/ RunDelete(r)
    BY <1>1, <1>2, <2>3 DEF Unseen, Crash, RunIngestion, RunDelete, TypeOK
  <2>4. CASE Placed(r) /\ (Quiet(r) \/ Patches(r) \/ Marks(r) \/ Opens(r))
    BY <1>1, <1>2, <2>4 DEF Quiet, Patches, Marks, Opens, Goes, TypeOK, Placed
  <2>. QED
    BY <2>1, <2>2, <2>3, <2>4
<1>3. CASE pc[q] # "idle"
  BY <1>1, <1>3, PlacesMove, PlacedIsWaiting DEF Placed
<1>. QED
  BY <1>2, <1>3

(* Clients that take turns are served one at a time.                       *)
LEMMA NextTurnInv ==
  ASSUME TypeOK, TurnInv, TakeTurns, [Next]_vars
  PROVE  TurnInv'
<1>1. ASSUME NEW r \in Requests, NEW s \in Requests, Waiting(r)', Waiting(s)'
      PROVE  r = s
  <2>1. CASE Waiting(r) /\ Waiting(s)
    BY <2>1 DEF TurnInv
  <2>2. CASE ~Waiting(r) \/ ~Waiting(s)
    <3>1. /\ ~Waiting(r) => ~Waiting(s) /\ (s # r => pc'[s] = pc[s])
          /\ ~Waiting(s) => ~Waiting(r) /\ (s # r => pc'[r] = pc[r])
      BY <1>1, WaitingMove
    <3>2. late = {} /\ late' = {}
      BY NobodyIsLate DEF TurnInv
    <3>. QED
      BY <1>1, <2>2, <3>1, <3>2 DEF Waiting, Ended
  <2>. QED
    BY <2>1, <2>2
<1>. QED
  BY <1>1, NobodyIsLate, NobodyIsOvertaken DEF TurnInv

(* So it is in every behaviour.                                            *)
LEMMA OneAtATime == TakeTurns => (Spec => []TurnInv)
<1>1. SUFFICES ASSUME TakeTurns PROVE Spec => []TurnInv
  OBVIOUS
<1>2. TypeOK /\ TurnInv /\ [Next]_vars => TurnInv'
  BY <1>1, NextTurnInv
<1>. QED
  BY <1>2, InitTurnInv, TypeCorrect, PTL DEF Spec

(* If clients take turns, no handler rewrites a record that is being       *)
(* deleted: the status checks of updateMetadata and updateStatus are never *)
(* out of date when they write.                                            *)
THEOREM DoomedStaysFrozen == TakeTurns => (Spec => DoomedIsFrozen)
<1>1. SUFFICES ASSUME TakeTurns PROVE Spec => DoomedIsFrozen
  OBVIOUS
<1>2. TurnInv /\ [\A k \in Keys :
                    IsBeingDeleted(k) /\ catalog'[k] \notin {catalog[k], NoRecord} =>
                      \E r \in overtaken : r \in wrote' \ wrote /\ call[r].id = k]_vars
      => [\A k \in Keys : IsBeingDeleted(k) => catalog'[k] \in {catalog[k], NoRecord}]_vars
  BY DEF TurnInv
<1>3. Spec => []TurnInv
  BY <1>1, OneAtATime
<1>. QED
  BY <1>2, <1>3, RewritesOfDoomed, PTL DEF DoomedIsFrozen, OnlyOvertakenRewriteDoomed

(* A record that was there when a handler looked at it changes only under  *)
(* the handler's own hands, or goes.                                       *)
LEMMA Undisturbed ==
  ASSUME TypeOK, TurnInv, [Next]_vars,
         NEW r \in Requests, Placed(r), pc'[r] \notin {"answered", "crashed"},
         NEW k \in Keys, k \in Requests => job[k] = "done", IsRecord(k)'
  PROVE  catalog'[k] = catalog[k]
<1>1. ASSUME NEW q \in Requests, Patches(q) \/ Marks(q)
      PROVE  FALSE
  <2>1. Placed(q) /\ pc'[q] \in {"answered", "crashed"}
    BY <1>1 DEF Patches, Marks, Goes, Placed, TypeOK
  <2>2. q = r
    BY <2>1, PlacedIsWaiting DEF TurnInv
  <2>. QED
    BY <2>1, <2>2
<1>2. ASSUME NEW q \in Requests, Receive(q) \/ Crash(q) \/ Quiet(q) \/ Opens(q)
      PROVE  catalog'[k] = catalog[k]
  BY <1>2 DEF Receive, Crash, services, Quiet, Opens, OpenJob
<1>3. ASSUME NEW q \in Requests, RunIngestion(q)
      PROVE  catalog'[k] = catalog[k]
  BY <1>3 DEF RunIngestion, TypeOK
<1>4. ASSUME NEW q \in Requests, RunDelete(q)
      PROVE  catalog'[k] = catalog[k]
  BY <1>4 DEF RunDelete, TypeOK, IsRecord
<1>. QED
  BY <1>1, <1>2, <1>3, <1>4, StepKinds DEF Unseen

-----------------------------------------------------------------------------
(* Deletions.                                                              *)

(* The record that is to be deleted is still as it was found.              *)
DeletesUnpublished ==
  \A r \in Requests :
    Deleting(r) /\ IsRecord(call[r].id) => catalog[call[r].id].status = UNPUBLISHED

(* Nothing is being deleted at the start.                                  *)
LEMMA InitDeletesUnpublished == Init => DeletesUnpublished
BY DEF Init, DeletesUnpublished, Deleting

(* What a deletion has found may be deleted, and is so until it ends.      *)
LEMMA NextDeletesUnpublished ==
  ASSUME TypeOK, DeletionInv, AnswerInv, RemovesOld, TurnInv, DeletesUnpublished, [Next]_vars
  PROVE  DeletesUnpublished'
<1>. SUFFICES ASSUME NEW r \in Requests, Deleting(r)', IsRecord(call[r].id)'
              PROVE  catalog'[call'[r].id].status = UNPUBLISHED
  BY DEF DeletesUnpublished
<1>1. CASE Deleting(r)
  <2>1. Removal(r) /\ Placed(r) /\ pc'[r] \notin {"answered", "crashed"}
    BY <1>1 DEF Deleting, Removal, Placed
  <2>2. call'[r] = call[r]
    BY <2>1, CallsLast DEF Placed
  <2>3. PICK k \in Keys : k = call[r].id
    BY <2>1, RemovalIsOfRecord
  <2>4. IsRecord(k)' /\ (k \in Requests => job[k] = "done")
    BY <2>1, <2>2, <2>3 DEF RemovesOld, IsRecord
  <2>5. catalog'[k] = catalog[k]
    BY <2>1, <2>4, Undisturbed
  <2>. QED
    BY <1>1, <2>2, <2>3, <2>4, <2>5 DEF DeletesUnpublished, IsRecord
<1>2. CASE ~Deleting(r)
  BY <1>2, DeletingBegins
<1>. QED
  BY <1>1, <1>2

(* If clients take turns, a record has at most one deletion that has not   *)
(* failed, however often and however many clients ask for it.              *)
THEOREM OneDeletionEach == TakeTurns => (Spec => []OneDeleteJob)
<1>1. SUFFICES ASSUME TakeTurns PROVE Spec => []OneDeleteJob
  OBVIOUS
<1>2. ASSUME TurnInv, SecondJobExplained, NEW r \in DeleteJobs, NEW s \in DeleteJobs,
             call[r].id = call[s].id, r # s
      PROVE  Failed(r) \/ Failed(s)
  <2>1. r \in Requests /\ s \in Requests
    BY DEF DeleteJobs
  <2>2. ~(pc[r] = "delete.mark" /\ pc[s] = "delete.mark")
    BY <1>2, <2>1 DEF TurnInv, Waiting, Ended
  <2>. QED
    BY <1>2, <2>2 DEF SecondJobExplained, TurnInv
<1>3. TurnInv /\ SecondJobExplained => OneDeleteJob
  BY <1>2 DEF OneDeleteJob
<1>4. Spec => []TurnInv
  BY <1>1, OneAtATime
<1>. QED
  BY <1>3, <1>4, SecondJobsExplained, PTL

(* If clients take turns, what is published is removed only if a deletion  *)
(* of it had failed towards its client, although the status is checked     *)
(* long before the job runs.                                               *)
THEOREM PublishedIsKept == TakeTurns => (Spec => PublishedStays)
<1>1. SUFFICES ASSUME TakeTurns PROVE Spec => PublishedStays
  OBVIOUS
<1>2. Spec => []TurnInv
  BY <1>1, OneAtATime
<1>3. /\ TypeOK /\ DeletionInv /\ AnswerInv /\ RemovalInv /\ TurnInv /\ DeletesUnpublished
      /\ [Next]_vars
      => DeletesUnpublished'
  BY NextDeletesUnpublished DEF RemovalInv
<1>4. ASSUME TypeOK, DeletionInv, AnswerInv, RemovalInv, TurnInv, DeletesUnpublished,
             [Next]_vars,
             NEW k \in Keys, IsRecord(k), catalog[k].status = PUBLISHED,
             catalog'[k] = NoRecord
      PROVE  \E r \in DeleteJobs : call[r].id = k /\ Failed(r)
  <2>1. PICK r \in Requests : RunDelete(r) /\ Removal(r) /\ call[r].id = k
    BY <1>4, RecordsGoByJobs
  <2>2. r \in DeleteJobs /\ job[r] = "open" /\ ~IsBeingDeleted(k)
    BY <1>4, <2>1 DEF RunDelete, DeleteJobs, IsBeingDeleted, PUBLISHED, BEING_DELETED
  <2>3. Ended(r)
    <3>1. ASSUME ~Ended(r) PROVE FALSE
      <4>1. Placed(r) /\ call[r].op = "deleteModel"
        BY <1>4, <2>1, <3>1, RemovalIsOfRecord DEF Placed, Ended
      <4>2. pc[r] \in Steps["deleteModel"]
        BY <1>4, <4>1, StepTellsOp
      <4>3. Deleting(r)
        BY <1>4, <2>2, <4>2, StepsOfOps DEF DeletionInv, NoJobBeforeAsking, BeforeJob, Deleting
      <4>. QED
        BY <1>4, <2>1, <4>3 DEF DeletesUnpublished, PUBLISHED, UNPUBLISHED
    <3>. QED
      BY <3>1
  <2>4. answer[r] # "OK"
    <3>1. pc[r] = "crashed" \/ answer[r] = "ServerError"
      BY <1>4, <2>1, <2>2, <2>3
         DEF RemovalInv, UnmarkedDeletionExplained, TurnInv, Ended
    <3>. QED
      BY <1>4, <3>1 DEF AnswerInv, Truthful, TurnInv
  <2>. QED
    BY <2>1, <2>2, <2>3, <2>4 DEF Failed
<1>5. /\ TypeOK /\ DeletionInv /\ AnswerInv /\ RemovalInv /\ TurnInv /\ DeletesUnpublished
      /\ [Next]_vars
      => [\A k \in Keys :
            IsRecord(k) /\ catalog[k].status = PUBLISHED /\ catalog'[k] = NoRecord =>
              \E r \in DeleteJobs : call[r].id = k /\ Failed(r)]_vars
  BY <1>4
<1>. QED
  BY <1>2, <1>3, <1>5, InitDeletesUnpublished, TypeCorrect, DeletionInvariant,
     AnswersStayTrue, RemovalInvariant, PTL DEF Spec, PublishedStays

-----------------------------------------------------------------------------
(* Dates.                                                                  *)

(* What a look is outdated by: an ingestion, or an update.                 *)
LEMMA WhoOutdates ==
  ASSUME TypeOK, [Next]_vars, NEW q \in Requests, NEW r \in Requests,
         <<q, r>> \in outdated', <<q, r>> \notin outdated
  PROVE  /\ q \in LookedUp /\ q # r /\ call' = call
         /\ RunIngestion(r) \/ (Placed(r) /\ Patches(r))
<1>1. ASSUME NEW p \in Requests,
             \/ Receive(p) \/ Crash(p) \/ RunDelete(p) \/ Quiet(p) \/ Marks(p) \/ Opens(p)
      PROVE  outdated' = outdated
  BY <1>1 DEF Receive, Crash, RunDelete, history, Quiet, Marks, ApplyStatus, Opens, OpenJob
<1>2. ASSUME NEW p \in Requests, RunIngestion(p) \/ Patches(p)
      PROVE  p = r /\ q \in LookedUp /\ q # r
  BY <1>2 DEF RunIngestion, Patches, ApplyPatch, Outdates
<1>. QED
  BY <1>1, <1>2, StepKinds DEF Unseen, RunIngestion

(* Whoever has looked is served, or waits for an ingestion.                *)
LEMMA WhoLooked ==
  ASSUME TypeOK, TurnInv, NEW q \in LookedUp
  PROVE  q \in Requests /\ (Waiting(q) \/ IngestionOpen(q))
<1>1. pc[q] \in Steps["updateMetadata"] \cup {"create.class", "create.ingest"} => Placed(q)
  BY StepsOfOps DEF Placed
<1>. QED
  BY <1>1, PlacedIsWaiting DEF LookedUp, IngestionOpen

(* No update outdates another.                                             *)
UpdatesApart ==
  \A q, r \in Requests : <<q, r>> \in outdated =>
    /\ pc[q] # "idle" /\ pc[r] # "idle"
    /\ call[q].op # "updateMetadata" \/ call[r].op # "updateMetadata"

(* Of two of them only one is served.                                      *)
LEMMA NextUpdatesApart ==
  ASSUME TypeOK, TurnInv, UpdatesApart, [Next]_vars
  PROVE  UpdatesApart'
<1>. SUFFICES ASSUME NEW q \in Requests, NEW r \in Requests, <<q, r>> \in outdated'
              PROVE  /\ pc'[q] # "idle" /\ pc'[r] # "idle"
                     /\ call'[q].op # "updateMetadata" \/ call'[r].op # "updateMetadata"
  BY DEF UpdatesApart
<1>1. /\ pc[q] # "idle" /\ pc[r] # "idle"
      /\ call[q].op # "updateMetadata" \/ call[r].op # "updateMetadata"
  <2>1. CASE <<q, r>> \in outdated
    BY <2>1 DEF UpdatesApart
  <2>2. CASE <<q, r>> \notin outdated
    <3>1. /\ q # r /\ (Waiting(q) \/ IngestionOpen(q))
          /\ RunIngestion(r) \/ (Placed(r) /\ Waiting(r))
      BY <2>2, WhoOutdates, WhoLooked, PlacedIsWaiting
    <3>2. IngestionOpen(q) \/ RunIngestion(r)
      BY <3>1 DEF TurnInv
    <3>. QED
      BY <3>1, <3>2, JobIsOfCall DEF Waiting, Placed, IngestionOpen, RunIngestion
  <2>. QED
    BY <2>1, <2>2
<1>. QED
  BY <1>1, CallsLast

(* If clients take turns, no sequence of requests leaves a record whose    *)
(* sourceDateStart is after its sourceDateEnd, whatever calls fail and     *)
(* however the jobs run: the update of one date is judged with the other   *)
(* date as it is when the update is written.                               *)
THEOREM DatesStayInOrder == TakeTurns => (Spec => []DatesOrdered)
<1>1. SUFFICES ASSUME TakeTurns PROVE Spec => []DatesOrdered
  OBVIOUS
<1>2. Spec => []TurnInv
  BY <1>1, OneAtATime
<1>3. Init => UpdatesApart
  BY DEF Init, UpdatesApart
<1>4. TypeOK /\ TurnInv /\ UpdatesApart /\ [Next]_vars => UpdatesApart'
  BY NextUpdatesApart
<1>5. ASSUME TypeOK, UpdatesApart, DisorderExplained, NEW k \in Keys, IsRecord(k)
      PROVE  catalog[k].start <= catalog[k].end
  <2>1. catalog[k].start \in Nat /\ catalog[k].end \in Nat
    BY <1>5, DomainAssumption DEF TypeOK, IsRecord, Record3D
  <2>2. ~(catalog[k].start > catalog[k].end)
    BY <1>5 DEF DisorderExplained, Updated, Overlapped, UpdatesApart
  <2>. QED
    BY <2>1, <2>2
<1>6. TypeOK /\ UpdatesApart /\ DisorderExplained => DatesOrdered
  BY <1>5 DEF DatesOrdered
<1>. QED
  BY <1>2, <1>3, <1>4, <1>6, TypeCorrect, DisordersExplained, PTL DEF Spec

-----------------------------------------------------------------------------
(* Names.                                                                  *)

(* Clients wait for open ingestions, too.                                  *)
SettledTurns == Turns = "settled" /\ ~Late

(* An ingestion that is open is the only one, and nobody is served.        *)
OpenAlone ==
  \A r \in Requests : IngestionOpen(r) =>
    \A q \in Requests : ~Waiting(q) /\ (IngestionOpen(q) => q = r)

(* An ingestion is opened by the one request that is served, and no other  *)
(* is received until it is done.                                           *)
LEMMA NextOpenAlone ==
  ASSUME TypeOK, DeletionInv, TurnInv, SettledTurns, OpenAlone, [Next]_vars
  PROVE  OpenAlone'
<1>. TakeTurns
  BY DEF TakeTurns, SettledTurns
<1>1. ASSUME NEW r \in Requests, job'[r] = "open", call'[r].op = "createModel", ~IngestionOpen(r)
      PROVE  /\ \A q \in Requests : ~IngestionOpen(q) /\ (q # r => job'[q] = job[q])
             /\ \A q \in Requests : Waiting(q) => q = r
             /\ call' = call
             /\ pc'[r] \in {"answered", "crashed"}
             /\ Waiting(r)
  <2>1. job[r] = "none" /\ Opens(r) /\ Placed(r) /\ call' = call
    <3>1. ASSUME job[r] # "none" PROVE FALSE
      <4>1. call'[r] = call[r] /\ job[r] = "open"
        BY <1>1, <3>1, JobsMove, JobIsOfCall, CallsLast
      <4>. QED
        BY <1>1, <4>1 DEF IngestionOpen
    <3>2. job[r] = "none" /\ Opens(r) /\ call' = call
      BY <1>1, <3>1, JobsMove
    <3>. QED
      BY <3>2 DEF Opens, Goes, Placed
  <2>2. Waiting(r) /\ call[r].op = "createModel"
    BY <1>1, <2>1, PlacedIsWaiting
  <2>3. pc[r] = "create.ingest"
    BY <2>1, <2>2, StepTellsOp, StepsOfOps DEF Opens
  <2>. QED
    BY <2>1, <2>2, <2>3 DEF Opens, OpenJob, Goes, TypeOK, OpenAlone, TurnInv
<1>2. ASSUME NEW r \in Requests, job'[r] = "open", call'[r].op = "createModel",
             NEW q \in Requests, Waiting(q)'
      PROVE  FALSE
  <2>1. CASE IngestionOpen(r)
    <3>1. ~Waiting(q)
      BY <2>1 DEF OpenAlone
    <3>2. pc[q] = "idle"
      BY <1>2, <3>1, PlacesMove, PlacedIsWaiting, NobodyIsLate DEF Waiting, Ended, TurnInv, Placed
    <3>3. Receive(q)
      BY <1>2, <3>2, StepTaken, NobodyIsLate DEF Waiting, Ended, Placed
    <3>. QED
      BY <2>1, <3>3 DEF Receive, SettledTurns, NoIngestionOpen, IngestionOpen
  <2>2. CASE ~IngestionOpen(r)
    <3>1. Waiting(r) /\ pc'[r] \in {"answered", "crashed"}
      BY <1>1, <1>2, <2>2
    <3>2. Waiting(q)
      BY <1>2, <3>1, WaitingMove
    <3>. QED
      BY <1>2, <3>1, <3>2 DEF TurnInv, Waiting, Ended
  <2>. QED
    BY <2>1, <2>2
<1>3. ASSUME NEW r \in Requests, job'[r] = "open", call'[r].op = "createModel",
             NEW q \in Requests, job'[q] = "open", call'[q].op = "createModel"
      PROVE  q = r
  <2>1. CASE IngestionOpen(r) /\ IngestionOpen(q)
    BY <2>1 DEF OpenAlone
  <2>2. CASE ~IngestionOpen(r)
    BY <1>1, <1>3, <2>2 DEF IngestionOpen
  <2>3. CASE ~IngestionOpen(q)
    BY <1>1, <1>3, <2>3 DEF IngestionOpen
  <2>. QED
    BY <2>1, <2>2, <2>3
<1>. QED
  BY <1>2, <1>3 DEF OpenAlone, IngestionOpen

(* Then nobody uses a name that another request has looked for.            *)
LEMMA NothingIsOutdated ==
  ASSUME TypeOK, TurnInv, OpenAlone, outdated = {}, [Next]_vars
  PROVE  outdated' = {}
<1>1. ASSUME NEW q \in Requests, NEW r \in Requests, <<q, r>> \in outdated' PROVE FALSE
  <2>1. /\ q # r /\ (Waiting(q) \/ IngestionOpen(q))
        /\ IngestionOpen(r) \/ Waiting(r)
    BY <1>1, WhoOutdates, WhoLooked, PlacedIsWaiting DEF RunIngestion, IngestionOpen
  <2>. QED
    BY <2>1 DEF TurnInv, OpenAlone
<1>2. outdated' \subseteq Requests \X Requests
  BY NextType DEF TypeOK
<1>. QED
  BY <1>1, <1>2

(* If clients wait for each other and for open ingestions, no two records  *)
(* ever have the same product name, stray spaces apart, though the look    *)
(* for the name and its use are calls of their own, and a new model is in  *)
(* no record until its job is done.                                        *)
THEOREM NamesStayUnique == SettledTurns /\ FirstNames => (Spec => []NamesUnique)
<1>1. SUFFICES ASSUME SettledTurns, FirstNames PROVE Spec => []NamesUnique
  OBVIOUS
<1>2. Spec => []TurnInv
  BY <1>1, OneAtATime DEF SettledTurns, TakeTurns
<1>3. Init => OpenAlone /\ outdated = {}
  BY DEF Init, OpenAlone, IngestionOpen
<1>4. /\ TypeOK /\ DeletionInv /\ TurnInv /\ OpenAlone /\ outdated = {} /\ [Next]_vars
      => (OpenAlone /\ outdated = {})'
  BY <1>1, NextOpenAlone, NothingIsOutdated
<1>5. outdated = {} /\ ClashExplained => NamesUnique
  BY DEF ClashExplained, Overlapped, NamesUnique
<1>6. Spec => []ClashExplained
  BY <1>1, ClashesExplained
<1>. QED
  BY <1>2, <1>3, <1>4, <1>5, <1>6, TypeCorrect, DeletionInvariant, PTL DEF Spec
===============================================================================
