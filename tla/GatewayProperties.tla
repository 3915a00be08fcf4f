--------------------------- MODULE GatewayProperties ---------------------------
(***************************************************************************)
(* What the gateway is meant to guarantee.  The first group holds however  *)
(* requests interleave and whatever fails; the second needs clients that   *)
(* take turns; the third, services that answer.                            *)
(***************************************************************************)
EXTENDS Gateway

IsRecord(k)       == catalog[k] # NoRecord
IsBeingDeleted(k) == IsRecord(k) /\ catalog[k].status = BEING_DELETED

DeleteJobs == {r \in Requests : job[r] # "none" /\ call[r].op = "deleteModel"}

(* Type invariant: every variable holds a value of its kind, and a request *)
(* only ever is at a step of the handler its call was routed to.           *)
TypeOK ==
  /\ catalog \in [Keys -> Record3D \cup {NoRecord}]
  /\ job \in [Requests -> {"none", "open", "done"}]
  /\ locked \subseteq Names
  /\ call \in [Requests -> Payloads \cup {NoCall}]
  /\ pc \in [Requests -> {"idle", "answered", "crashed"} \cup UNION {Steps[o] : o \in Ops}]
  /\ late \subseteq {r \in Requests : pc[r] \in Effects}
  /\ seen \in [Requests -> Names \cup {Undefined}]
  /\ answer \in [Requests -> Answers]
  /\ wrote \subseteq Requests
  /\ overtaken \subseteq Requests
  /\ misled \subseteq Requests
  /\ outdated \subseteq Requests \X Requests
  /\ \A r \in Requests :
       IF pc[r] = "idle"
       THEN job[r] = "none"
       ELSE /\ call[r] \in Payloads
            /\ WellFormed(call[r])
            /\ pc[r] \in {"answered", "crashed"} \cup Steps[call[r].op]

-----------------------------------------------------------------------------
(* Under any interleaving, with failing calls, lost replies and crashes.   *)

(* What a client is told is what happened: a refusal (400, 409) and a mere *)
(* validation leave no job and no write behind, and a success stands for   *)
(* every effect the request was to have; deleteModel answers 200 only when *)
(* the job exists and the mark is written.                                 *)
AnswerTellsEffect ==
  \A r \in Requests :
    /\ answer[r] \in {"BadRequest", "Conflict", "Valid", "Invalid"} =>
         job[r] = "none" /\ r \notin wrote
    /\ answer[r] = "OK" =>
         r \in wrote /\ (call[r].op = "deleteModel" => job[r] # "none")
    /\ answer[r] = "Created" => job[r] # "none"

(* Whatever is asked about a new model and in which order the answers      *)
(* come, what is ingested has passed every check: its dates and its        *)
(* resolutions are in order, its product exists, its class is listed and   *)
(* its footprint is that of the model.  For an unknown product this rests  *)
(* on axios, which rejects the 404.                                        *)
IngestedIsValid ==
  \A r \in Requests :
    job[r] # "none" /\ call[r].op = "createModel" =>
      /\ isMetadataValid(call[r])
      /\ call[r].product # Undefined => isProductIdExist(call[r].product)
      /\ isClassificationValid(call[r].class)

(* deleteModel opens the job before it marks the record and never takes it *)
(* back: a record that is to be removed without being marked is one whose  *)
(* deletion is still under way, has failed towards its client, or was      *)
(* covered up by a status change that had read the record before the mark. *)
UnmarkedDeletionExplained ==
  \A r \in DeleteJobs :
    job[r] = "open" /\ IsRecord(call[r].id) /\ ~IsBeingDeleted(call[r].id) =>
      \/ pc[r] \in {"delete.mark", "crashed"}
      \/ answer[r] = "ServerError"
      \/ \E s \in overtaken \cap wrote :
           call[s].op = "updateStatus" /\ call[s].id = call[r].id

(* No record is stuck by a deletion: one that is marked BEING_DELETED,     *)
(* which no handler of the gateway will change any more, has an open job   *)
(* that removes it, or a client has given it that status with updateStatus.*)
OpenDeletion(r, k) == r \in DeleteJobs /\ job[r] = "open" /\ call[r].id = k

GaveTheMark(r, k) ==
  /\ r \in wrote
  /\ call[r].op = "updateStatus"
  /\ call[r].status = BEING_DELETED
  /\ call[r].id = k

BeingDeletedExplained ==
  \A k \in Keys : IsBeingDeleted(k) =>
    \E r \in Requests : OpenDeletion(r, k) \/ GaveTheMark(r, k)

(* And then it is stuck for good: once no deletion of it is open and no    *)
(* request about it has passed its status check, nothing that clients do   *)
(* removes it or changes it.                                               *)
Stuck(k) ==
  /\ IsBeingDeleted(k)
  /\ RestOn(k) = {}
  /\ \A r \in Requests : ~OpenDeletion(r, k)

StuckForGood ==
  [][\A k \in Keys : Stuck(k) => catalog'[k] = catalog[k] /\ Stuck(k)']_vars

(* A handler that has passed its status check works on a record that is    *)
(* not being deleted, unless a mark has overtaken it since.                *)
OnlyOvertakenAreStale ==
  \A r \in Requests :
    pc[r] \in PastStatusCheck /\ IsBeingDeleted(call[r].id) => r \in overtaken

(* The damage of a stale status check is confined: a record that is being  *)
(* deleted is only ever rewritten by an overtaken request about it.        *)
OnlyOvertakenRewriteDoomed ==
  [][\A k \in Keys :
       IsBeingDeleted(k) /\ catalog'[k] \notin {catalog[k], NoRecord} =>
         \E r \in overtaken : r \in wrote' \ wrote /\ call[r].id = k]_vars

(* Deletions whose client was told of a failure, or of nothing: their job  *)
(* may be there, and nothing in the record shows it.                       *)
Failed(r) == Ended(r) /\ answer[r] # "OK"

(* A record has two deletions that have not failed only if neither could   *)
(* know of the other: both are still under way, the mark of one came after *)
(* the other had found the record, or a status change that had read the    *)
(* record before a mark has covered it up.                                 *)
SecondJobExplained ==
  \A r, s \in DeleteJobs :
    r # s /\ call[r].id = call[s].id /\ ~Failed(r) /\ ~Failed(s) =>
      \/ pc[r] = "delete.mark" /\ pc[s] = "delete.mark"
      \/ r \in overtaken \/ s \in overtaken
      \/ \E t \in overtaken \cap wrote :
           call[t].op = "updateStatus" /\ call[t].id = call[r].id

(* No update brings the dates of a record out of order on its own: if      *)
(* sourceDateStart comes after sourceDateEnd, they were written by two     *)
(* updates, and one of them was judged with what the other replaced before *)
(* it was written.                                                         *)
Updated(r, k)    == r \in wrote /\ call[r].op = "updateMetadata" /\ call[r].id = k
Overlapped(r, s) == <<r, s>> \in outdated \/ <<s, r>> \in outdated

DisorderExplained ==
  \A k \in Keys : IsRecord(k) /\ catalog[k].start > catalog[k].end =>
    \E r, s \in Requests :
      /\ Updated(r, k) /\ call[r].start = catalog[k].start
      /\ Updated(s, k) /\ call[s].end = catalog[k].end
      /\ Overlapped(r, s)

(* Two records have the same name, stray spaces apart, only if both were   *)
(* given it by requests, one of which had looked for it before the other   *)
(* used it and used it later.                                              *)
Named(r, k) ==
  /\ \/ Updated(r, k)
     \/ r = k /\ job[r] = "done" /\ call[r].op = "createModel"
  /\ call[r].name = catalog[k].name

ClashExplained ==
  \A j, k \in Keys :
    /\ IsRecord(j) /\ IsRecord(k) /\ j # k
    /\ Simplified[catalog[j].name] = Simplified[catalog[k].name]
    => \E r, s \in Requests : Named(r, j) /\ Named(s, k) /\ Overlapped(r, s)

(* While extractable-management holds the name of a record, nobody updates *)
(* its metadata or its status, except for a request that it has misled:    *)
(* the name was taken after the request had asked about it, or was given   *)
(* to the record after the request had read it in order to ask about its   *)
(* name.  deleteModel does not ask at all.                                 *)
LockedWriteExplained ==
  [][\A k \in Keys :
       /\ IsRecord(k)
       /\ catalog[k].name \in locked
       /\ catalog'[k] \notin {catalog[k], NoRecord}
       => \E r \in wrote' \ wrote :
            /\ call[r].id = k
            /\ call[r].op = "deleteModel" \/ r \in misled]_vars

(* The best terrain is never removed, though its type is checked only when *)
(* the record is found and the job runs at some later time.                *)
BestTerrainStays ==
  [][\A k \in Keys :
       IsRecord(k) /\ catalog[k].type = QUANTIZED_MESH_DTM_BEST =>
         catalog'[k] # NoRecord]_vars

(* What the invariants above rest on, in the order of a request's life:    *)
(* a new model is unpublished whatever its payload says; a request has no  *)
(* job before it asks for one, so that it opens at most one; a record made *)
(* by an ingestion is there only once that job is done, so that no job     *)
(* brings back what was deleted; a deletion is of a record that was there; *)
(* and whoever is about to mark has a job, open as long as there is        *)
(* something to mark.                                                      *)
BeforeJob == IngestionSteps \cup {"delete.find", "delete.job"}

NewModelsUnpublished ==
  \A r \in Requests :
    pc[r] # "idle" /\ call[r].op = "createModel" => call[r].status = UNPUBLISHED

NoJobBeforeAsking ==
  \A r \in Requests : pc[r] \in BeforeJob => job[r] = "none"

IngestedByDoneJob ==
  \A r \in Requests : IsRecord(r) => job[r] = "done"

DeletesWhatWasThere ==
  \A r \in Requests :
    pc[r] \in {"delete.job", "delete.mark"} /\ call[r].id \in Requests =>
      job[call[r].id] = "done"

MarksWithJob ==
  \A r \in Requests :
    pc[r] = "delete.mark" =>
      /\ job[r] # "none"
      /\ job[r] = "done" => ~IsRecord(call[r].id)

DeletionInv ==
  /\ NewModelsUnpublished
  /\ NoJobBeforeAsking
  /\ IngestedByDoneJob
  /\ DeletesWhatWasThere
  /\ MarksWithJob
  /\ OnlyOvertakenAreStale

-----------------------------------------------------------------------------
(* When clients take turns.                                                *)

(* sourceDateStart is never after sourceDateEnd, though an update may give *)
(* one of them and leave the other as it is stored.                        *)
DatesOrdered ==
  \A k \in Keys : IsRecord(k) => catalog[k].start <= catalog[k].end

(* minResolutionMeter is never bigger than maxResolutionMeter.             *)
ResolutionsOrdered ==
  \A k \in Keys : IsRecord(k) =>
    isResolutionMeterValid(catalog[k].minRes, catalog[k].maxRes)

(* No two records have the same product name, stray spaces apart.          *)
NamesUnique ==
  \A j, k \in Keys :
    /\ IsRecord(j) /\ IsRecord(k)
    /\ Simplified[catalog[j].name] = Simplified[catalog[k].name]
    => j = k

(* A record that is being deleted changes no more: it is only removed.     *)
DoomedIsFrozen ==
  [][\A k \in Keys : IsBeingDeleted(k) =>
       catalog'[k] \in {catalog[k], NoRecord}]_vars

(* However often a deletion is asked for, a record has at most one that    *)
(* has not failed: retries open a second job only after a failure.         *)
OneDeleteJob ==
  \A r, s \in DeleteJobs :
    call[r].id = call[s].id => r = s \/ Failed(r) \/ Failed(s)

(* What is published is not removed, unless a deletion of it had failed    *)
(* before: deleteModel checks the status long before the job runs.         *)
PublishedStays ==
  [][\A k \in Keys :
       IsRecord(k) /\ catalog[k].status = PUBLISHED /\ catalog'[k] = NoRecord =>
         \E r \in DeleteJobs : call[r].id = k /\ Failed(r)]_vars

-----------------------------------------------------------------------------
(* What must eventually happen.                                            *)

(* Every request that is received is answered, or dies with its replica.   *)
EveryRequestEnds == \A r \in Requests : Waiting(r) ~> Ended(r)

(* A deletion that was accepted removes its record.                        *)
AcceptedDeletionRemoves ==
  \A r \in Requests :
    answer[r] = "OK" /\ call[r].op = "deleteModel" ~>
      answer[r] = "OK" /\ ~IsRecord(call[r].id)

(* A model that was accepted gets its record, which is there as long as    *)
(* nobody has it deleted.                                                  *)
AcceptedModelAppears ==
  \A r \in Requests :
    answer[r] = "Created" ~>
      /\ job[r] = "done"
      /\ IsRecord(r) \/ \E s \in DeleteJobs : call[s].id = r

-----------------------------------------------------------------------------
(* What the API's tests promise of a productId that the catalog does not   *)
(* know: once it is asked about, and the catalog answers, the model is     *)
(* refused with a 400.                                                     *)
UnknownProductIsRefused ==
  [][\A r \in Requests :
       pc[r] = "create.product" /\ call[r].product \notin Products
         /\ pc'[r] = "answered" => answer'[r] = "BadRequest"]_vars
================================================================================
