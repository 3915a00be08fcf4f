# A TLA+ verification project for 3d-gateway

`3d-gateway` is the public entry of a system that stores 3D models. It checks
what clients ask for and passes it on: to the *catalog*, which stores a record
for each model, to the *store-trigger*, which opens the jobs that ingest and
delete models, to *extractable-management*, which may hold a product name so
that nobody changes the record behind it, to *lookup-tables*, which lists
classifications, and to the volume and the S3 bucket the models lie on.

The gateway keeps nothing between requests and holds no lock or transaction.
What is hard about it is what follows from that: each handler reads, decides,
asks again and writes in separate calls, any number of replicas do so at once,
the jobs change the catalog at their own time, and any call may fail, or
succeed without the caller hearing of it.

All paths below are relative to the repository (`src/` is its TypeScript).

## 1. Inventory

| Component | State | Operations | Talks to |
|---|---|---|---|
| Controllers and routers (`src/model/controllers`, `src/metadata/controllers`, `routes`) | none; they change the payload (simplified name, status of a new model) | `createModel`, `validate`, `deleteModel`, `validateDeleteById`, `updateMetadata`, `updateStatus` | the managers |
| `ModelManager` | locals of each request | `createModel`, `validateModelForIngestion`, `deleteModel`, `validateDeleteByRecordId` | validator, catalog, store-trigger, volume |
| `MetadataManager` | locals of each request (the record read) | `updateMetadata`, `updateStatus` | validator, catalog |
| `ValidationManager` | locals of each request | `isMetadataValidForIngestion`, `validateUpdate`, `isRecordAbsentFromExtractable` and the checks they are made of | catalog, lookup-tables, extractable-management, S3, volume |
| `CatalogCall` | none; the catalog has the records | `getRecord`, `findRecords`, `isProductIdExist`, `patchMetadata`, `changeStatus` | catalog |
| `StoreTriggerCall` | none; the store-trigger has the jobs | `startIngestion`, `startDeleteJob` | store-trigger |
| `ExtractableCall` | none; the service has the held names | `isExtractableRecordExists` | extractable-management |
| `LookupTablesCall` | none | `getClassifications` | lookup-tables |
| `S3Provider`, `extractLink`, `calculatePolygonFromTileset` | none | `getFile`, the path in a link, the polygon of a bounding volume | S3 |
| Utilities | none | simplified names, paths, polygons in two dimensions | |
| Errors, server, configuration, injection, tracing, storage explorer | wiring | | |

What makes them correct:

* *Answers.* What the client is told is what has happened. A refusal leaves nothing
  behind; a success stands for every effect.
* *Deletion.* Only unpublished records that are not the best terrain are deleted; a
  record under deletion is marked, is changed by nobody, has a job that removes it,
  and has only one.
* *Metadata.* Names stay unique, dates and resolutions stay in order, a record whose
  name is held is not updated by a request that could know; a footprint that is
  stored is flat, closed, and meets the model. Nothing is ingested that some check
  would refuse.
* *Progress.* Every request is answered, and what was accepted happens.

The hard behaviours are the interleavings of handlers at their awaits, stale
checks, failures between the job and the mark of a deletion, lost replies and
retries, writes that are applied after their client was told of a failure, jobs
that overtake the handlers that opened them, and values that are compared in a
form (texts, areas) that is not quite what is meant. `PROJECT.json`
lists each under `hazards` with the line where it bites.

## 2. The modules

```
Records ── Services ── ValidationManager ──┬── MetadataManager ──┐
                                           └── ModelManager ─────┴── Gateway ── GatewayProperties

GatewayContract ──(INSTANCE)── GatewayRefinement ── MCGateway                              (TLC)
                               GatewayProperties ── GatewayProofs ── DeletionProofs
                                 ── AnswerProofs ── RemovalProofs ─┬── RefinementProofs    (TLAPS)
                                                                   └── MetadataProofs ── TurnProofs
SourceDates ─┬── Contents ─┬── MCContents                                                  (TLC)
Footprints  ─┘             └── ContentsProofs                                              (TLAPS)
```

A line from left to right is EXTENDS; `RefinementProofs` extends
`GatewayRefinement`, too.

* **Records**: records, payloads and their assumptions, what the controllers
  change in a payload, how a patch changes a record.
* **Services**: the variables, what the other services answer (`getRecord`,
  `findRecords`, ...), how the catalog applies a write (`ApplyPatch`,
  `ApplyStatus`) and the store-trigger opens a job (`OpenJob`), and how a handler
  goes on (`Await`), ends (`Respond`) or is let down (`CallFails`).
* **ValidationManager**: the checks of `validationManager.ts`, under their
  names, as predicates; and which check a payload leads to next.
* **MetadataManager**, **ModelManager**: the handlers, one action for each
  awaited call.
* **Gateway**: routing, the environment (jobs, held names, crashes, calls that
  arrive late), `Init`, `Next`, `Spec`, `FairSpec`.
* **GatewayProperties**: what is claimed of the gateway.
* **GatewayContract**: the abstract specification, without handlers: what clients
  and whoever runs the catalog may rely on. **GatewayRefinement** has the mapping
  under which the gateway implements it.
* **SourceDates**: `sourceDateStart` and `sourceDateEnd` as they are in the code,
  texts that are compared character by character, and the instants they stand for.
* **Footprints**: `isPolygonValid`, `isFootprintAndModelIntersects`,
  `getTilesetModelPolygon`, `convertPolygonTo2DPolygon` and `footprintSchema`, ring
  by ring, where `ValidationManager` has only their verdicts.
* **Contents**: a record with its dates and its footprint through any sequence of
  ingestion, updates, and clients that send back what they have read.
* **MCGateway**, **MCContents**: instances for TLC.
* **...Proofs**: theorems (section 5).

### State

| Variable | In the code |
|---|---|
| `catalog` | the records behind `CatalogCall`; a record is reduced to name, type, status, two dates and two resolutions, the fields some check decides on |
| `job` | what `startIngestion` or `startDeleteJob` of a request opened: none, open or done |
| `locked` | the names for which `isExtractableRecordExists` answers yes |
| `call`, `pc`, `answer` | the request, the call its handler awaits, its response |
| `late` | the requests that have ended, with an error or without an answer, while the call at `pc` is still on its way |
| `seen` | the product name of the record the handler holds (`record`, `record3D` of `metadataManager.ts`) |
| `wrote`, `overtaken`, `misled`, `outdated` | history: whose write the catalog applied; whose record was marked after it was read; who has asked extractable-management about a name that was taken after the answer, or that its record got after it was read (`misled`); and which pairs of requests overlapped, the metadata of the second reaching the catalog after the first had looked at it and before its own did. No action looks at them |
| `start`, `end` (`SourceDates`) | the two dates of one record, as the catalog answers with them |
| `tileset`, `footprint` (`Footprints`) | the tileset file of the model and the footprint of its record |

A new model gets a fresh `uuid`; the request stands for it, so that a record
has an identifier in `Keys == Ids \cup Requests`.

### Steps

An action is one awaited call with the code from its answer to the next await,
or to the response. JavaScript runs that code without interruption, and the code
touches only the handler's locals, so no coarser and no finer interleaving can
be told apart. A `pc` is named after the call awaited: `delete.find`,
`delete.job` and `delete.mark` are the `findRecords`, `startDeleteJob` and
`changeStatus` of `deleteModel`. A check that is made before the first await is
part of the first action; `isModelPathValid` is one, and shares the
nondeterminism of the files.

`createModel` and `validate` share `validateModelForIngestion` in the code, and
share its actions here.

In `Contents` a request is one step: no check of a footprint looks at the stored
one, and updates of dates that interleave are the matter of `Gateway`.

### Failures

With `Faulty`, an awaited call fails before it does anything (`CallFails`), or
its write is applied and the reply is lost, or the replica dies (`Crash`). With
`Late`, a write or a job may outlive whoever asked for it: the client is told of
a failure, or of nothing (`Abandon`), and the service carries the call out at any
later time, or never (`Deliver`). The client calls of `src/externalServices` set
no timeout and no idempotency key, so nothing rules this out. All failures, and every
`AppError` that is neither a 400 nor a 409, are the answer `ServerError`.
Independently of these constants, the catalog answers a question about a missing
record with an empty body or refuses it: axios rejects the second, and the code
distinguishes them. The store-trigger may refuse a job with a 400. Files may be
there at one call and gone at the next. Extractable-management takes and frees
names at any time: it is no client and knows nothing of the gateway's requests.

The store-trigger may refuse any job, whatever its payload. That it does so for the
name of a model whose job is open (`modelController.spec.ts:689` has it so) is left
open: two creations of one name may both be accepted, or the second refused. A job
that is open is carried out sooner or later and does what it was opened for:
`bundledApi.yaml:297-305` lists `Failed`, `Expired` and `Aborted` among the states of
a job, but nothing in the gateway looks at them, and what the store-trigger then
does with the model or the mark is not in this repository. `BeingDeletedExplained`,
`AcceptedDeletionRemoves` and `AcceptedModelAppears` rest on that assumption: where
it fails, a marked record may be left without a job, and is then stuck as
`StuckForGood` describes.

### What is abstracted

* In `Gateway`, a footprint is the verdict of the geometry on it: it `covers` the
  model, is `far` from it, is `malformed`, or is `empty` (a list of no ring, which
  `footprintSchema` lets through and `validateCoordinates` throws at); a date is a
  natural number. `Footprints` and `SourceDates` have the checks behind the verdicts
  and show when the numbers are a fair picture (`TextOrderIsTimeOrder`).
* In `Footprints`, a ring is its number of positions, the numbers of coordinates
  they have and how it closes; of a simple polygon its areas inside and outside the
  model's polygon are kept, which are all that the coverage depends on. turf is
  external: its `polygon` throws at a ring that is short or not closed in all its
  coordinates.
* In `SourceDates`, a timestamp is its text up to the seconds (which sorts as it
  counts), the digits of its fraction, any number of them or none, and a zone: Z or
  an offset. `Text` has its characters, which `isDatesValid` compares one by one. The
  catalog may keep what it stores, or rewrite it into UTC with a number of digits of
  its own (`Rewrites`, `Precision`).
* A classification is listed or not, a tileset usable or not, a path exists or
  not.
* `Simplified` maps a spelling of a name to `getSimplifiedProductName` of it;
  all that is assumed is that doing it twice changes nothing.
* `productVersion`, links, keywords and other fields that nothing decides on.
* Payloads are those the OpenAPI middleware lets through (`WellFormed`).

## 3. The runs

The instances of the gateway have one or two records, one to four requests, three
names of which one has a second spelling, three dates and three resolutions. The
requests are interchangeable (`SYMMETRY`), except where liveness is checked,
which symmetry would make unsound, and in `products`, which has one request.

| Run | Instance | Faults | Checks |
|---|---|---|---|
| `lifecycle` | 3 requests, any interleaving | all | `TypeOK`, `AnswerTellsEffect`, `UnmarkedDeletionExplained`, `BeingDeletedExplained`, `SecondJobExplained`, `OnlyOvertakenAreStale`, `DeletionInv`, `OnlyOvertakenRewriteDoomed`, `BestTerrainStays`, `StuckForGood`, `ImplementsContract` |
| `turns` | 3 requests, one after the other | all but `Late` | `DatesOrdered`, `OneDeleteJob`, `DoomedIsFrozen`, `PublishedStays` |
| `settled` | 4 requests, one after the other and after the ingestions | all but `Late` | `NamesUnique` |
| `progress` | 2 requests, any interleaving, fair | all | `IngestedIsValid`, `DisorderExplained`, `ClashExplained`, `LockedWriteExplained`, `EveryRequestEnds`, `AcceptedDeletionRemoves`, `AcceptedModelAppears` |
| `contents` | 1 record, 6 dates of one zone and two digits each, 95 footprints, every kind of tileset | | `InstantsOrdered`, `StoredIsFlatAndClosed`, `StoredIsAcceptedAgain` |
| `stale_status` | 2 requests, any interleaving | none | violates `DoomedIsFrozen` |
| `date_skew` | 2 requests, any interleaving | none | violates `DatesOrdered` |
| `resolutions` | 2 requests, one after the other | none | violates `ResolutionsOrdered` |
| `names` | 2 requests, one after the other | none | violates `NamesUnique` |
| `products` | 1 request | none | violates `UnknownProductIsRefused` |
| `dates_mixed` | 1 record, dates with no digit, one or two, in two zones | | violates `InstantsOrdered` |
| `overlap` | 1 record, flat squares | | violates `IntersectionReachesLimit` |

*Why the bounds are enough.* Every hazard here needs one record (two for names) and
at most three requests: one that reads, one that marks, and one that makes use of
what is left. `lifecycle` has three so that a status change can be overtaken by a
deletion while another deletion is tried, and so that what one request creates is
deleted by two others. A request has at most eight steps, and nothing is cut off:
the instances are finite without a bound of their own, because a request is served
once. `DatesOrdered` needs three dates, so that two updates can each be in order
with the stored dates and not with each other. `progress` has every operation and
every way in which a new model is refused, for two requests: liveness here is a
matter of one request and one that deletes what it made. Two requests are also what
it takes to bring dates out of order, by a later start or by an earlier end, to use
a name twice (two creations, or a creation and the renaming of the first record), or
to write under a lock: one request asks, and extractable-management, or another
request's renaming, is faster than its write. Footprints in `contents` have at most
two rings, which tells the first ring from the others; no check compares two further
ones.

*What they show.* Under every interleaving and every failure the answers tell
the truth, the best terrain stays, a marked record has its job or was given the
mark by a client, and all that a stale status check can do is to rewrite a record
that was marked after it was read. `ImplementsContract` says the same from the
outside: each request is one decision, at most one job and at most one write, whose
answer never contradicts them, and only requests that a mark has overtaken touch a
record under deletion.

What does not hold under every interleaving is stated twice, where clients can do
something about it. Without any discipline, a property says what has happened if it
does not hold: dates are out of order only by two updates that overlapped
(`DisorderExplained`), a name is used twice only by two requests that overlapped
(`ClashExplained`; in the first catalog each is used once), a record has two
deletions that have not failed only if neither could know of the other
(`SecondJobExplained`), and a record is written while extractable-management holds
its name only by a deletion, which does not ask, or by a request whose question was
overtaken (`LockedWriteExplained`). So there is one kind of accident in each case
and no second one. No discipline of the clients helps against the last: the service
that takes names is not one of them. For the others the property itself is checked,
too, under a discipline of clients that makes it hold (`Turns`); nothing in the code
imposes it. For `DoomedIsFrozen`, `DatesOrdered` and `NamesUnique` a run violates
the same property without it, or with the weaker one, and shows that it is needed;
for `OneDeleteJob` and `PublishedStays` there is no such run:

* `DoomedIsFrozen`, `DatesOrdered` hold when clients take turns, and are violated
  when they do not (`stale_status`, `date_skew`). Under `Late` they would not hold
  either, because a request whose client was told of a failure may still write:
  taking turns is only a discipline if what has ended has ended. For the dates
  there is another discipline that needs no turns: updates that give both dates or
  neither (`WholeDatesStayInOrder`, section 5).
* `OneDeleteJob` and `PublishedStays` say what is left of them when calls fail:
  after a failed mark the job is open and the record looks as if nothing had
  happened, so that a retry opens a second job and a client may publish what is
  about to be removed. Without a failed deletion, neither happens.
  `UnmarkedDeletionExplained` says, without any discipline, exactly when a record
  that is to be removed is not marked.
* `NamesUnique` even needs that no ingestion is open (`settled`, `names`): the
  name of a model under ingestion is in no record yet, so that an update which comes
  after the creation has ended, and before its job is done, finds it free. Two
  creations can do the same only as long as the store-trigger lets them; the
  update never asks it.
* `ResolutionsOrdered` holds under no discipline (`resolutions`): updates do not
  compare the two. An update that gives both in the wrong order is enough; so are
  two that give one each, the first in order with what is stored.
* `UnknownProductIsRefused` is what the integration test of `createModel` says;
  its mock resolves a 404, which axios rejects (`products`). An unknown product is
  refused all the same, with a 500: `IngestedIsValid` holds.
* `BeingDeletedExplained` has a second disjunct because the schema of
  `updateStatus` allows `BEING_DELETED`. `StuckForGood` says what becomes of such a
  record: no request of this gateway changes or removes it any more.
* `InstantsOrdered` holds if all clients write dates alike (`WrittenAlike`): in one
  zone and with one number of digits, whichever. It is violated when they differ in
  either (`dates_mixed`): nothing parses the dates, and as texts 00.55Z comes before
  00.5Z, which comes before 00Z.
* `IntersectionReachesLimit` is what the error message says of a footprint that is
  refused. The code divides the area of the footprint, not of the intersection, by
  that of the union (`overlap`).

Another divergence is not worth a run: `openapi3.yaml` documents a 404 for the
deletion of a record that is not found, and `modelManager.ts:112-114` answers 400.

*Fairness.* `FairSpec` has weak fairness of each handler and of each job. A
handler whose call is answered is run by the event loop, so the assumption is on
the services: a call is answered or fails (the code sets no timeout), and an open
job is carried out. No client is made to send a request, no call that fails is made
to succeed, and a call that was abandoned need not be carried out.

*Deadlock* is checked in every run of the gateway: it may only stop when every
request has ended and every job is done (`Rest`). The runs of `Contents` do not
check it: a model whose tileset has no polygon is never ingested, and nothing
happens then.

## 4. Mutants

Each property of a passing run is violated by a plausible bug in the code,
defined beside the definition it replaces (`isUpdatable_AnyStatus`: the status
is not looked at; `MarkBeingDeleted_FailureIgnored`: the result of the mark is
not looked at; `isFootprintAndModelIntersects_Unbuilt`: areas are taken without
building the polygons, which is what stops a hole that is not closed; ...).
`PROJECT.json` pairs them.

## 5. What is proved

For every value of the constants that meets the assumptions of `Records` and
`Services` (identifiers of records and requests are apart, markers are not values,
payloads are well formed, simplifying a name twice is simplifying it once, the first
catalog has no record being deleted and its dates in order), with every fault:

| Theorem | Module |
|---|---|
| `TypeCorrect`: `Spec => []TypeOK` | GatewayProofs |
| `DeletionInvariant`: `Spec => []DeletionInv` | DeletionProofs |
| `StaleOnlyIfOvertaken`: `Spec => []OnlyOvertakenAreStale` | DeletionProofs |
| `RewritesOfDoomed`: `Spec => OnlyOvertakenRewriteDoomed` | DeletionProofs |
| `MarkedRecordsExplained`: `Spec => []BeingDeletedExplained` | DeletionProofs |
| `AnswersAreTrue`: `Spec => []AnswerTellsEffect` | AnswerProofs |
| `RemovalsExplained`: `Spec => []UnmarkedDeletionExplained` | RemovalProofs |
| `BestTerrainIsSafe`: `Spec => BestTerrainStays` | RemovalProofs |
| `StuckStaysStuck`: `Spec => StuckForGood` | RemovalProofs |
| `SecondJobsExplained`: `Spec => []SecondJobExplained` | RemovalProofs |
| `OnlyValidIsIngested`: `Spec => []IngestedIsValid` | MetadataProofs |
| `DisordersExplained`: `Spec => []DisorderExplained` | MetadataProofs |
| `WholeDatesStayInOrder`: `WholeDates => (Spec => []DatesOrdered)` | MetadataProofs |
| `ClashesExplained`: `FirstNames => (Spec => []ClashExplained)` | MetadataProofs |
| `LockedWritesExplained`: `ExtractableEnabled => (Spec => LockedWriteExplained)` | MetadataProofs |
| `GatewayRefines`: `Spec => ImplementsContract` | RefinementProofs |

`WholeDates` says of the clients that an update gives both dates or neither;
`FirstNames` says of the first catalog that its names are simplified and each is
there once. Neither says anything of the interleaving. `ExtractableEnabled` is the
setting `isExtractableLogicEnabled`, without which nobody asks about locks.

Under `TakeTurns` (clients take turns, and no call is carried out late; other
faults, and jobs at any time, are allowed):

| Theorem | Module |
|---|---|
| `DoomedStaysFrozen`: `Spec => DoomedIsFrozen` | TurnProofs |
| `DatesStayInOrder`: `Spec => []DatesOrdered` | TurnProofs |
| `OneDeletionEach`: `Spec => []OneDeleteJob` | TurnProofs |
| `PublishedIsKept`: `Spec => PublishedStays` | TurnProofs |
| `NamesStayUnique`, under the stronger `SettledTurns` (clients wait for open ingestions, too) and `FirstNames`: `Spec => []NamesUnique` | TurnProofs |

And of `Contents`, whatever the timestamps, footprints and tilesets are:

| Theorem | Module |
|---|---|
| `TextOrderIsTimeOrder`: dates that are written alike, in whatever zone and with however many digits, compare as their instants do | ContentsProofs |
| `DatesStayOrdered`: `WrittenAlike => (Spec => []InstantsOrdered)` | ContentsProofs |
| `StoredFootprints`: `Spec => []StoredIsFlatAndClosed` | ContentsProofs |
| `SentBackFootprints`: `Spec => []StoredIsAcceptedAgain` | ContentsProofs |

*The argument.* `TypeCorrect` is inductive as it stands: a handler's step moves
it within `Steps[call[r].op]`. For deletions the actions of the
handlers are first reduced to four kinds (`Quiet`, `Patches`, `Marks`, `Opens`),
and each kind is shown to keep `DeletionInv`; a late call is of the kind its
handler would have been. `OnlyOvertakenAreStale` alone is
not inductive: that a record newly under ingestion is not being deleted needs
`NewModelsUnpublished`, and that `RunIngestion` never brings back a deleted
record, which a stale request could then find marked, needs `IngestedByDoneJob`
and `NoJobBeforeAsking`. `BeingDeletedExplained` needs `MarksWithJob`: the job of
the deletion that is about to mark is open as long as there is a record to mark;
and that in turn needs `DeletesWhatWasThere`, without which an ingestion could
create the record after its deletion is done. `OnlyOvertakenRewriteDoomed` needs,
besides, that a request writes only once (`WritesLast`).

For the answers the actions are sorted another way, by what they say: a step
goes on and says nothing (`Continues`), or ends with an answer that fits what it
has just done (`Ends`). What the request had done before is at most the job of a
deletion (`JobOnlyAtMark`), which is why a refusal can be believed; `Truthful` is
the invariant, and part of it is that a request with a late call was told of no success.

For the removals, a record is followed from the moment `deleteModel` has found
it. No ingestion makes it anew, because the job that made it is done
(`RemovesOld`); a rewrite keeps its type, so that the type is still the one that
was checked (`NeverTheBest`); and its mark can only be lost to a status change,
which was past its status check and so, by `OnlyOvertakenAreStale`, is overtaken.
The three go through the induction together (`RemovalInv`).

For second deletions, two removals of one record are `Unaware` of each other: one has
failed or was overtaken by the mark of the other, or both are still on their way
to the mark, or a mark was covered up. When a deletion finds the record, any job
of another is still open, or the record would be gone (`RemovedByDoneJob`), and the
record is unmarked, for one of the reasons that `RemovalsExplained` has. From then
on the first of the two to mark overtakes the other, and what has failed has failed
for good (`FailedForGood`).

For the ingestions, a new model passes the checks in their order, each at the one
step that can take its request beyond it (`Passed`), and its payload stays what it
was when it was checked.

For the dates, the invariant is about the judgement and not about the record: an update
that gives one date has found it to fit the other date of its record, and still does
unless that one was replaced by an update it has not seen (`Judged`, `UpdatesJudged`).
The two clauses need each other: what a write leaves in the record fits because it was
judged, and a judgement goes stale only by a write, which then is in `outdated`. In
`Disorder` one of the two updates gave a single date, the other replaced what it was
judged with: clients that always give both are out of its reach. For the
names, a request has looked for the name its record is to get and may still use it
(`Sought`): as an update until it is written, and as a new model until its
ingestion is done, long after its handler has answered. Every other record that has
the name got it since (`SoughtWasFree`), from a request that `outdated` pairs with
the first, so that two records of one name have two such givers (`ClashByTwo`).

For the locks, a handler rests on two things in turn, unless it is `misled`: before it
asks, that the name it has read is the name of its record, and after that, that this
name is free (`LockInv`). Only a renaming takes away the first and only the service
the second or, again, a renaming, and each is in `misled` from then on; no ingestion
brings back a record that a handler has read, because its job is done. So whoever
writes under a lock is misled or never asked.

The refinement is proved by simulation: under the conjunction of all these
invariants each kind of step is a step of `GatewayContract` or leaves what it sees
unchanged. The contract's guards are where the invariants are used: that a
write is a request's first (`WritesLast`), that an undecided request has the
answers it may still give (`Truthful`), that only an overtaken one meets a mark
(`OnlyOvertakenAreStale`), that what is removed is not the best terrain
(`NeverTheBest`).

When clients take turns, at most one request is being served (`TurnInv`), so
nobody can be overtaken, and `DoomedIsFrozen` follows from
`OnlyOvertakenRewriteDoomed`. The theorems that hold under every interleaving yield
most of the others in the same way, as there are no accidents left to except: no
update outdates another (`UpdatesApart`), so dates are in order by
`DisordersExplained`; no two deletions await their marks at once, so there is one by
`SecondJobsExplained`; and if an open ingestion is alone, too (`OpenAlone`), nothing is
ever outdated, and names are unique by `ClashesExplained`. That clients
wait for ingestions bridges the time in which a name is promised and in no record,
and is what `names` shows to be needed. What is left needs `Undisturbed`: while a
handler goes on, the record it has looked at stays as it is, or goes. So a deletion
still finds its record unpublished when it marks it (`DeletesUnpublished`), and a
published record that is removed was removed by a deletion that failed.

For `Contents`, the texts of two dates that are written alike have the same length,
and the same characters except in the clock and at the digits of the fraction
(`Differences`): the first that differs is a clock or a digit, and the order of the
instants is decided by the same. The catalog leaves such dates as they are
(`StoredAsWritten`), so what is compared later is still what was written.
`FootprintInv` says that the stored footprint is accepted and flat; the conversion
keeps whatever the checks look at.

## 6. What is only checked, and what is not modelled

* Only checked by TLC: liveness and fairness (`progress`), which are out of the
  prover's reach. Every safety invariant and action property of a passing run is
  proved.
* The paths of a model: the mapping from the path a client sees to the volume
  (`utilities.ts`), to the store-trigger and to the bucket is string handling
  without state; its result matters as the verdict whether a file is there.
* The trigonometry that makes a polygon of a bounding sphere or region, and turf's
  areas, unions and intersections: real arithmetic. Areas are parameters.
* `index.ts:17` passes `onSignal` within the health checks instead of beside them, so
  that it is never called when the server is stopped. No state of a request
  depends on it; a replica that stops is a `Crash`.
* Server start-up, configuration, injection, tracing, metrics, the storage
  explorer and the deployment: wiring. The settings that change what the gateway
  does are constants (`ExtractableEnabled`, `Limit`).

## 7. Plan

Done: the handlers with every fault, the contract and its refinement, dates and
footprints as they are, and the theorems of section 5. What is left:

1. The dates of `Gateway` as the texts of `SourceDates`: `DisordersExplained` and
   `DatesStayOrdered` say the same of interleaved updates and of texts, each
   with the other left out.
2. The paths of a model (`utilities.ts`), if a check comes to depend on more than
   whether a file is there.
3. Who published a record that a deletion then marks, without any discipline of
   clients, as the other accidents have it. This needs a history of status changes
   since a deletion has read its record; `PublishedStays` has the case without them.
4. Jobs that fail, once it is known what the store-trigger does with the record.
