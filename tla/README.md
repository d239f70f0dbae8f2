# Verification of cdp-core

cdp-core is a customer data platform. A Kafka worker turns events into customer
profiles, identity links, purchases and segment memberships in PostgreSQL; an
HTTP API reads them and exports segments to a webhook. This directory holds TLA+
models of its core logic, TLC configurations that check them on small
instances, and proofs of the main safety properties that TLAPS checks.

Run the tools in this directory:

    tlc -workers 2 -config SingleWorker.cfg MCEventProcessing.tla
    tlapm SingleWorkerProofs.tla
    tlapm LedgerProofs.tla
    tlapm KafkaProofs.tla
    tlapm ExportProofs.tla
    tlapm PagedListsProofs.tla

A call of `tlapm` checks the module it names; `EventProcessingProofs`, `CommitProofs`
and `ProfileProofs`, which the first two build on, are checked in the same way.

`PROJECT.json` lists the runs, the source lines behind each definition, the
hazards, the findings and the theorems.

## Inventory

| component | code | state | operations | hard behaviour | what makes it correct |
|---|---|---|---|---|---|
| profile and segment rules | `domain/rules.py`, `domain/segment.py` | none (pure) | `update_profile_from_event`, `evaluate_static_segments`, payload validation | events out of order, time windows, finer amounts than the column | a profile is a function of the set of its events |
| event processing | `usecase/process_event.py` | one unit of work per call | `process_event` and its outcomes, `_mark_failed_after_dependency_error` | failures between statements, lost commit answers, a second transaction after a rollback, errors nobody expects | each event has its effect once, completely or not at all, and its status says which |
| repositories, unit of work | `repository/raw_event.py`, `identity.py`, `customer_profile.py`, `purchase.py`, `segment.py`, `uow.py` | the committed tables | inserts, upserts, lookups, commit, rollback | READ COMMITTED interleavings, waits on unique keys, deadlocks, lost updates, values a column refuses | keys and foreign keys hold, links do not move |
| schema | `migrations/versions` | constraints | run once | foreign keys that are not deferred | the order of writes fits the foreign keys |
| domain entities | `domain/event.py`, `identity.py`, `profile.py`, `export_job.py` | immutable values | constructors that validate | - | - |
| Kafka worker | `adapter/worker/worker.py`, `main.py` | `_is_running`, the consumer's position | `run`, `stop`, start and shutdown | rebalances, crashes, retry without seeking, messages that always fail, stop on an idle topic | no message is lost silently, offsets go forward |
| router and mapper | `adapter/worker/handlers.py` | none | `dispatch`, `_handle_cdp_event`, `_send_to_dlq`, `to_raw_event` | a dead letter that cannot be published after the commit | a refused message reaches the dead letters before it is committed |
| start-up check | `adapter/worker/handler.py` | none | `ensure_topics_exist` | - | - |
| segment export | `usecase/export.py` | one request | `export_segment`, `get_export_job`, `list_export_jobs` | several transactions per job, failures after the delivery, a count that is stale when used | a finished job tells the truth about the webhook |
| export persistence, pool | `repository/activation.py`, `adapter/fastapi/lifespan.py`, `providers.py` | `activation_jobs`, `activation_deliveries`, the pool | `save_job`, `save_delivery`, connections | a request holds one connection while it waits for another | every request ends |
| webhook gateway | `adapter/fastapi/webhook_payload.py` | none | `send_segment_export` | delivery after the timeout, answers in parts, errors without a text | a result says what the endpoint said |
| routes, read services | `adapter/fastapi/routes`, `usecase/profile.py`, `usecase/segment.py`, `usecase/criteria.py` | none | `list_profiles`, `get_segment_members`, `list_jobs`, `get_profile`, `list_segments` | page and count in two statements, offsets into a list that changes, equal sort keys | a page and its total agree, a walk misses and repeats nothing without a cause |
| auth, configuration, observability | `adapter/fastapi/auth.py`, `adapter/config`, `adapter/otel`, `adapter/observability` | none that the program reads | - | - | - |

How they interact: the worker takes a message, the router maps it and calls
`process_event`, which runs one database transaction (and a second one after a
failure); by the outcome the router publishes a dead letter or raises, and the
loop commits the consumer's position or goes on without. The API and the worker
share only the database: the worker replaces memberships while exports count
and list them and while clients page through them.

The hazards this gives are listed in `PROJECT.json` at the line where each bites,
with the properties that would notice.

## Modules

    Tables                    a table is a function on the keys of its rows
    ProfileRules              pure rules and the SQL merge of a profile row
    EventProcessing           process_event, statement by statement
      SingleWorker            properties that need units of work not to overlap
      EventLedger             what process_event promises its callers
      LedgerRefinement        EventProcessing implements EventLedger
      EventProcessingProofs   type correctness, no event applied twice
      CommitProofs            references, links and statuses
      ProfileProofs           what concurrent commits put into a profile
      LedgerProofs            that EventProcessing implements EventLedger
      SingleWorkerProofs      the properties of SingleWorker, for one worker
    KafkaWorker               loop, router and consumer group, on EventLedger
      KafkaProofs             the offset only advances, what is lost, what is published
    SegmentExport             export requests, pool, webhook and reader
      JobLedger               what the rows of jobs and deliveries promise
      ExportRefinement        SegmentExport implements JobLedger
      ExportProofs            invariants of the export, and that it implements JobLedger
    PagedLists                a client that pages through one of the lists
      PagedListsProofs        what an answer and a walk may get wrong, and no more
    MCEventProcessing, MCKafkaWorker, MCSegmentExport, MCPagedLists
                              instances for TLC

An operator whose name starts with `Faulty` is its neighbour with a plausible
mistake. It is used by no specification; put in the place of the correct one it
makes a property fail (`mutants` in `PROJECT.json`), which shows that the property
says something about that piece of code. `TypeOK` of a module is its one type
invariant.

### EventProcessing and ProfileRules

The five tables are variables with the committed rows. `tx[w]` is the unit of
work of worker `w`; its `pc` names the next statement. Each action is one
statement and the code up to the next:

| action | code (`usecase/process_event.py` unless named) |
|---|---|
| `Begin` | the message reaches `process_event`, `unit_of_work.begin` |
| `RecordReceived` | `record_received`; duplicate, unsupported type and anonymous event are decided here |
| `ResolveKnownProfile`, `LoadProfile` | `find_links`, choice of the customer, `get_by_customer_id` |
| `SelectPurchase`, `InsertPurchase` | `_record_purchase`, the lookup and the insert of `record_processed_purchase` |
| `EvaluateSegments` | the clock is read and the segments evaluated |
| `SaveProfile`, `SaveLink` | `save_profile` with `replace_profile_memberships`, one insert of `save_links` |
| `Commit`, `CommitAnswerLost` | the commit; the same with its answer lost |
| `StatementFails`, `DeadlockVictim` | a statement raises and the transaction is rolled back |
| `StatementRefused` | the database cannot store the values of a statement: it raises however often it is tried |
| `RaiseTypeError`, `CollectSession` | a time without a zone is compared: the error leaves `process_event` with the transaction open, until its session is collected |
| `MarkFailed`, `MarkFailedFails`, `Reply` | `_mark_failed_after_dependency_error`, the answer |
| `Crash`, `Tick` | the process dies; the clock moves |

PostgreSQL is modelled at READ COMMITTED, its default, which the code does not change:
a statement reads what is committed when it runs; one that meets an uncommitted
row with the same unique key waits (`Holders`), and a cycle of waits is broken
(`InDeadlock`, `DeadlockVictim`). Uncommitted rows are `tx[w].writes` and
`tx[w].claimed`; `ApplyWrites` makes them visible. `orphans` are the transactions
`RaiseTypeError` leaves behind: nothing will commit them, and until the pool
terminates their connection others wait for their rows. `Executes(w)` is the
guard of every statement that inserts: it waits for nobody and its values can be
stored (`Refused`).

Abstractions: an event is a constant with type, time, known identifiers and
purchase facts. `recent_events`, which the code never shortens, is a bag, so "the
event is in it once" can be said. Amounts keep the rounding of `numeric(18,2)`
(`Money`) and its upper limit (`MaxMoney`), which a single amount or a grown revenue
may pass. `Storable` and `Zoned` say of an event whether its texts fit the columns and
whether its time has a zone; the mapper checks neither. The merge of the upsert is applied at the commit:
the row is locked from the upsert on. `memberships` are replaced under the same
lock. `EvaluateSegments` is a step of its own because the upsert after it may wait.
`begin` only builds a session and cannot fail. Left out: the branches no event reaches (`invalid_event_identifiers`,
`invalid_generated_customer_id`). A linked customer without a profile
(`linked_profile_not_found`) is modelled, and `ReferencesHold` shows it never
happens.

### EventLedger, LedgerRefinement and KafkaWorker

`EventLedger` is `process_event` for a caller: a table of statuses and the call
each worker waits for. A call enters the event once with the status it answers,
or finds it there and answers processed, or breaks, or never returns. `Verdicts` are
the statuses an event may be entered with; none for an event the database refuses. `LedgerRefinement` maps
`rawEvents` to the ledger and `tx` to the calls; `KafkaWorker` extends `EventLedger`,
so what is checked of the loop rests on a promise that is checked of the service.

`KafkaWorker` models `KafkaWorker.run` (`Fetch`, `LeaveLoop`, `CommitOffset`,
`CommitFails`, and `GivesUp`, the two `except` branches that log and go on), the router (`MappingFails`, `CallService`, `HandleOutcome`, `Publish`,
`PublishFails`), `main` (`Start`, `Stop`, `Crash`) and, as external code, one
partition with its consumer group: a new owner starts at the committed offset,
`consumer.commit()` commits the position and does nothing for a member that lost
the partition; one that raises (`CommitFails`) may have stored the offset all the same. With `enable_auto_commit=False` stopping commits nothing.
The dead letter topic is the set of offsets published in it. A poisonous event has no
verdict: `ServiceRefuses` lets each attempt break or raise without using up the
bound on faults. `cutShort` is history: the messages whose own handling ended in an
error or a crash.

### SegmentExport

A request is a record `run[e]`; `session` and `writing` say which connections it
holds. `Connect` and `PoolTimesOut` are the pool of `lifespan.py` (no overflow, waits
that time out), `GetDefinition`, `CountMembers`, `ListMembers` the reads,
`Save`, `SaveFails`,
`SaveAnswerLost` a transaction of `_save_job` or `_save_final_state`. `Raised` is
what an error does: before the job is running, and in the attempt to mark it
failed, it ends the request; after that it leads to that attempt. `Join` and
`Drops` are the worker changing memberships, `ViewJob` and `ViewDelivery` the two
statements of `get_export_job`. A crash loses all open requests: nothing in the
code takes a pending or running job up again.

The gateway and the endpoint are two parties. `SendMembers` posts the request, which
is in `posts` from then on and in flight; `Arrives` is the endpoint getting it and
taking it or not, at any time: while the request waits, after it gave up, when the
job is saved as failed, and after the process died. `WebhookSilent` is the client's
timeout or a broken connection, wherever the members are. An answer comes in parts
(`AnswerBegins`, `WebhookAnswers`) and may break off (`AnswerBreaks`), since
`timeout=10.0` limits each wait of httpx and not the whole answer. `GivesUp` holds
both ends of such a failure: a failed result, or an error when its text is empty.

Members are numbered by the
`created_at` the list query sorts by. `troubles`, `stayed` and `joins` are history
for the properties. Left out: validation of the request, payload contents.

`JobLedger` is what a reader of the two tables may rely on: a job is registered,
begins to run once, and is settled together with its delivery. Its members leave for
the endpoint at most once and while it runs, and reach it at most once and at any time
after that, also when the job is failed already. Success is what the endpoint said. The one
move it allows a settled job is from succeeded to failed, which is what the code
does when the answer of the final commit is lost. `ExportRefinement` maps the tables
of `SegmentExport` to it.

### PagedLists

`list_profiles`, `get_segment_members` and `list_export_jobs` have one shape: validate, select a
page ordered by a time, latest first, and count in a second statement. `query` says
which list and which filter; `Fleeting` says whether rows can leave it (members and
statuses do, the segment of a job and identity links do not). `ListPage` and
`CountRows` are the two statements, `PageFails` an error in either, `Enter` and `Exit`
what the worker and exports do meanwhile, at any time and with any `created_at`:
it comes from the event, so a new row need not be the first. `Leading(S, n)` holds
every set the first n rows may be: rows with equal times have no order. `TakeAnswer`
is the client, which is not part of the repository: it adds the limit to the offset
until it has reached the total. A page size of 0 is left out: such a client never
gets on.

## Runs

| run | instance | shows |
|---|---|---|
| `SingleWorker` | 1 worker, 8 events, three of them delivered twice, 1 fault, clock 1..3, revenue beyond the column | with one worker (how `docker-compose.yml` runs it) profiles, revenue, links and memberships are functions of the applied events |
| `ConcurrentWorkers` | 2 workers, 5 events, one delivered twice, 1 fault | what survives interleaved statements: nothing counts twice, references hold, links, statuses and times are stable, `EventProcessing` refines `EventLedger` |
| `AttemptsEnd` | 2 workers, 4 events: identifiers in opposite orders, one without a time zone, one the database refuses, 1 fault, fair | deadlocks and lost sessions occur, every unit of work ends, and `EventLedger` is refined all the same |
| `KafkaGroup` | 2 members, 5 messages with a copy, a poisonous and a malformed one, 2 faults, 1 rebalance, 1 stop, fair | a message is skipped only when its handling was cut short, dead letters are refused messages, the offset never goes back, the backlog is drained |
| `SegmentExports` | 2 requests, 2 customers, pools of 1 to 3, 1 fault, 1 membership change, members that arrive late or never, fair | what a finished job may claim, a reader's view, the refinement of `JobLedger`, every request ends |
| `PageWalks` | 5 rows with and without equal times, pages of 1 to 3, 3 changes | page and total agree, and rows are missed or repeated, but for what changed meanwhile |
| `FirstPurchase` | violation | a purchase as a customer's first event always fails |
| `FailedStatus` | violation | `mark_failed` after the rollback finds no row |
| `StaleSegments` | violation | memberships outlive their time window |
| `RepeatedPurchase` | violation | a repeated purchase is a conflict when its amount is finer than the column |
| `FailedSkipped` | violation | the next commit passes a failed message |
| `DeadLetterLost` | violation | a refused message whose dead letter failed is committed without one |

Why the bounds are enough. Two workers give every conflict of two transactions:
each wait is for one row or key, and a cycle of two already needs the deadlock
detector. For what is proved the number does not matter. Two deliveries of an
event give a duplicate during and after its first handling. The events are
chosen so that each decision of the service is taken both ways: identifiers
unlinked, linked to one and to two customers, repeated and in opposite orders; a
late event; a revenue that passes the column's limit, by one amount and by the sum; an order known, repeated by another event, with an amount the column
rounds; unsupported, anonymous, unstorable and refused events. Five rows and pages
of one to three give walks of one to five pages with a rest; three changes
shift a row past a boundary and back. One fault at any place gives
each partial failure; in `KafkaGroup` two let a second failure meet the recovery
from the first. Customers are as many as there can be new ones. One
rebalance takes the partition from a member at work, and a crash or a stop of the
other gives it back. In `SegmentExports` a pool of one
makes a request wait for itself, a pool of two makes the two requests
wait for each other, a pool of three lets the reader stand between two saves; pool
timeouts are not counted as faults, nor is silence of the endpoint, so a request may fail several times. Smaller
windows and thresholds (`NewUserWindow`, `VipRevenueThreshold`) than the code's only
change when, not whether, each rule applies. Symmetry (of customers) is
used in runs without liveness only.

`CHECK_DEADLOCK FALSE` stands in `SegmentExports.cfg` and `PageWalks.cfg`: when all requests, or the
walk, have ended nothing has to happen. In the other models `Finished` and `Waiting`
are explicit, and TLC checks that nothing else stops.

Fairness. `FairSpec` assumes for each worker (or request) that what the event
loop, the database, Kafka and their timers do on their own (`Progress`) is not
postponed forever: asyncio runs ready tasks, PostgreSQL answers and breaks
deadlocks, the pool has a timeout, the HTTP client has one for each wait, the group
assigns a free partition. Of the webhook endpoint nothing is assumed. It may never get
a request (then the client gives up, `WebhookSilent`), and it may answer in small
parts for ever, each within the timeout: then the request stays open as long. So
`EveryRequestEnds` excepts a request that stays at such an answer, and says that it keeps
no other one from ending. `CollectSession` is fair as well: nothing refers to a session once the
error that left it has been logged, and SQLAlchemy's pool terminates the connection of a
collected session, at the latest when the process ends. Nothing is assumed of deliveries, failures, restarts (the compose
file gives the worker no restart policy), `stop`, membership changes or readers.

## Findings

1. `FirstPurchase` (`process_event.py:326`): the purchase row is inserted before the
   profile it refers to. A purchase by an unknown customer raises, is rolled
   back and answered FAILED. The unit tests use repositories without foreign keys.
2. `FailedStatus` (`process_event.py:376`): the failure is recorded with an UPDATE of a
   row the rollback has removed.
3. `StaleSegments` (`process_event.py:264`): `new_user` and `active` are described by a
   time window, but nothing ends a membership when the window passes.
4. `RepeatedPurchase` (`purchase.py:116`): `_is_duplicate` compares the stored amount,
   which the column rounded, with the amount of the event, which nothing rounded. An
   order with an amount finer than a kopeck that is sent again with the same facts is
   a conflict and becomes a dead letter. With an amount the column can hold the
   property is true.
5. `FailedSkipped` (`worker.py:93`): a message that is to be retried is committed by the
   next message's commit and not read again.
6. `DeadLetterLost` (`handlers.py:296`): a refused message whose dead letter could not
   be published is committed by the next one, and a retry answers processed.

Also visible in the models, without a text of the repository that says
otherwise: with two workers counters can lose an update (the upsert overwrites
them), so `ProfileIsItsHistory` and `ProcessedIsApplied` are stated for one worker;
an event can be marked failed although its effect is stored, when only the answer of
the commit was lost or another worker stored it meanwhile; an identifier can end with another customer than the
one whose profile counts the event; the new identifiers of a purchase whose order
another event brought are not linked; an event with a NUL character or a time without a zone fails on every delivery and
leaves no row; a job stays running
forever when its process dies; a delivered export is reported as failed when its
final save fails, or when the endpoint takes it after the client's timeout; a walk through a list may miss and repeat rows with equal times even
when nothing changes; a stopping worker waits for one more message and a pool of one
connection makes every export fail.

## Proofs

Proved with TLAPS for every number of workers, events, customers, deliveries,
messages, requests and failures, from the named assumptions on the constants
(`EventAttributes`, `Thresholds`, `NoCustomerAssumption`, `Bounds`; `LogAssumption`,
`KafkaBounds`, `VerdictsAssumption`; `ExportAssumption`, `ExportBounds`;
`PagedAssumption`), which TLC evaluates in the runs. The theorems of
`SingleWorkerProofs` have one hypothesis more, `OneWorker`: any two workers are the
same. That is how `docker-compose.yml` deploys the worker, the run `SingleWorker`
satisfies it, and without it they are false (see Findings).

| theorem | module | property |
|---|---|---|
| `TypeCorrect` | `EventProcessingProofs` | `TypeOK` |
| `AtMostOnce` | `EventProcessingProofs` | `AppliedAtMostOnce` |
| `RecordedWithEffect` | `EventProcessingProofs` | `AppliedIsRecorded` |
| `ProfilesExist` | `CommitProofs` | `ReferencesHold` |
| `LinksStay` | `CommitProofs` | `LinkNeverMoves` |
| `StatusStays` | `CommitProofs` | `StatusIsFinal` |
| `TypeCorrect` | `KafkaProofs` | `TypeOK` |
| `OffsetAdvances` | `KafkaProofs` | `CommittedOnlyAdvances` |
| `TypeCorrect` | `ExportProofs` | `TypeOK`, with the bound of the pool |
| `SuccessIsTaken` | `ExportProofs` | `SucceededWasTaken` |
| `DeliveryIsSettled` | `ExportProofs` | `DeliveredIsSettled` |
| `ReaderIsConsistent` | `ExportProofs` | `ViewIsConsistent` |
| `ExportImplementsJobs` | `ExportProofs` | `ImplementsJobLedger` |
| `OnlyDisplacedMissing` | `ExportProofs` | `MissingWereDisplaced` |
| `PurchasesBacked` | `ProfileProofs` | `PurchaseIsBacked` |
| `IdentifiersLinked` | `ProfileProofs` | `AppliedIdentifiersLinked` |
| `SeenTimesWiden` | `ProfileProofs` | `SeenRangeGrows` |
| `LedgerImplemented` | `LedgerProofs` | `ImplementsLedger` |
| `IdentifiersLeadHome` | `SingleWorkerProofs` | `IdentifiersUnified` |
| `ProcessedIsCounted` | `SingleWorkerProofs` | `ProcessedIsApplied` |
| `ProfileSummarises` | `SingleWorkerProofs` | `ProfileIsItsHistory` |
| `MembershipsFollow` | `SingleWorkerProofs` | `MembershipsFitProfile` |
| `RevenueAddsUp` | `SingleWorkerProofs` | `RevenueIsPurchases` |
| `OnlyRefusedPublished` | `KafkaProofs` | `DeadLettersAreRefused` |
| `NothingElseLost` | `KafkaProofs` | `SkippedWasCutShort` |
| `TypeCorrect` | `PagedListsProofs` | `TypeOK` |
| `AnswersAddUp` | `PagedListsProofs` | `AnswerAddsUp` |
| `NoMoreMissed` | `PagedListsProofs` | `MissedWereShifted` |
| `NoMoreRepeated` | `PagedListsProofs` | `RepeatedWerePushed` |

The argument. `TypeOK` alone is not inductive: that a commit stores a customer,
not `NoCustomer`, follows from where the transaction is. `StageInv` says so:
an open transaction has inserted its event before anything else, knows its
customer before it writes for one, writes the profile before links, and holds an
empty `recent_events` until it has loaded the profile.

`AppliedAtMostOnce` needs what transactions remember. `UniqueRaw`: at most one
open transaction has inserted an event, and none an event that is committed (the
unique key makes the second wait, then find it). `MemoryInv`: an event in a
profile in memory is there once, is committed or being applied by this very
transaction, and belongs to no other customer, stored or in memory. A worker may
read a profile, another commit in between and the first save its stale copy; these
two keep an event from getting into a second profile or in twice. `OnceInv` is
their conjunction with the two properties, and is inductive together with `TypeOK` and
`StageInv`.

`LinkNeverMoves` and `ReferencesHold` rest on `SafeInv`: claimed identifiers are free
and claimed once (the unique key of `identity_links`), and a transaction that
wrote a purchase has a customer whose profile is committed. From it each commit
adds links only for free identifiers and rows only with their profile.
`StatusIsFinal` follows from `UniqueRaw`.

`ProfileProofs`: two events with one order are never both counted because an open
purchase has inserted the row of its order, which nobody else can insert or has
committed (`UniqueOrder`), before its profile counts it (`BoughtFirst`); an identifier
of the event is linked, claimed or still to be inserted (`LinksAhead`), so nothing is
missing at the commit. `MemoryBacked` carries both through a stale copy: what a
profile in memory counts is backed by rows already, or is what this very transaction
is about to store. `SeenRangeGrows` needs no more than the shape of the merged row.

`LedgerProofs`: what a transaction will store, and the answer it will give, are
decided statements before the commit that makes them visible. `DecisionOK` says that
what has been decided is a status the ledger allows for the event; with it the commit
maps to an entry (or, when its answer is lost, to an entry of a broken call), the
second transaction to the overwriting of a status, and everything else to the opening
and closing of calls or to a stutter.

`SingleWorkerProofs`: with one worker the profile in memory is the stored one, or the
one of a new customer, until it is saved (`MemoryIsStored`): `SoloInv` says so for
each place of the transaction, with its links (`OwnLinks`), the reason of an answer
without effect (`DuplicateOrder`) and the rating of its segments (`Rated`). `Summary`
says of a profile what the rules make of its events; that `update_profile_from_event`
keeps it for one event more is a lemma about finite sets.

The sum of `RevenueIsPurchases` is a fold over the rows of a table. It is shown without
induction over data to be a cardinality: the number of the units of amount in the rows
(`Coins`, a finite set) satisfies the equation of the fold, and two solutions
of that equation are equal, for a smallest set on which they differ would not be the
smallest (`OneSum`). `EarnedMore` then says what one more row adds, and
`MoneyOfMore` that rounding the new sum is rounding the new amount only, because what was stored is
a whole number of hundredths. `BuyerSaves` says that a purchase row is committed with the
profile that counts it, and `BoughtFirst` that no profile counts a purchase without its row.

`KafkaProofs`: the offset of the group advances because the owner of the partition
is never behind it (`OwnerAhead`): a new owner starts at it, fetching only moves
on, and a commit of anybody else changes nothing. That a message is lost only when
its handling is cut short (`NothingElseLost`) follows the message and not the worker: a
passed message is reached, cut short, or in the hands of some worker, and an entry of the
ledger whose refusal has no dead letter yet has a worker that will publish it or one
whose call will be cut (`PassedInv`, `EntryInv`). `CallInv` and `PublishInv` relate a
call and a letter to the entry of the event; since copies of a message share
its entry, all of these speak of the event.

`ExportProofs`: `ExportInv` says for every place a request can be in what is stored
and delivered for it (`Stage`): nothing before the first save, a running job and
no answer while members are loaded, and for a request that marks its job failed
either a running job, one that had succeeded, or one that is failed already with
its delivery. Where a request waits for the endpoint its members are posted, and it goes
on to read an answer only when the endpoint has them (`Stage`). `Told` adds what rows, endpoint and reader say of each other. The
properties are read off it, and every save of the process is a step of `JobLedger`:
the same statement of code registers, begins, settles or gives up a job by where
the request is, and saving a failed job once more is a stutter. A post is a `Send` of the
ledger, made while the job runs; what arrives is a `Receive`, which asks nothing of the
job. So an arrival after the client gave up, when the job is failed or its process
dead, is a step like any other, and changes no row. The bound of the pool
is proved on its own from finite sets of holders. `MissingWereDisplaced` is kept by
`Displaced`: those who were counted and stayed are members and fit the limit, and the
other members are as many as joined at most; that the list then leaves out no more of them rests on
a lemma on `Newest`: the n latest rows are n, unless they are all.

`PagedListsProofs`: the argument is about the place of a row, the number of rows
created after it. A row that shares its time with no other is among the first n exactly
if its place is below n, whichever of the answers `Leading` allows is given
(`LeadingByPlace`). A walk at offset o has missed the unseen rows below o, and may
repeat the seen ones from o on. `PageInv` bounds the first by the rows that left and
the second by those that came, before and after a page. An
exit moves every place down by one at most and so at most one row below o, since no
two of these rows have one place; an entry moves at most one out of it, which may be
the row itself when it had left before. A page changes neither for the worse.

Only model-checked: liveness (`EveryAttemptEnds`, `BacklogIsDrained`,
`EveryRequestEnds`), since liveness under fairness and ENABLED are outside what the
prover does.

## Not modelled

The start-up check of topics, authentication, configuration and observability
keep no state the program reads. `get_profile` is one SELECT. `list_segments` counts the members
of each segment in a statement of its own; the counts are not related to
each other by anything. The contents of payloads, dead letters and log lines are
not state, nor is the order of the identifiers in an answer, which the queries
leave open. The heartbeat file is read by the container's health check only; it
is written by a task of its own, which a loop that waits forever does not stop. When
`producer.start` fails the consumer that was started is not stopped; to the group
this is the crash `KafkaWorker` has. The topic of the compose file has one
partition; with several, the loop treats each like the one modelled, and their events meet in
the database as those of `ConcurrentWorkers` do.

## Plan

Done: the survey; the rules, event processing and its ledger, with events that can
never be stored or compared; the Kafka worker with messages that always fail;
segment export and its ledger of jobs; the paged lists; proofs of every safety
property and refinement the passing runs check. Next:

1. The safety half of the liveness properties: invariants that say that a waiting
   transaction waits for one that can go on or is in a cycle.
