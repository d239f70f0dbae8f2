--------------------------- MODULE SegmentExport ---------------------------
(***************************************************************************)
(* ActivationService.export_segment as the API process runs it: requests   *)
(* interleave at every await.  A request keeps the connection of its read  *)
(* session (get_db_session) from its first query to its answer, and every  *)
(* save takes a second one from the same pool, which has no overflow and   *)
(* whose waits time out.  Each save is a transaction of its own.           *)
(*                                                                         *)
(* Meanwhile the worker replaces segment memberships, a reader asks for    *)
(* the job, statements and commits fail, and the process dies.  Nothing    *)
(* takes a job up again, and nothing calls a posted webhook request back:  *)
(* it may reach the endpoint after the request has given up on it.         *)
(*                                                                         *)
(* An operator whose name starts with Faulty is the one below it with a    *)
(* mistake: a property is shown to notice the mistake when it is put in.   *)
(***************************************************************************)
EXTENDS Tables, Integers, FiniteSets

CONSTANTS
  Export,      \* requests, each with the job id generated for it
  Customer,    \* customers, numbered in the order of their created_at
  PoolSizes,   \* the values pool_max_size is configured to
  MaxFaults,   \* bound: failures of the database and of the process
  MaxChanges   \* bound: memberships that come and go

ASSUME ExportAssumption ==
  /\ IsFiniteSet(Export) /\ Export # {}
  /\ IsFiniteSet(Customer) /\ Customer \subseteq Nat
ASSUME ExportBounds == PoolSizes \subseteq Nat \ {0} /\ MaxFaults \in Nat /\ MaxChanges \in Nat

VARIABLES
  members,     \* segment_memberships of the exported segment
  jobs,        \* activation_jobs by job_id
  deliveries,  \* activation_deliveries by job_id: the status
  posts,       \* webhook requests by job_id: how many members, and what became of them
  run,         \* the request as the process sees it
  view,        \* a reader of GET /jobs/{job_id}
  poolSize,    \* pool_max_size of this process
  faults, changes

vars == <<members, jobs, deliveries, posts, run, view, poolSize, faults, changes>>

JobStatus == {"pending", "running", "succeeded", "failed"}
DeliveryStatus == {"succeeded", "failed"}
Job == [status: JobStatus, count: Nat]
Saving == {"save_pending", "save_running", "save_final", "mark_failed"}
Pc == Saving \cup {"idle", "definition", "count", "list", "send", "wait", "answering",
                   "done", "lost"}

\* A webhook request is under way, or the endpoint has it and took it or not.
Post == [count: Nat, fate: {"in_flight", "taken", "refused"}]

\* session, writing: the connections the request holds.  outcome is the status
\* of final_job.  The last three fields are history: how often the request
\* failed, and the members that stayed and came since they were counted.
Run ==
  [pc: Pc, session: BOOLEAN, writing: BOOLEAN, count: Nat, payload: SUBSET Customer,
   outcome: DeliveryStatus \cup {"none"},
   troubles: Nat, stayed: SUBSET Customer, joins: Nat]

\* The reader who has read the status of a job and not yet its delivery.
View == [reading: BOOLEAN, export: Export, job: JobStatus]

NewRun ==
  [pc |-> "idle", session |-> FALSE, writing |-> FALSE, count |-> 0, payload |-> {},
   outcome |-> "none", troubles |-> 0, stayed |-> {}, joins |-> 0]

At(e, pc) == run[e].pc = pc
Step(e, r) == run' = [run EXCEPT ![e] = r]
Open == {e \in Export : run[e].pc \notin {"idle", "done", "lost"}}

\* The answer is sent, the read session closed and all local state gone.
Ended(r) == [NewRun EXCEPT !.pc = "done", !.troubles = r.troubles]

\* What only the loading of the members needs is forgotten.
Loaded(r) == [r EXCEPT !.count = 0, !.stayed = {}, !.joins = 0]

\* An error after the job was saved as running leads to the attempt to mark it
\* failed; any other, and one in that attempt, ends the request.
FaultyRaised(r) == Ended([r EXCEPT !.troubles = @ + 1])
Raised(r) ==
  LET failed == [Loaded(r) EXCEPT !.troubles = @ + 1]
  IN IF r.pc \in {"count", "list", "wait", "answering", "save_final"}
     THEN [failed EXCEPT !.pc = "mark_failed", !.writing = FALSE]
     ELSE Ended(failed)

OneFault == faults < MaxFaults /\ faults' = faults + 1

-----------------------------------------------------------------------------
(* The connection pool *)

InUse ==
  Cardinality({e \in Export : run[e].session}) + Cardinality({e \in Export : run[e].writing})
    + (IF view.reading THEN 1 ELSE 0)

Waits(e) ==
  \/ At(e, "definition") /\ ~run[e].session
  \/ run[e].pc \in Saving /\ ~run[e].writing

\* The pool overflows by one (max_overflow is left out).
FaultyConnect(e) ==
  /\ Waits(e)
  /\ InUse <= poolSize
  /\ Step(e, IF At(e, "definition") THEN [run[e] EXCEPT !.session = TRUE]
             ELSE [run[e] EXCEPT !.writing = TRUE])
  /\ UNCHANGED <<members, jobs, deliveries, posts, view, faults, changes, poolSize>>

\* A connection is free and taken by the first statement of a session.
Connect(e) ==
  /\ Waits(e)
  /\ InUse < poolSize
  /\ Step(e, IF At(e, "definition") THEN [run[e] EXCEPT !.session = TRUE]
             ELSE [run[e] EXCEPT !.writing = TRUE])
  /\ UNCHANGED <<members, jobs, deliveries, posts, view, faults, changes, poolSize>>

\* The wait for a connection has no limit.
FaultyPoolTimesOut(e) == FALSE /\ UNCHANGED vars

\* pool_timeout has passed: the statement raises.
PoolTimesOut(e) ==
  /\ Waits(e)
  /\ InUse >= poolSize
  /\ Step(e, Raised(run[e]))
  /\ UNCHANGED <<members, jobs, deliveries, posts, view, faults, changes, poolSize>>

-----------------------------------------------------------------------------
(* The request *)

Request(e) ==
  /\ At(e, "idle")
  /\ Step(e, [run[e] EXCEPT !.pc = "definition"])
  /\ UNCHANGED <<members, jobs, deliveries, posts, view, faults, changes, poolSize>>

\* get_definition: a segment that is unknown or disabled ends the request.
GetDefinition(e) ==
  /\ At(e, "definition") /\ run[e].session
  /\ Step(e, [run[e] EXCEPT !.pc = "save_pending"]) \/ Step(e, Ended(run[e]))
  /\ UNCHANGED <<members, jobs, deliveries, posts, view, faults, changes, poolSize>>

\* The first half of _load_members; an empty segment is exported as such.
CountMembers(e) ==
  /\ At(e, "count")
  /\ Step(e, [run[e] EXCEPT !.pc = IF members = {} THEN "send" ELSE "list",
                            !.count = Cardinality(members),
                            !.stayed = members])
  /\ UNCHANGED <<members, jobs, deliveries, posts, view, faults, changes, poolSize>>

\* The n profiles of S with the latest created_at.
FaultyNewest(S, n) == {c \in S : Cardinality({d \in S : d > c}) < n - 1}
Newest(S, n) == {c \in S : Cardinality({d \in S : d > c}) < n}

\* list_member_profiles: ORDER BY created_at DESC, LIMIT the count.
ListMembers(e) ==
  /\ At(e, "list")
  /\ Step(e, [run[e] EXCEPT !.pc = "send", !.payload = Newest(members, run[e].count)])
  /\ UNCHANGED <<members, jobs, deliveries, posts, view, faults, changes, poolSize>>

\* The members are under way: the endpoint may get them at any time, or never.
SendMembers(e) ==
  /\ At(e, "send")
  /\ posts' = Put(posts, e, [count |-> Cardinality(run[e].payload), fate |-> "in_flight"])
  /\ Step(e, [Loaded(run[e]) EXCEPT !.pc = "wait"])
  /\ UNCHANGED <<members, jobs, deliveries, view, faults, changes, poolSize>>

\* The endpoint has the members of e, and takes them or not, whether or not
\* anyone still waits for its answer.
Arrives(e) ==
  /\ e \in DOMAIN posts /\ posts[e].fate = "in_flight"
  /\ \E fate \in {"taken", "refused"} :
       posts' = Put(posts, e, [count |-> posts[e].count, fate |-> fate])
  /\ UNCHANGED <<members, jobs, deliveries, run, view, faults, changes, poolSize>>

\* The first part of the answer is there.
AnswerBegins(e) ==
  /\ At(e, "wait") /\ posts[e].fate # "in_flight"
  /\ Step(e, [run[e] EXCEPT !.pc = "answering"])
  /\ UNCHANGED <<members, jobs, deliveries, posts, view, faults, changes, poolSize>>

\* send_segment_export returns.
Answered(e, outcome) ==
  Step(e, [run[e] EXCEPT !.pc = "save_final", !.outcome = outcome])

\* The answer is complete: a 2xx status, or any other.
WebhookAnswers(e) ==
  /\ At(e, "answering")
  /\ Answered(e, IF posts[e].fate = "taken" THEN "succeeded" ELSE "failed")
  /\ UNCHANGED <<members, jobs, deliveries, posts, view, faults, changes, poolSize>>

\* A timeout of the http client, or a broken connection.  An error without a
\* text makes no result and raises instead.
GivesUp(e) ==
  /\ Answered(e, "failed") \/ Step(e, Raised(run[e]))
  /\ UNCHANGED <<members, jobs, deliveries, posts, view, faults, changes, poolSize>>

\* The answer is not waited for.
FaultyWebhookSilent(e) ==
  /\ At(e, "wait")
  /\ Answered(e, "succeeded")
  /\ UNCHANGED <<members, jobs, deliveries, posts, view, faults, changes, poolSize>>

\* Nothing of an answer within the timeout, wherever the members are: not sent
\* at all, still under way, or with the endpoint.
WebhookSilent(e) == At(e, "wait") /\ GivesUp(e)

\* The answer breaks off, or pauses for longer than the timeout.
AnswerBreaks(e) == At(e, "answering") /\ GivesUp(e)

-----------------------------------------------------------------------------
(* The saves *)

\* The job the next save writes.  final_job carries the number of members sent;
\* a job failed by an error keeps the count of the running job.
FaultySavedJob(e) ==
  LET r == run[e]
      status == CASE r.pc = "save_pending" -> "pending"
                  [] r.pc = "save_final"   -> r.outcome
                  [] OTHER                 -> "running"
  IN [status |-> status, count |-> Cardinality(r.payload)]

SavedJob(e) ==
  LET r == run[e]
      sent == Cardinality(r.payload)
  IN CASE r.pc = "save_pending" -> [status |-> "pending", count |-> 0]
       [] r.pc = "save_running" -> [status |-> "running", count |-> 0]
       [] r.pc = "save_final"   -> [status |-> r.outcome, count |-> sent]
       [] r.pc = "mark_failed"  ->
            [status |-> "failed", count |-> IF r.outcome = "failed" THEN sent ELSE 0]

\* The delivery row is saved in the transaction of the final job only.
SavesDelivery(e) ==
  At(e, "save_final") \/ (At(e, "mark_failed") /\ run[e].outcome = "failed")

\* Marking a job failed takes back the delivery that was saved with it.
FaultyApplySave(e) ==
  /\ jobs' = Put(jobs, e, SavedJob(e))
  /\ deliveries' = IF SavesDelivery(e) THEN Put(deliveries, e, run[e].outcome)
                   ELSE Drop(deliveries, e)

ApplySave(e) ==
  /\ jobs' = Put(jobs, e, SavedJob(e))
  /\ deliveries' = IF SavesDelivery(e) THEN Put(deliveries, e, run[e].outcome)
                   ELSE deliveries

\* _save_job and _save_final_state.
Save(e) ==
  /\ run[e].writing
  /\ ApplySave(e)
  /\ Step(e, CASE At(e, "save_pending") -> [run[e] EXCEPT !.pc = "save_running",
                                                          !.writing = FALSE]
               [] At(e, "save_running") -> [run[e] EXCEPT !.pc = "count", !.writing = FALSE]
               [] OTHER                 -> Ended(run[e]))
  /\ UNCHANGED <<members, posts, view, faults, changes, poolSize>>

\* The statement or the commit raises, and the transaction is rolled back.
SaveFails(e) ==
  /\ run[e].writing
  /\ OneFault
  /\ Step(e, Raised(run[e]))
  /\ UNCHANGED <<members, jobs, deliveries, posts, view, changes, poolSize>>

\* The database committed, but the commit raises.
SaveAnswerLost(e) ==
  /\ run[e].writing
  /\ OneFault
  /\ ApplySave(e)
  /\ Step(e, Raised(run[e]))
  /\ UNCHANGED <<members, posts, view, changes, poolSize>>

\* A query of the read session raises.
ReadFails(e) ==
  /\ run[e].session /\ run[e].pc \in {"definition", "count", "list"}
  /\ OneFault
  /\ Step(e, Raised(run[e]))
  /\ UNCHANGED <<members, jobs, deliveries, posts, view, changes, poolSize>>

-----------------------------------------------------------------------------
(* The worker, the reader and the process *)

Counted == {e \in Export : At(e, "list")}

\* An event makes customer c a member, or no longer one.
Join(c) ==
  /\ changes < MaxChanges /\ c \notin members
  /\ members' = members \cup {c}
  /\ changes' = changes + 1
  /\ run' = [e \in Export |-> IF e \in Counted THEN [run[e] EXCEPT !.joins = @ + 1]
                                               ELSE run[e]]
  /\ UNCHANGED <<jobs, deliveries, posts, view, faults, poolSize>>

Drops(c) ==
  /\ changes < MaxChanges /\ c \in members
  /\ members' = members \ {c}
  /\ changes' = changes + 1
  /\ run' = [e \in Export |-> IF e \in Counted THEN [run[e] EXCEPT !.stayed = @ \ {c}]
                                               ELSE run[e]]
  /\ UNCHANGED <<jobs, deliveries, posts, view, faults, poolSize>>

\* get_export_job: the job, and then the delivery, in two statements.
ViewJob(e) ==
  /\ ~view.reading /\ InUse < poolSize
  /\ e \in DOMAIN jobs
  /\ view' = [reading |-> TRUE, export |-> e, job |-> jobs[e].status]
  /\ UNCHANGED <<members, jobs, deliveries, posts, run, faults, changes, poolSize>>

NoView == [reading |-> FALSE, export |-> CHOOSE e \in Export : TRUE, job |-> "pending"]

\* The delivery is read and both are answered.
ViewDelivery ==
  /\ view.reading
  /\ view' = NoView
  /\ UNCHANGED <<members, jobs, deliveries, posts, run, faults, changes, poolSize>>

\* The process dies with all its requests and comes back without them.
Crash ==
  /\ Open # {}
  /\ OneFault
  /\ run' = [e \in Export |-> IF e \in Open THEN [NewRun EXCEPT !.pc = "lost"]
                                            ELSE run[e]]
  /\ view' = NoView
  /\ UNCHANGED <<members, jobs, deliveries, posts, changes, poolSize>>

-----------------------------------------------------------------------------
Init ==
  /\ members \in SUBSET Customer
  /\ jobs = << >> /\ deliveries = << >> /\ posts = << >>
  /\ run = [e \in Export |-> NewRun]
  /\ view = NoView
  /\ poolSize \in PoolSizes
  /\ faults = 0 /\ changes = 0

\* What goes on without being asked: the event loop, the database, the timers
\* of the pool and of the http client.  The endpoint is asked for nothing: it
\* may never get or answer a request, or answer in small parts for ever, since
\* the timeout of the client is one of each wait and not of the whole answer.
Progress(e) ==
  \/ Connect(e)
  \/ PoolTimesOut(e)
  \/ GetDefinition(e)
  \/ CountMembers(e)
  \/ ListMembers(e)
  \/ SendMembers(e)
  \/ WebhookSilent(e)
  \/ Save(e)

Next ==
  \/ \E e \in Export :
       \/ Request(e)
       \/ Progress(e)
       \/ Arrives(e)
       \/ AnswerBegins(e)
       \/ WebhookAnswers(e)
       \/ AnswerBreaks(e)
       \/ SaveFails(e)
       \/ SaveAnswerLost(e)
       \/ ReadFails(e)
       \/ ViewJob(e)
  \/ \E c \in Customer : Join(c) \/ Drops(c)
  \/ ViewDelivery
  \/ Crash

Spec == Init /\ [][Next]_vars
FairSpec == Spec /\ \A e \in Export : WF_vars(Progress(e))

-----------------------------------------------------------------------------
\* Rows, requests and views have the shape the code gives them, and the pool
\* never hands out more than it has.
TypeOK ==
  /\ members \subseteq Customer
  /\ DOMAIN jobs \subseteq Export /\ \A e \in DOMAIN jobs : jobs[e] \in Job
  /\ DOMAIN deliveries \subseteq DOMAIN jobs
  /\ \A e \in DOMAIN deliveries : deliveries[e] \in DeliveryStatus
  /\ DOMAIN posts \subseteq DOMAIN jobs
  /\ \A e \in DOMAIN posts : posts[e] \in Post
  /\ run \in [Export -> Run]
  /\ view \in View
  /\ poolSize \in PoolSizes /\ InUse <= poolSize
  /\ faults \in 0 .. MaxFaults /\ changes \in 0 .. MaxChanges

\* A job is reported as succeeded only if the endpoint took its members; its
\* row and the delivery row then agree, down to the number of members sent.
SucceededWasTaken ==
  \A e \in DOMAIN jobs :
    jobs[e].status = "succeeded" =>
      /\ e \in DOMAIN posts /\ posts[e].fate = "taken"
      /\ jobs[e].count = posts[e].count
      /\ e \in DOMAIN deliveries /\ deliveries[e] = "succeeded"

\* A request that posted its members and was answered leaves a finished job,
\* unless it failed twice: in the final save and in the attempt to mark it.
DeliveredIsSettled ==
  \A e \in DOMAIN posts :
    At(e, "done") /\ run[e].troubles < 2 => jobs[e].status \in {"succeeded", "failed"}

\* Members that were there from the count to the list and are not sent were
\* displaced by others that came in between, one for one.
MissingWereDisplaced ==
  \A e \in Export :
    At(e, "send") =>
      Cardinality(run[e].stayed \ run[e].payload) <= run[e].joins

\* A reader who has read a succeeded job will also find its delivery: job and
\* delivery are read in two statements, with any save in between.
ViewIsConsistent ==
  view.reading /\ view.job = "succeeded" =>
    view.export \in DOMAIN deliveries /\ deliveries[view.export] = "succeeded"

\* Requests that hold one connection each and wait for another end: the pool
\* raises after its timeout and the first that gives up frees a connection.
\* Only a request whose endpoint never stops answering stays open, and it keeps
\* no other from ending.
EveryRequestEnds ==
  \A e \in Export : ~<>[]At(e, "answering") => (e \in Open ~> e \notin Open)
=============================================================================
