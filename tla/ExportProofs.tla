---------------------------- MODULE ExportProofs ----------------------------
(***************************************************************************)
(* Theorems about SegmentExport for every set of requests and customers,   *)
(* every size of the pool and every bound: its invariants, and that it     *)
(* implements JobLedger.                                                   *)
(***************************************************************************)
EXTENDS ExportRefinement, FiniteSetTheorems, TLAPS

-----------------------------------------------------------------------------
(* The inductive invariant *)

\* The variables but for the tables and the connections in use.
Shapes ==
  /\ members \subseteq Customer
  /\ run \in [Export -> Run]
  /\ view \in View
  /\ poolSize \in PoolSizes
  /\ faults \in 0 .. MaxFaults /\ changes \in 0 .. MaxChanges

Rows ==
  /\ DOMAIN jobs \subseteq Export /\ \A e \in DOMAIN jobs : jobs[e] \in Job
  /\ DOMAIN deliveries \subseteq DOMAIN jobs
  /\ deliveries \in [DOMAIN deliveries -> DeliveryStatus]
  /\ DOMAIN posts \subseteq DOMAIN jobs
  /\ \A e \in DOMAIN posts : posts[e] \in Post

Pool == InUse <= poolSize

HasJob(e, status) == e \in DOMAIN jobs /\ jobs[e].status = status

\* What is stored and delivered where request e is, and what it remembers of it.
Stage(e) ==
  /\ run[e].writing => run[e].pc \in Saving
  /\ run[e].pc \in {"idle", "definition", "save_pending"} => e \notin DOMAIN jobs
  /\ run[e].pc = "save_running" => HasJob(e, "pending") /\ e \notin DOMAIN posts
  /\ run[e].pc \in {"count", "list", "send"} =>
       HasJob(e, "running") /\ e \notin DOMAIN posts
  /\ run[e].pc \in {"wait", "answering"} =>
       /\ HasJob(e, "running")
       /\ e \in DOMAIN posts /\ posts[e].count = Cardinality(run[e].payload)
  /\ run[e].pc = "answering" => posts[e].fate # "in_flight"
  /\ run[e].pc \in {"idle", "definition", "save_pending", "save_running", "count", "list",
                    "send", "wait", "answering"} => run[e].outcome = "none"
  /\ run[e].pc = "save_final" =>
       /\ HasJob(e, "running") /\ run[e].outcome \in DeliveryStatus
       /\ run[e].outcome = "succeeded" =>
            /\ e \in DOMAIN posts
            /\ posts[e].count = Cardinality(run[e].payload) /\ posts[e].fate = "taken"
  /\ run[e].pc = "mark_failed" =>
       /\ run[e].troubles >= 1
       /\ \/ HasJob(e, "running")
          \/ HasJob(e, "succeeded") /\ run[e].outcome = "succeeded"
          \/ /\ HasJob(e, "failed") /\ run[e].outcome = "failed"
             /\ e \in DOMAIN deliveries
       /\ run[e].outcome = "failed" /\ e \in DOMAIN deliveries => deliveries[e] = "failed"
  /\ run[e].pc \notin {"mark_failed", "done", "lost"} => e \notin DOMAIN deliveries

\* What the rows of e, its end and the reader say of each other.
Told(e) ==
  /\ HasJob(e, "succeeded") =>
       /\ e \in DOMAIN posts /\ posts[e].fate = "taken"
       /\ jobs[e].count = posts[e].count
       /\ e \in DOMAIN deliveries /\ deliveries[e] = "succeeded"
  /\ e \in DOMAIN posts /\ run[e].pc = "done" /\ run[e].troubles < 2 =>
       jobs[e].status \in {"succeeded", "failed"}
  /\ view.reading /\ view.job = "succeeded" /\ view.export = e =>
       e \in DOMAIN deliveries /\ deliveries[e] = "succeeded"

ExportInv == Shapes /\ Rows /\ \A e \in Export : Stage(e) /\ Told(e)

-----------------------------------------------------------------------------
(* Facts about requests and tables *)

LEMMA MembersCount ==
  ASSUME NEW S \in SUBSET Customer PROVE Cardinality(S) \in Nat
<1>1. IsFiniteSet(S)
  BY ExportAssumption, FS_Subset
<1>2. QED
  BY <1>1, FS_CardinalityType

LEMMA EndedFacts ==
  ASSUME NEW r \in Run
  PROVE  /\ Ended(r) \in Run /\ Ended(r).pc = "done" /\ Ended(r).troubles = r.troubles
         /\ ~Ended(r).writing /\ ~Ended(r).session
BY DEF Ended, NewRun, Run, Pc, Saving

LEMMA RaisedFacts ==
  ASSUME NEW r \in Run
  PROVE  /\ Raised(r) \in Run
         /\ Raised(r).pc = IF r.pc \in {"count", "list", "wait", "answering", "save_final"}
                           THEN "mark_failed" ELSE "done"
         /\ Raised(r).troubles = r.troubles + 1
         /\ ~Raised(r).writing
         /\ Raised(r).pc = "mark_failed" =>
              Raised(r).outcome = r.outcome /\ Raised(r).session = r.session
         /\ Raised(r).pc = "done" => ~Raised(r).session
<1> DEFINE failed == [Loaded(r) EXCEPT !.troubles = @ + 1]
<1>1. /\ failed \in Run /\ failed.troubles = r.troubles + 1
      /\ failed.outcome = r.outcome /\ failed.session = r.session
  <2> DEFINE loaded == Loaded(r)
  <2>1. /\ loaded \in Run /\ loaded.troubles = r.troubles /\ r.troubles \in Nat
        /\ loaded.outcome = r.outcome /\ loaded.session = r.session
    BY DEF Loaded, Run
  <2>2. failed = [loaded EXCEPT !.troubles = @ + 1]
    OBVIOUS
  <2> HIDE DEF loaded
  <2>3. QED
    BY <2>1, <2>2 DEF Run
<1>2. CASE r.pc \in {"count", "list", "wait", "answering", "save_final"}
  <2> DEFINE marks == [failed EXCEPT !.pc = "mark_failed", !.writing = FALSE]
  <2>1. Raised(r) = marks
    BY <1>2 DEF Raised
  <2> HIDE DEF failed
  <2>2. /\ marks \in Run /\ marks.pc = "mark_failed" /\ marks.writing = FALSE
        /\ marks.troubles = failed.troubles /\ marks.outcome = failed.outcome
        /\ marks.session = failed.session
    BY <1>1 DEF Run, Pc, Saving
  <2>3. QED
    BY <1>1, <1>2, <2>1, <2>2
<1>3. CASE r.pc \notin {"count", "list", "wait", "answering", "save_final"}
  <2>1. Raised(r) = Ended(failed)
    BY <1>3 DEF Raised
  <2>2. QED
    BY <1>1, <1>3, <2>1, EndedFacts
<1>4. QED
  BY <1>2, <1>3

LEMMA SteppedRun ==
  ASSUME run \in [Export -> Run], NEW e \in Export, NEW r \in Run, Step(e, r)
  PROVE  /\ run' \in [Export -> Run] /\ run'[e] = r
         /\ \A f \in Export : f # e => run'[f] = run[f]
BY DEF Step

\* The rows and the request of f are left as they were.
Untouched(f) ==
  /\ run'[f] = run[f]
  /\ (f \in DOMAIN jobs)' = (f \in DOMAIN jobs)
  /\ f \in DOMAIN jobs => jobs'[f] = jobs[f]
  /\ (f \in DOMAIN deliveries)' = (f \in DOMAIN deliveries)
  /\ f \in DOMAIN deliveries => deliveries'[f] = deliveries[f]
  /\ (f \in DOMAIN posts)' = (f \in DOMAIN posts)
  /\ f \in DOMAIN posts => posts'[f] = posts[f]

LEMMA Frame ==
  ASSUME NEW f \in Export, Rows, Stage(f), Told(f), Untouched(f), UNCHANGED view
  PROVE  Stage(f)' /\ Told(f)'
BY DEF Rows, Stage, Told, Untouched, HasJob

\* A step of request e alone: what is left to show is what e remembers.
LEMMA Moved ==
  ASSUME ExportInv, NEW e \in Export, NEW r \in Run, Step(e, r),
         UNCHANGED <<members, view, poolSize, changes>>, faults' \in 0 .. MaxFaults,
         Rows', Stage(e)', Told(e)',
         \A f \in Export : f # e => f \in DOMAIN jobs' <=> f \in DOMAIN jobs,
         \A f \in Export : f # e /\ f \in DOMAIN jobs => jobs'[f] = jobs[f],
         \A f \in Export : f # e => f \in DOMAIN deliveries' <=> f \in DOMAIN deliveries,
         \A f \in Export : f # e /\ f \in DOMAIN deliveries => deliveries'[f] = deliveries[f],
         \A f \in Export : f # e => f \in DOMAIN posts' <=> f \in DOMAIN posts,
         \A f \in Export : f # e /\ f \in DOMAIN posts => posts'[f] = posts[f]
  PROVE  ExportInv'
<1>1. /\ run' \in [Export -> Run]
      /\ \A f \in Export : f # e => run'[f] = run[f]
  BY SteppedRun DEF ExportInv, Shapes
<1>2. Shapes'
  BY <1>1 DEF ExportInv, Shapes
<1>3. ASSUME NEW f \in Export, f # e PROVE Stage(f)' /\ Told(f)'
  <2>1. Untouched(f)
    BY <1>1, <1>3 DEF Untouched
  <2>2. QED
    BY <2>1, Frame DEF ExportInv
<1>4. QED
  BY <1>2, <1>3 DEF ExportInv

\* ... and no row is written.
LEMMA MovedAlone ==
  ASSUME ExportInv, NEW e \in Export, NEW r \in Run, Step(e, r),
         UNCHANGED <<members, jobs, deliveries, posts, view, poolSize, changes>>,
         faults' \in 0 .. MaxFaults, Stage(e)', Told(e)'
  PROVE  ExportInv'
<1>1. Rows'
  BY DEF ExportInv, Rows
<1>2. QED
  BY <1>1, Moved

LEMMA FaultCounted ==
  ASSUME Shapes, OneFault PROVE faults' \in 0 .. MaxFaults
BY ExportBounds DEF Shapes, OneFault

-----------------------------------------------------------------------------
(* Every step keeps it *)

LEMMA InitEstablishes == Init => ExportInv
<1> SUFFICES ASSUME Init PROVE ExportInv
  OBVIOUS
<1>1. NewRun \in Run
  BY DEF NewRun, Run, Pc, Saving
<1>2. NoView \in View
  BY ExportAssumption DEF NoView, View, JobStatus
<1>3. Shapes
  BY <1>1, <1>2, ExportBounds DEF Shapes, Init
<1>4. DOMAIN jobs = {} /\ DOMAIN deliveries = {} /\ DOMAIN posts = {}
  BY DEF Init
<1>5. Rows
  BY <1>4 DEF Rows
<1>6. ASSUME NEW e \in Export PROVE Stage(e) /\ Told(e)
  <2>1. /\ run[e].pc = "idle" /\ ~run[e].writing /\ ~view.reading
        /\ run[e].outcome = "none"
    BY DEF Init, NewRun, NoView
  <2>2. QED
    BY <1>4, <2>1 DEF Stage, Told, HasJob
<1>7. QED
  BY <1>3, <1>5, <1>6 DEF ExportInv

LEMMA RaisedAlone ==
  ASSUME ExportInv, NEW e \in Export, e \in Open, Step(e, Raised(run[e])),
         UNCHANGED <<members, jobs, deliveries, posts, view, poolSize, changes>>,
         faults' \in 0 .. MaxFaults
  PROVE  ExportInv'
<1> DEFINE r == Raised(run[e])
<1>1. run[e] \in Run /\ Stage(e) /\ Told(e)
  BY DEF ExportInv, Shapes
<1>2. /\ r \in Run /\ run'[e] = r /\ ~r.writing /\ r.troubles = run[e].troubles + 1
      /\ r.pc = IF run[e].pc \in {"count", "list", "wait", "answering", "save_final"}
                THEN "mark_failed" ELSE "done"
      /\ r.pc = "mark_failed" => r.outcome = run[e].outcome
  BY <1>1, RaisedFacts, SteppedRun DEF ExportInv, Shapes
<1> HIDE DEF r
<1>3. run[e].troubles \in Nat /\ run[e].pc \in Pc \ {"idle", "done", "lost"}
  BY <1>1 DEF Run, Open
<1>4. Stage(e)'
  BY <1>1, <1>2, <1>3 DEF Stage, HasJob, Pc, Saving
<1>5. Told(e)'
  <2>1. (e \in DOMAIN posts /\ run[e].pc = "done" /\ run[e].troubles < 2)' =>
          jobs'[e].status \in {"succeeded", "failed"}
    BY <1>1, <1>2, <1>3 DEF Stage, HasJob, Pc, Saving, ExportInv, Rows
  <2>2. QED
    BY <1>1, <2>1 DEF Told, HasJob
<1>6. QED
  BY <1>2, <1>4, <1>5, MovedAlone DEF r

LEMMA ConnectKeeps ==
  ASSUME ExportInv, NEW e \in Export, Connect(e) PROVE ExportInv'
<1> DEFINE r == IF At(e, "definition") THEN [run[e] EXCEPT !.session = TRUE]
                ELSE [run[e] EXCEPT !.writing = TRUE]
<1>1. run[e] \in Run /\ Stage(e) /\ Told(e) /\ Waits(e) /\ Step(e, r)
      /\ UNCHANGED <<members, jobs, deliveries, posts, view, faults, changes, poolSize>>
  BY DEF Connect, ExportInv, Shapes
<1>2. r \in Run
  BY <1>1 DEF Run
<1>3. run'[e] = r
  BY <1>1, <1>2, SteppedRun DEF ExportInv, Shapes
<1>4. /\ r.pc = run[e].pc /\ r.outcome = run[e].outcome /\ r.payload = run[e].payload
      /\ r.troubles = run[e].troubles
      /\ r.writing => run[e].writing \/ run[e].pc \in Saving
  BY <1>1 DEF Run, Waits, At
<1> HIDE DEF r
<1>5. Stage(e)' /\ Told(e)'
  BY <1>1, <1>3, <1>4 DEF Stage, Told, HasJob
<1>6. QED
  BY <1>1, <1>2, <1>5, MovedAlone DEF ExportInv, Shapes

LEMMA PoolTimesOutKeeps ==
  ASSUME ExportInv, NEW e \in Export, PoolTimesOut(e) PROVE ExportInv'
BY RaisedAlone DEF PoolTimesOut, Waits, At, Open, Saving, ExportInv, Shapes

LEMMA SaveFailsKeeps ==
  ASSUME ExportInv, NEW e \in Export, SaveFails(e) PROVE ExportInv'
<1>1. e \in Open
  BY DEF SaveFails, ExportInv, Stage, Saving, Open
<1>2. QED
  BY <1>1, RaisedAlone, FaultCounted DEF SaveFails, ExportInv

LEMMA ReadFailsKeeps ==
  ASSUME ExportInv, NEW e \in Export, ReadFails(e) PROVE ExportInv'
BY RaisedAlone, FaultCounted DEF ReadFails, Open, ExportInv

LEMMA RequestKeeps ==
  ASSUME ExportInv, NEW e \in Export, Request(e) PROVE ExportInv'
<1> DEFINE r == [run[e] EXCEPT !.pc = "definition"]
<1>1. run[e] \in Run /\ Stage(e) /\ Told(e) /\ At(e, "idle") /\ Step(e, r)
      /\ UNCHANGED <<members, jobs, deliveries, posts, view, faults, changes, poolSize>>
  BY DEF Request, ExportInv, Shapes
<1>2. /\ r \in Run /\ r.pc = "definition" /\ r.writing = run[e].writing
      /\ r.outcome = run[e].outcome
  BY <1>1 DEF Run, Pc
<1>3. run'[e] = r
  BY <1>1, <1>2, SteppedRun DEF ExportInv, Shapes
<1> HIDE DEF r
<1>4. Stage(e)' /\ Told(e)'
  BY <1>1, <1>2, <1>3 DEF Stage, Told, HasJob, At, Saving, ExportInv, Rows
<1>5. QED
  BY <1>1, <1>2, <1>4, MovedAlone DEF ExportInv, Shapes

LEMMA GetDefinitionKeeps ==
  ASSUME ExportInv, NEW e \in Export, GetDefinition(e) PROVE ExportInv'
<1>1. PICK r \in {[run[e] EXCEPT !.pc = "save_pending"], Ended(run[e])} : Step(e, r)
  BY DEF GetDefinition
<1>2. /\ run[e] \in Run /\ Stage(e) /\ Told(e) /\ At(e, "definition")
      /\ UNCHANGED <<members, jobs, deliveries, posts, view, faults, changes, poolSize>>
  BY DEF GetDefinition, ExportInv, Shapes
<1>3. /\ r \in Run /\ r.pc \in {"save_pending", "done"} /\ ~r.writing
      /\ r.pc = "save_pending" => r.outcome = run[e].outcome
  <2>1. ~run[e].writing
    BY <1>2 DEF Stage, At, Saving
  <2>2. QED
    BY <1>1, <1>2, <2>1, EndedFacts DEF Run, Pc, Saving
<1>4. run'[e] = r
  BY <1>1, <1>3, SteppedRun DEF ExportInv, Shapes
<1>5. Stage(e)' /\ Told(e)'
  BY <1>2, <1>3, <1>4 DEF Stage, Told, HasJob, At, Saving, ExportInv, Rows
<1>6. QED
  BY <1>1, <1>2, <1>3, <1>5, MovedAlone DEF ExportInv, Shapes

LEMMA CountMembersKeeps ==
  ASSUME ExportInv, NEW e \in Export, CountMembers(e) PROVE ExportInv'
<1> DEFINE r == [run[e] EXCEPT !.pc = IF members = {} THEN "send" ELSE "list",
                               !.count = Cardinality(members), !.stayed = members]
<1>1. run[e] \in Run /\ Stage(e) /\ Told(e) /\ At(e, "count") /\ Step(e, r)
      /\ UNCHANGED <<members, jobs, deliveries, posts, view, faults, changes, poolSize>>
      /\ members \in SUBSET Customer
  BY DEF CountMembers, ExportInv, Shapes
<1>2. /\ r \in Run /\ r.pc \in {"send", "list"} /\ r.writing = run[e].writing
      /\ r.outcome = run[e].outcome
  BY <1>1, MembersCount DEF Run, Pc
<1>3. run'[e] = r
  BY <1>1, <1>2, SteppedRun DEF ExportInv, Shapes
<1> HIDE DEF r
<1>4. Stage(e)' /\ Told(e)'
  BY <1>1, <1>2, <1>3 DEF Stage, Told, HasJob, At, Saving
<1>5. QED
  BY <1>1, <1>2, <1>4, MovedAlone DEF ExportInv, Shapes

LEMMA ListMembersKeeps ==
  ASSUME ExportInv, NEW e \in Export, ListMembers(e) PROVE ExportInv'
<1> DEFINE r == [run[e] EXCEPT !.pc = "send", !.payload = Newest(members, run[e].count)]
<1>1. run[e] \in Run /\ Stage(e) /\ Told(e) /\ At(e, "list") /\ Step(e, r)
      /\ UNCHANGED <<members, jobs, deliveries, posts, view, faults, changes, poolSize>>
      /\ members \in SUBSET Customer
  BY DEF ListMembers, ExportInv, Shapes
<1>2. Newest(members, run[e].count) \in SUBSET Customer
  BY <1>1 DEF Newest
<1>3. /\ r \in Run /\ r.pc = "send" /\ r.writing = run[e].writing
      /\ r.outcome = run[e].outcome
  BY <1>1, <1>2 DEF Run, Pc
<1>4. run'[e] = r
  BY <1>1, <1>3, SteppedRun DEF ExportInv, Shapes
<1> HIDE DEF r
<1>5. Stage(e)' /\ Told(e)'
  BY <1>1, <1>3, <1>4 DEF Stage, Told, HasJob, At, Saving
<1>6. QED
  BY <1>1, <1>3, <1>5, MovedAlone DEF ExportInv, Shapes

\* A row is put in the table of posts.
LEMMA PostPut ==
  ASSUME Rows, NEW e \in DOMAIN jobs, NEW x \in Post, posts' = Put(posts, e, x),
         UNCHANGED <<jobs, deliveries>>
  PROVE  /\ Rows'
         /\ e \in DOMAIN posts' /\ posts'[e] = x
         /\ \A f \in Export : f # e => f \in DOMAIN posts' <=> f \in DOMAIN posts
         /\ \A f \in Export : f # e /\ f \in DOMAIN posts => posts'[f] = posts[f]
<1>1. /\ DOMAIN posts' = DOMAIN posts \cup {e} /\ posts'[e] = x
      /\ \A f \in DOMAIN posts : f # e => posts'[f] = posts[f]
  BY DEF Put
<1>2. Rows'
  BY <1>1 DEF Rows
<1>3. QED
  BY <1>1, <1>2

LEMMA SendMembersKeeps ==
  ASSUME ExportInv, NEW e \in Export, SendMembers(e) PROVE ExportInv'
<1> DEFINE loaded == Loaded(run[e])
           r == [loaded EXCEPT !.pc = "wait"]
           x == [count |-> Cardinality(run[e].payload), fate |-> "in_flight"]
<1>1. /\ run[e] \in Run /\ Stage(e) /\ Told(e) /\ At(e, "send") /\ Step(e, r)
      /\ posts' = Put(posts, e, x)
      /\ UNCHANGED <<members, jobs, deliveries, view, faults, changes, poolSize>>
  BY DEF SendMembers, ExportInv, Shapes
<1>2. /\ r \in Run /\ r.pc = "wait" /\ r.writing = run[e].writing
      /\ r.outcome = run[e].outcome /\ r.payload = run[e].payload
  <2>1. /\ loaded \in Run /\ loaded.writing = run[e].writing
        /\ loaded.outcome = run[e].outcome /\ loaded.payload = run[e].payload
    BY <1>1 DEF Loaded, Run
  <2> HIDE DEF loaded
  <2>2. QED
    BY <2>1 DEF Run, Pc
<1>3. x \in Post /\ x.count = Cardinality(run[e].payload)
  BY <1>1, MembersCount DEF Post, Run
<1>4. run'[e] = r
  BY <1>1, <1>2, SteppedRun DEF ExportInv, Shapes
<1> HIDE DEF r, x
<1>5. HasJob(e, "running")
  BY <1>1 DEF Stage, At
<1>6. /\ Rows'
      /\ e \in DOMAIN posts' /\ posts'[e] = x
      /\ \A f \in Export : f # e => f \in DOMAIN posts' <=> f \in DOMAIN posts
      /\ \A f \in Export : f # e /\ f \in DOMAIN posts => posts'[f] = posts[f]
  BY <1>1, <1>3, <1>5, PostPut DEF ExportInv, HasJob
<1>7. Stage(e)'
  BY <1>1, <1>2, <1>3, <1>4, <1>6 DEF Stage, HasJob, At, Saving
<1>8. Told(e)'
  BY <1>1, <1>2, <1>4, <1>5, <1>6 DEF Told, HasJob
<1>9. QED
  BY <1>1, <1>2, <1>6, <1>7, <1>8, Moved DEF ExportInv, Shapes

\* What arrives was on its way: no answer has begun, and no success is known.
LEMMA ArrivesKeeps ==
  ASSUME ExportInv, NEW e \in Export, Arrives(e) PROVE ExportInv'
<1>1. PICK fate \in {"taken", "refused"} :
        posts' = Put(posts, e, [count |-> posts[e].count, fate |-> fate])
  BY DEF Arrives
<1>2. /\ e \in DOMAIN posts /\ posts[e].fate = "in_flight" /\ posts[e] \in Post
      /\ e \in DOMAIN jobs /\ Stage(e) /\ Told(e)
      /\ UNCHANGED <<members, jobs, deliveries, run, view, faults, changes, poolSize>>
  BY DEF Arrives, ExportInv, Rows
<1>3. PICK x : x = [count |-> posts[e].count, fate |-> fate]
  OBVIOUS
<1>4. x \in Post /\ x.count = posts[e].count /\ x.fate = fate
  BY <1>2, <1>3 DEF Post
<1>5. /\ Rows'
      /\ e \in DOMAIN posts' /\ posts'[e] = x
      /\ \A f \in Export : f # e => f \in DOMAIN posts' <=> f \in DOMAIN posts
      /\ \A f \in Export : f # e /\ f \in DOMAIN posts => posts'[f] = posts[f]
  BY <1>1, <1>2, <1>3, <1>4, PostPut DEF ExportInv
<1>6. Shapes'
  BY <1>2 DEF ExportInv, Shapes
<1>7. Stage(e)' /\ Told(e)'
  <2>1. Stage(e)'
    BY <1>2, <1>4, <1>5 DEF Stage, HasJob
  <2>2. Told(e)'
    BY <1>2, <1>4, <1>5 DEF Told, HasJob
  <2>3. QED
    BY <2>1, <2>2
<1>8. ASSUME NEW f \in Export, f # e PROVE Stage(f)' /\ Told(f)'
  <2>1. Untouched(f)
    BY <1>2, <1>5, <1>8 DEF Untouched
  <2>2. QED
    BY <1>2, <2>1, Frame DEF ExportInv
<1>9. QED
  BY <1>5, <1>6, <1>7, <1>8 DEF ExportInv

LEMMA AnswerBeginsKeeps ==
  ASSUME ExportInv, NEW e \in Export, AnswerBegins(e) PROVE ExportInv'
<1> DEFINE r == [run[e] EXCEPT !.pc = "answering"]
<1>1. /\ run[e] \in Run /\ Stage(e) /\ Told(e) /\ At(e, "wait") /\ Step(e, r)
      /\ posts[e].fate # "in_flight"
      /\ UNCHANGED <<members, jobs, deliveries, posts, view, faults, changes, poolSize>>
  BY DEF AnswerBegins, ExportInv, Shapes
<1>2. /\ r \in Run /\ r.pc = "answering" /\ r.writing = run[e].writing
      /\ r.outcome = run[e].outcome /\ r.payload = run[e].payload
  BY <1>1 DEF Run, Pc
<1>3. run'[e] = r
  BY <1>1, <1>2, SteppedRun DEF ExportInv, Shapes
<1> HIDE DEF r
<1>4. Stage(e)' /\ Told(e)'
  BY <1>1, <1>2, <1>3 DEF Stage, Told, HasJob, At, Saving
<1>5. QED
  BY <1>1, <1>2, <1>4, MovedAlone DEF ExportInv, Shapes

\* What a request that is answered says of itself.
LEMMA AnsweredFacts ==
  ASSUME ExportInv, NEW e \in Export, At(e, "wait") \/ At(e, "answering"),
         NEW s \in DeliveryStatus
  PROVE  LET r == [run[e] EXCEPT !.pc = "save_final", !.outcome = s]
         IN /\ r \in Run /\ r.pc = "save_final" /\ r.outcome = s
            /\ r.payload = run[e].payload /\ r.writing = FALSE
<1>1. run[e] \in Run /\ ~run[e].writing
  BY DEF ExportInv, Shapes, Stage, At, Saving
<1>2. QED
  BY <1>1 DEF Run, Pc, Saving

\* Request e goes on with outcome s; success needs that the members were taken.
LEMMA AnsweredKeeps ==
  ASSUME ExportInv, NEW e \in Export, At(e, "wait") \/ At(e, "answering"),
         NEW s \in DeliveryStatus, Answered(e, s),
         s = "succeeded" => posts[e].fate = "taken",
         UNCHANGED <<members, jobs, deliveries, posts, view, poolSize, faults, changes>>
  PROVE  ExportInv'
<1>1. run[e] \in Run /\ Stage(e) /\ Told(e)
  BY DEF ExportInv, Shapes
<1>2. PICK r : /\ r = [run[e] EXCEPT !.pc = "save_final", !.outcome = s]
               /\ Step(e, r)
  BY DEF Answered
<1>3. /\ r \in Run /\ r.pc = "save_final" /\ r.outcome = s
      /\ r.payload = run[e].payload /\ ~r.writing
  BY <1>2, AnsweredFacts
<1>4. run'[e] = r
  BY <1>2, <1>3, SteppedRun DEF ExportInv, Shapes
<1>5. Stage(e)' /\ Told(e)'
  BY <1>1, <1>3, <1>4 DEF Stage, Told, HasJob, At, Saving
<1>6. QED
  BY <1>2, <1>3, <1>5, MovedAlone DEF ExportInv, Shapes

LEMMA WebhookKeeps ==
  ASSUME ExportInv, NEW e \in Export,
         WebhookAnswers(e) \/ WebhookSilent(e) \/ AnswerBreaks(e)
  PROVE  ExportInv'
<1>1. {"succeeded", "failed"} \subseteq DeliveryStatus
  BY DEF DeliveryStatus
<1>2. CASE WebhookAnswers(e)
  BY <1>1, <1>2, AnsweredKeeps DEF WebhookAnswers
<1>3. CASE WebhookSilent(e) \/ AnswerBreaks(e)
  <2>1. CASE Step(e, Raised(run[e]))
    BY <1>3, <2>1, RaisedAlone
       DEF AnswerBreaks, WebhookSilent, GivesUp, At, Open, ExportInv, Shapes
  <2>2. CASE Answered(e, "failed")
    BY <1>1, <1>3, <2>2, AnsweredKeeps DEF AnswerBreaks, WebhookSilent, GivesUp
  <2>3. QED
    BY <1>3, <2>1, <2>2 DEF AnswerBreaks, WebhookSilent, GivesUp
<1>4. QED
  BY <1>2, <1>3

\* What a save writes, and what it leaves.
LEMMA SavedFacts ==
  ASSUME ExportInv, NEW e \in Export, run[e].writing, ApplySave(e), UNCHANGED posts
  PROVE  /\ Rows'
         /\ e \in DOMAIN jobs' /\ jobs'[e] = SavedJob(e)
         /\ (e \in DOMAIN deliveries)' <=> (e \in DOMAIN deliveries \/ SavesDelivery(e))
         /\ SavesDelivery(e) => deliveries'[e] = run[e].outcome
         /\ ~SavesDelivery(e) => deliveries' = deliveries
         /\ \A f \in Export : f # e => f \in DOMAIN jobs' <=> f \in DOMAIN jobs
         /\ \A f \in Export : f # e /\ f \in DOMAIN jobs => jobs'[f] = jobs[f]
         /\ \A f \in Export : f # e => f \in DOMAIN deliveries' <=> f \in DOMAIN deliveries
         /\ \A f \in Export : f # e /\ f \in DOMAIN deliveries => deliveries'[f] = deliveries[f]
<1>1. run[e] \in Run /\ Stage(e) /\ run[e].pc \in Saving
  BY DEF ExportInv, Shapes, Stage
<1>2. Cardinality(run[e].payload) \in Nat
  BY <1>1, MembersCount DEF Run
<1>3. SavedJob(e) \in Job
  <2>1. run[e].pc = "save_final" => run[e].outcome \in JobStatus
    BY <1>1 DEF Stage, DeliveryStatus, JobStatus
  <2>2. QED
    BY <1>1, <1>2, <2>1 DEF SavedJob, Job, JobStatus, Saving
<1>4. /\ DOMAIN jobs' = DOMAIN jobs \cup {e} /\ jobs'[e] = SavedJob(e)
      /\ \A f \in DOMAIN jobs : f # e => jobs'[f] = jobs[f]
  BY DEF ApplySave, Put
<1>5. SavesDelivery(e) =>
        /\ DOMAIN deliveries' = DOMAIN deliveries \cup {e}
        /\ deliveries'[e] = run[e].outcome
        /\ \A f \in DOMAIN deliveries : f # e => deliveries'[f] = deliveries[f]
  BY DEF ApplySave, Put
<1>6. ~SavesDelivery(e) => deliveries' = deliveries
  BY DEF ApplySave
<1>7. SavesDelivery(e) => run[e].outcome \in DeliveryStatus
  BY <1>1 DEF SavesDelivery, Stage, At, DeliveryStatus
<1>8. Rows'
  <2>1. deliveries' \in [DOMAIN deliveries' -> DeliveryStatus]
    BY <1>7 DEF ExportInv, Rows, ApplySave, Put
  <2>2. QED
    BY <1>3, <1>4, <1>5, <1>6, <2>1 DEF ExportInv, Rows
<1>9. QED
  BY <1>4, <1>5, <1>6, <1>8

LEMMA SavedRun ==
  ASSUME NEW r \in Run, NEW pc \in Pc
  PROVE  LET s == [r EXCEPT !.pc = pc, !.writing = FALSE]
         IN s \in Run /\ s.pc = pc /\ s.writing = FALSE /\ s.outcome = r.outcome
BY DEF Run

LEMMA SaveKeeps ==
  ASSUME ExportInv, NEW e \in Export, Save(e) PROVE ExportInv'
<1>1. /\ run[e] \in Run /\ Stage(e) /\ Told(e) /\ run[e].writing /\ run[e].pc \in Saving
      /\ ApplySave(e)
      /\ UNCHANGED <<members, posts, view, faults, changes, poolSize>>
  BY DEF Save, ExportInv, Shapes, Stage
<1>2. PICK r : /\ Step(e, r)
               /\ r = CASE At(e, "save_pending") -> [run[e] EXCEPT !.pc = "save_running",
                                                                  !.writing = FALSE]
                        [] At(e, "save_running") -> [run[e] EXCEPT !.pc = "count",
                                                                  !.writing = FALSE]
                        [] OTHER                 -> Ended(run[e])
  BY DEF Save
<1>3. /\ r \in Run /\ r.writing = FALSE
      /\ At(e, "save_pending") => r.pc = "save_running" /\ r.outcome = run[e].outcome
      /\ At(e, "save_running") => r.pc = "count" /\ r.outcome = run[e].outcome
      /\ run[e].pc \in {"save_final", "mark_failed"} =>
           r.pc = "done" /\ r.troubles = run[e].troubles
  <2>1. CASE At(e, "save_pending")
    <3>1. r = [run[e] EXCEPT !.pc = "save_running", !.writing = FALSE]
      BY <1>2, <2>1 DEF At
    <3>2. "save_running" \in Pc
      BY DEF Pc, Saving
    <3>3. QED
      BY <1>1, <2>1, <3>1, <3>2, SavedRun DEF At
  <2>2. CASE At(e, "save_running")
    <3>1. r = [run[e] EXCEPT !.pc = "count", !.writing = FALSE]
      BY <1>2, <2>2 DEF At
    <3>2. "count" \in Pc
      BY DEF Pc
    <3>3. QED
      BY <1>1, <2>2, <3>1, <3>2, SavedRun DEF At
  <2>3. CASE ~At(e, "save_pending") /\ ~At(e, "save_running")
    BY <1>1, <1>2, <2>3, EndedFacts DEF At
  <2>4. QED
    BY <2>1, <2>2, <2>3
<1>4. run'[e] = r
  BY <1>2, <1>3, SteppedRun DEF ExportInv, Shapes
<1>5. PICK row : row = SavedJob(e)
  OBVIOUS
<1>6. /\ At(e, "save_pending") => row.status = "pending"
      /\ At(e, "save_running") => row.status = "running"
      /\ At(e, "save_final") => row = [status |-> run[e].outcome,
                                       count |-> Cardinality(run[e].payload)]
      /\ At(e, "mark_failed") => row.status = "failed"
  BY <1>5 DEF SavedJob, At
<1>7. Stage(e)'
  <2>1. e \notin DOMAIN jobs => e \notin DOMAIN posts
    BY DEF ExportInv, Rows
  <2>2. QED
    BY <1>1, <1>3, <1>4, <1>5, <1>6, <2>1, SavedFacts
       DEF Stage, HasJob, Saving, At, SavesDelivery
<1>8. Told(e)'
  BY <1>1, <1>3, <1>4, <1>5, <1>6, SavedFacts
     DEF Told, Stage, HasJob, Saving, At, SavesDelivery, DeliveryStatus
<1>9. QED
  BY <1>1, <1>2, <1>3, <1>7, <1>8, SavedFacts, Moved DEF ExportInv, Shapes

LEMMA SaveAnswerLostKeeps ==
  ASSUME ExportInv, NEW e \in Export, SaveAnswerLost(e) PROVE ExportInv'
<1> DEFINE r == Raised(run[e])
<1>1. /\ run[e] \in Run /\ Stage(e) /\ Told(e) /\ run[e].writing /\ run[e].pc \in Saving
      /\ ApplySave(e) /\ Step(e, r)
      /\ UNCHANGED <<members, posts, view, changes, poolSize>>
      /\ faults' \in 0 .. MaxFaults
  BY FaultCounted DEF SaveAnswerLost, ExportInv, Shapes, Stage
<1>2. /\ r \in Run /\ run'[e] = r /\ ~r.writing /\ r.troubles = run[e].troubles + 1
      /\ r.pc = IF run[e].pc \in {"count", "list", "wait", "answering", "save_final"}
                THEN "mark_failed" ELSE "done"
      /\ r.pc = "mark_failed" => r.outcome = run[e].outcome
      /\ run[e].troubles \in Nat
  BY <1>1, RaisedFacts, SteppedRun DEF ExportInv, Shapes, Run
<1> HIDE DEF r
<1>3. PICK row : row = SavedJob(e)
  OBVIOUS
<1>4. /\ At(e, "save_pending") => row.status = "pending"
      /\ At(e, "save_running") => row.status = "running"
      /\ At(e, "save_final") => row = [status |-> run[e].outcome,
                                       count |-> Cardinality(run[e].payload)]
      /\ At(e, "mark_failed") => row.status = "failed"
  BY <1>3 DEF SavedJob, At
<1>5. Stage(e)'
  BY <1>1, <1>2, <1>3, <1>4, SavedFacts
     DEF Stage, HasJob, Saving, At, SavesDelivery, DeliveryStatus
<1>6. Told(e)'
  BY <1>1, <1>2, <1>3, <1>4, SavedFacts
     DEF Told, Stage, HasJob, Saving, At, SavesDelivery, DeliveryStatus, ExportInv, Rows
<1>7. QED
  BY <1>1, <1>2, <1>5, <1>6, SavedFacts, Moved

\* Requests differ from before in nothing an export reads from them.
LEMMA MembershipKeeps ==
  ASSUME ExportInv,
         members' \subseteq Customer, changes' \in 0 .. MaxChanges, run' \in [Export -> Run],
         \A e \in Export :
           /\ run'[e].pc = run[e].pc /\ run'[e].writing = run[e].writing
           /\ run'[e].outcome = run[e].outcome /\ run'[e].payload = run[e].payload
           /\ run'[e].troubles = run[e].troubles,
         UNCHANGED <<jobs, deliveries, posts, view, faults, poolSize>>
  PROVE  ExportInv'
<1>1. Shapes' /\ Rows'
  BY DEF ExportInv, Shapes, Rows
<1>2. ASSUME NEW e \in Export PROVE Stage(e)' /\ Told(e)'
  <2>1. Stage(e) /\ Told(e)
    BY DEF ExportInv
  <2>2. Stage(e)'
    BY <2>1 DEF Stage, HasJob
  <2>3. Told(e)'
    BY <2>1 DEF Told, HasJob
  <2>4. QED
    BY <2>2, <2>3
<1>3. QED
  BY <1>1, <1>2 DEF ExportInv

LEMMA ChangeCounted ==
  ASSUME Shapes, changes < MaxChanges, changes' = changes + 1 PROVE changes' \in 0 .. MaxChanges
BY ExportBounds DEF Shapes

LEMMA JoinKeeps ==
  ASSUME ExportInv, NEW c \in Customer, Join(c) PROVE ExportInv'
<1>1. ASSUME NEW e \in Export
      PROVE  /\ run'[e] \in Run
             /\ run'[e].pc = run[e].pc /\ run'[e].writing = run[e].writing
             /\ run'[e].outcome = run[e].outcome /\ run'[e].payload = run[e].payload
             /\ run'[e].troubles = run[e].troubles
  <2>1. run[e] \in Run /\ run'[e] \in {run[e], [run[e] EXCEPT !.joins = @ + 1]}
    BY DEF Join, ExportInv, Shapes
  <2>2. QED
    BY <2>1 DEF Run
<1>2. run' \in [Export -> Run]
  BY <1>1 DEF Join
<1>3. members' \subseteq Customer /\ changes' \in 0 .. MaxChanges
  BY ChangeCounted DEF Join, ExportInv, Shapes
<1>4. QED
  BY <1>1, <1>2, <1>3, MembershipKeeps DEF Join

LEMMA DropsKeeps ==
  ASSUME ExportInv, NEW c \in Customer, Drops(c) PROVE ExportInv'
<1>1. ASSUME NEW e \in Export
      PROVE  /\ run'[e] \in Run
             /\ run'[e].pc = run[e].pc /\ run'[e].writing = run[e].writing
             /\ run'[e].outcome = run[e].outcome /\ run'[e].payload = run[e].payload
             /\ run'[e].troubles = run[e].troubles
  <2>1. run[e] \in Run /\ run'[e] \in {run[e], [run[e] EXCEPT !.stayed = @ \ {c}]}
    BY DEF Drops, ExportInv, Shapes
  <2>2. QED
    BY <2>1 DEF Run
<1>2. run' \in [Export -> Run]
  BY <1>1 DEF Drops
<1>3. members' \subseteq Customer /\ changes' \in 0 .. MaxChanges
  BY ChangeCounted DEF Drops, ExportInv, Shapes
<1>4. QED
  BY <1>1, <1>2, <1>3, MembershipKeeps DEF Drops

LEMMA ViewJobKeeps ==
  ASSUME ExportInv, NEW e \in Export, ViewJob(e) PROVE ExportInv'
<1>1. jobs[e] \in Job /\ view' = [reading |-> TRUE, export |-> e, job |-> jobs[e].status]
      /\ UNCHANGED <<members, jobs, deliveries, posts, run, faults, changes, poolSize>>
  BY DEF ViewJob, ExportInv, Rows
<1>2. Shapes' /\ Rows'
  BY <1>1 DEF ExportInv, Shapes, Rows, View, Job
<1>3. ASSUME NEW f \in Export PROVE Stage(f)' /\ Told(f)'
  <2>1. Stage(f) /\ Told(f) /\ e \in DOMAIN jobs
    BY DEF ExportInv, ViewJob
  <2>2. Stage(f)'
    BY <1>1, <2>1 DEF Stage, HasJob
  <2>3. Told(f)'
    BY <1>1, <2>1 DEF Told, HasJob
  <2>4. QED
    BY <2>2, <2>3
<1>4. QED
  BY <1>2, <1>3 DEF ExportInv

LEMMA NoViewFacts == NoView \in View /\ ~NoView.reading
BY ExportAssumption DEF NoView, View, JobStatus

LEMMA ViewDeliveryKeeps ==
  ASSUME ExportInv, ViewDelivery PROVE ExportInv'
<1>1. view' = NoView
      /\ UNCHANGED <<members, jobs, deliveries, posts, run, faults, changes, poolSize>>
  BY DEF ViewDelivery
<1>2. Shapes' /\ Rows'
  BY <1>1, NoViewFacts DEF ExportInv, Shapes, Rows
<1>3. ASSUME NEW f \in Export PROVE Stage(f)' /\ Told(f)'
  BY <1>1, NoViewFacts DEF ExportInv, Stage, Told, HasJob
<1>4. QED
  BY <1>2, <1>3 DEF ExportInv

LEMMA CrashKeeps ==
  ASSUME ExportInv, Crash PROVE ExportInv'
<1> DEFINE lost == [NewRun EXCEPT !.pc = "lost"]
<1>1. /\ lost \in Run /\ lost.pc = "lost" /\ ~lost.writing
  BY DEF NewRun, Run, Pc, Saving
<1> HIDE DEF lost
<1>2. /\ run' = [e \in Export |-> IF e \in Open THEN lost ELSE run[e]]
      /\ view' = NoView
      /\ UNCHANGED <<members, jobs, deliveries, posts, changes, poolSize>>
      /\ faults' \in 0 .. MaxFaults
  BY FaultCounted DEF Crash, ExportInv, lost
<1>3. Shapes' /\ Rows'
  BY <1>1, <1>2, NoViewFacts DEF ExportInv, Shapes, Rows
<1>4. ASSUME NEW f \in Export PROVE Stage(f)' /\ Told(f)'
  <2>1. Stage(f) /\ Told(f) /\ run'[f] \in {lost, run[f]}
    BY <1>2 DEF ExportInv
  <2>2. CASE run'[f] = lost
    BY <1>1, <1>2, <2>1, <2>2, NoViewFacts DEF Stage, Told, HasJob, Saving
  <2>3. CASE run'[f] = run[f]
    BY <1>2, <2>1, <2>3, NoViewFacts DEF Stage, Told, HasJob
  <2>4. QED
    BY <2>1, <2>2, <2>3
<1>5. QED
  BY <1>3, <1>4 DEF ExportInv

LEMMA NextPreserves == ExportInv /\ [Next]_vars => ExportInv'
<1> SUFFICES ASSUME ExportInv, [Next]_vars PROVE ExportInv'
  OBVIOUS
<1>1. CASE UNCHANGED vars
  BY <1>1 DEF vars, ExportInv, Shapes, Rows, Stage, Told, HasJob
<1>2. ASSUME NEW e \in Export,
             \/ Request(e) \/ Progress(e) \/ Arrives(e) \/ AnswerBegins(e)
             \/ WebhookAnswers(e) \/ AnswerBreaks(e) \/ SaveFails(e)
             \/ SaveAnswerLost(e) \/ ReadFails(e) \/ ViewJob(e)
      PROVE  ExportInv'
  BY <1>2, RequestKeeps, ConnectKeeps, PoolTimesOutKeeps, GetDefinitionKeeps,
     CountMembersKeeps, ListMembersKeeps, SendMembersKeeps, ArrivesKeeps,
     AnswerBeginsKeeps, WebhookKeeps, SaveKeeps, SaveFailsKeeps, SaveAnswerLostKeeps, ReadFailsKeeps, ViewJobKeeps
     DEF Progress
<1>3. QED
  BY <1>1, <1>2, JoinKeeps, DropsKeeps, ViewDeliveryKeeps, CrashKeeps DEF Next

LEMMA Invariance == Spec => []ExportInv
BY InitEstablishes, NextPreserves, PTL DEF Spec

-----------------------------------------------------------------------------
(* What the invariant says of the rows *)

\* No job is reported as succeeded that the endpoint did not take, and its row
\* and its delivery agree with what the endpoint got.
THEOREM SuccessIsTaken == Spec => []SucceededWasTaken
<1>1. ExportInv => SucceededWasTaken
  BY DEF ExportInv, Rows, Told, HasJob, SucceededWasTaken
<1>2. QED
  BY <1>1, Invariance, PTL

\* A request that posted its members and was answered leaves a finished job,
\* unless it failed twice.
THEOREM DeliveryIsSettled == Spec => []DeliveredIsSettled
<1>1. ExportInv => DeliveredIsSettled
  BY DEF ExportInv, Rows, Told, At, DeliveredIsSettled
<1>2. QED
  BY <1>1, Invariance, PTL

\* Between its two statements a reader misses no delivery of a succeeded job.
THEOREM ReaderIsConsistent == Spec => []ViewIsConsistent
<1>1. ExportInv => ViewIsConsistent
  BY DEF ExportInv, Shapes, View, Told, ViewIsConsistent
<1>2. QED
  BY <1>1, Invariance, PTL

-----------------------------------------------------------------------------
(* The pool *)

Sessions == {e \in Export : run[e].session}
Writers == {e \in Export : run[e].writing}
Readers == IF view.reading THEN 1 ELSE 0

LEMMA UseFacts ==
  ASSUME Shapes
  PROVE  /\ IsFiniteSet(Sessions) /\ Cardinality(Sessions) \in Nat
         /\ IsFiniteSet(Writers) /\ Cardinality(Writers) \in Nat
         /\ InUse = Cardinality(Sessions) + Cardinality(Writers) + Readers
         /\ poolSize \in Nat
<1>1. Sessions \subseteq Export /\ Writers \subseteq Export
  BY DEF Sessions, Writers
<1>2. IsFiniteSet(Sessions) /\ IsFiniteSet(Writers)
  BY <1>1, ExportAssumption, FS_Subset
<1>3. QED
  BY <1>2, FS_CardinalityType, ExportBounds DEF Sessions, Writers, Readers, InUse, Shapes

LEMMA UseFactsNext ==
  ASSUME Shapes'
  PROVE  /\ Cardinality(Sessions') \in Nat /\ Cardinality(Writers') \in Nat
         /\ InUse' = Cardinality(Sessions') + Cardinality(Writers') + Readers'
<1>1. Sessions' \subseteq Export /\ Writers' \subseteq Export
  BY DEF Sessions, Writers
<1>2. IsFiniteSet(Sessions') /\ IsFiniteSet(Writers')
  BY <1>1, ExportAssumption, FS_Subset
<1>3. QED
  BY <1>2, FS_CardinalityType DEF Sessions, Writers, Readers, InUse

\* A step that takes no connection leaves the pool within its size.
LEMMA NoneTaken ==
  ASSUME Shapes, Shapes', Pool, poolSize' = poolSize,
         \A e \in Export : run'[e].session => run[e].session,
         \A e \in Export : run'[e].writing => run[e].writing,
         view'.reading => view.reading
  PROVE  Pool'
<1>1. Sessions' \subseteq Sessions /\ Writers' \subseteq Writers
  BY DEF Sessions, Writers
<1>2. Cardinality(Sessions') <= Cardinality(Sessions)
      /\ Cardinality(Writers') <= Cardinality(Writers)
  BY <1>1, UseFacts, FS_Subset
<1>3. Readers' <= Readers /\ Readers \in Nat /\ Readers' \in Nat
  BY DEF Readers
<1>4. /\ InUse' = Cardinality(Sessions') + Cardinality(Writers') + Readers'
      /\ Cardinality(Sessions') \in Nat /\ Cardinality(Writers') \in Nat
  BY UseFactsNext
<1>5. QED
  BY <1>2, <1>3, <1>4, UseFacts DEF Pool

LEMMA ConnectInPool ==
  ASSUME Shapes, Shapes', Pool, NEW e \in Export, Connect(e) PROVE Pool'
<1>1. /\ InUse < poolSize /\ poolSize' = poolSize /\ view' = view
      /\ \A f \in Export : f # e => run'[f] = run[f]
      /\ run[e] \in Run
      /\ \/ run'[e].session = run[e].session
         \/ run'[e].writing = run[e].writing
  <2>1. run'[e] \in {[run[e] EXCEPT !.session = TRUE], [run[e] EXCEPT !.writing = TRUE]}
        /\ run[e] \in Run /\ \A f \in Export : f # e => run'[f] = run[f]
    BY DEF Connect, Step, Shapes
  <2>2. QED
    BY <2>1 DEF Connect, Run
<1>2. /\ Sessions' \subseteq Sessions \cup {e} /\ Writers' \subseteq Writers \cup {e}
      /\ Sessions' \subseteq Sessions \/ Writers' \subseteq Writers
  BY <1>1 DEF Sessions, Writers
<1>3. /\ IsFiniteSet(Sessions \cup {e}) /\ IsFiniteSet(Writers \cup {e})
      /\ Cardinality(Sessions \cup {e}) <= Cardinality(Sessions) + 1
      /\ Cardinality(Writers \cup {e}) <= Cardinality(Writers) + 1
  <2>1. ASSUME NEW S, IsFiniteSet(S)
        PROVE  IsFiniteSet(S \cup {e}) /\ Cardinality(S \cup {e}) <= Cardinality(S) + 1
    <3>1. Cardinality(S) \in Nat
      BY <2>1, FS_CardinalityType
    <3>2. /\ IsFiniteSet(S \cup {e})
          /\ Cardinality(S \cup {e}) = IF e \in S THEN Cardinality(S)
                                                  ELSE Cardinality(S) + 1
      BY <2>1, FS_AddElement
    <3>3. QED
      BY <3>1, <3>2
  <2>2. QED
    BY <2>1, UseFacts
<1>4. /\ InUse' = Cardinality(Sessions') + Cardinality(Writers') + Readers'
      /\ Cardinality(Sessions') \in Nat /\ Cardinality(Writers') \in Nat
  BY UseFactsNext
<1>5. Readers' = Readers /\ Readers \in Nat
  BY <1>1 DEF Readers
<1>6. Cardinality(Sessions') + Cardinality(Writers')
        <= Cardinality(Sessions) + Cardinality(Writers) + 1
  <2>1. CASE Sessions' \subseteq Sessions
    <3>1. /\ Cardinality(Sessions') <= Cardinality(Sessions)
          /\ Cardinality(Writers') <= Cardinality(Writers \cup {e})
          /\ Cardinality(Writers \cup {e}) \in Nat
      BY <1>2, <1>3, <2>1, UseFacts, FS_Subset, FS_CardinalityType
    <3>2. QED
      BY <1>3, <1>4, <3>1, UseFacts
  <2>2. CASE Writers' \subseteq Writers
    <3>1. /\ Cardinality(Writers') <= Cardinality(Writers)
          /\ Cardinality(Sessions') <= Cardinality(Sessions \cup {e})
          /\ Cardinality(Sessions \cup {e}) \in Nat
      BY <1>2, <1>3, <2>2, UseFacts, FS_Subset, FS_CardinalityType
    <3>2. QED
      BY <1>3, <1>4, <3>1, UseFacts
  <2>3. QED
    BY <1>2, <2>1, <2>2
<1>7. QED
  BY <1>1, <1>4, <1>5, <1>6, UseFacts DEF Pool

LEMMA ViewInPool ==
  ASSUME Shapes, Shapes', Pool, NEW e \in Export, ViewJob(e) PROVE Pool'
<1>1. /\ InUse < poolSize /\ poolSize' = poolSize /\ ~view.reading
      /\ Sessions' = Sessions /\ Writers' = Writers
  BY DEF ViewJob, Sessions, Writers
<1>2. /\ InUse' = Cardinality(Sessions') + Cardinality(Writers') + Readers'
      /\ Readers = 0 /\ Readers' \in {0, 1}
  <2>1. InUse' = Cardinality(Sessions') + Cardinality(Writers') + Readers'
    BY UseFactsNext
  <2>2. QED
    BY <1>1, <2>1 DEF Readers
<1>3. QED
  BY <1>1, <1>2, UseFacts DEF Pool

\* A step of request e that holds no connection it did not hold.
LEMMA OneInPool ==
  ASSUME Shapes, Shapes', Pool, NEW e \in Export, NEW r, Step(e, r),
         r.session => run[e].session, r.writing => run[e].writing,
         UNCHANGED <<view, poolSize>>
  PROVE  Pool'
<1>1. \A f \in Export : run'[f] = IF f = e THEN r ELSE run[f]
  BY DEF Step, Shapes
<1>2. QED
  BY <1>1, NoneTaken

LEMMA RaisedInPool ==
  ASSUME Shapes, Shapes', Pool, NEW e \in Export, Step(e, Raised(run[e])),
         UNCHANGED <<view, poolSize>>
  PROVE  Pool'
<1> DEFINE r == Raised(run[e])
<1>1. run[e] \in Run
  BY DEF Shapes
<1>2. (r.session => run[e].session) /\ ~r.writing
  BY <1>1, RaisedFacts
<1> HIDE DEF r
<1>3. QED
  BY <1>2, OneInPool DEF r

LEMMA AnswerInPool ==
  ASSUME ExportInv, Shapes', Pool, NEW e \in Export, NEW s \in DeliveryStatus,
         Answered(e, s) \/ Step(e, Raised(run[e])),
         UNCHANGED <<view, poolSize>>
  PROVE  Pool'
<1>1. Shapes /\ run[e] \in Run
  BY DEF ExportInv, Shapes
<1>2. CASE Step(e, Raised(run[e]))
  BY <1>1, <1>2, RaisedInPool
<1>3. CASE Answered(e, s)
  <2> DEFINE r == [run[e] EXCEPT !.pc = "save_final", !.outcome = s]
  <2>1. Step(e, r)
    BY <1>3 DEF Answered
  <2>2. r.session = run[e].session /\ r.writing = run[e].writing
    BY <1>1 DEF Run
  <2> HIDE DEF r
  <2>3. QED
    BY <1>1, <2>1, <2>2, OneInPool
<1>4. QED
  BY <1>2, <1>3

LEMMA SaveInPool ==
  ASSUME Shapes, Shapes', Pool, NEW e \in Export, Save(e) PROVE Pool'
<1>1. run[e] \in Run
  BY DEF Shapes
<1>2. CASE At(e, "save_pending")
  <2> DEFINE r == [run[e] EXCEPT !.pc = "save_running", !.writing = FALSE]
  <2>1. Step(e, r) /\ UNCHANGED <<view, poolSize>>
    BY <1>2 DEF Save, At
  <2>2. r.session = run[e].session /\ ~r.writing
    BY <1>1 DEF Run
  <2> HIDE DEF r
  <2>3. QED
    BY <2>1, <2>2, OneInPool
<1>3. CASE At(e, "save_running")
  <2> DEFINE r == [run[e] EXCEPT !.pc = "count", !.writing = FALSE]
  <2>1. Step(e, r) /\ UNCHANGED <<view, poolSize>>
    BY <1>3 DEF Save, At
  <2>2. r.session = run[e].session /\ ~r.writing
    BY <1>1 DEF Run
  <2> HIDE DEF r
  <2>3. QED
    BY <2>1, <2>2, OneInPool
<1>4. CASE ~At(e, "save_pending") /\ ~At(e, "save_running")
  BY <1>1, <1>4, EndedFacts, OneInPool DEF Save
<1>5. QED
  BY <1>2, <1>3, <1>4

LEMMA LocalInPool ==
  ASSUME Shapes, Shapes', Pool, NEW e \in Export,
         \/ Request(e) \/ GetDefinition(e) \/ CountMembers(e) \/ ListMembers(e)
         \/ SendMembers(e) \/ AnswerBegins(e)
  PROVE  Pool'
<1>1. run[e] \in Run
  BY DEF Shapes
<1>2. CASE Request(e)
  <2>1. /\ [run[e] EXCEPT !.pc = "definition"].session = run[e].session
        /\ [run[e] EXCEPT !.pc = "definition"].writing = run[e].writing
    BY <1>1 DEF Run
  <2>2. QED
    BY <1>2, <2>1, OneInPool DEF Request
<1>3. CASE GetDefinition(e)
  <2>1. /\ [run[e] EXCEPT !.pc = "save_pending"].session = run[e].session
        /\ [run[e] EXCEPT !.pc = "save_pending"].writing = run[e].writing
    BY <1>1 DEF Run
  <2>2. UNCHANGED <<view, poolSize>>
    BY <1>3 DEF GetDefinition
  <2>3. CASE Step(e, [run[e] EXCEPT !.pc = "save_pending"])
    BY <2>1, <2>2, <2>3, OneInPool
  <2>4. CASE Step(e, Ended(run[e]))
    BY <1>1, <2>2, <2>4, EndedFacts, OneInPool
  <2>5. QED
    BY <1>3, <2>3, <2>4 DEF GetDefinition
<1>4. CASE CountMembers(e)
  <2> DEFINE r == [run[e] EXCEPT !.pc = IF members = {} THEN "send" ELSE "list",
                                 !.count = Cardinality(members), !.stayed = members]
  <2>1. Step(e, r) /\ UNCHANGED <<view, poolSize>>
    BY <1>4 DEF CountMembers
  <2>2. r.session = run[e].session /\ r.writing = run[e].writing
    BY <1>1 DEF Run
  <2> HIDE DEF r
  <2>3. QED
    BY <2>1, <2>2, OneInPool
<1>5. CASE ListMembers(e)
  <2> DEFINE r == [run[e] EXCEPT !.pc = "send", !.payload = Newest(members, run[e].count)]
  <2>1. Step(e, r) /\ UNCHANGED <<view, poolSize>>
    BY <1>5 DEF ListMembers
  <2>2. r.session = run[e].session /\ r.writing = run[e].writing
    BY <1>1 DEF Run
  <2> HIDE DEF r
  <2>3. QED
    BY <2>1, <2>2, OneInPool
<1>6. CASE SendMembers(e)
  <2> DEFINE loaded == Loaded(run[e])
             r == [loaded EXCEPT !.pc = "wait"]
  <2>1. loaded \in Run /\ loaded.session = run[e].session /\ loaded.writing = run[e].writing
    BY <1>1 DEF Loaded, Run
  <2>2. Step(e, r) /\ UNCHANGED <<view, poolSize>>
    BY <1>6 DEF SendMembers
  <2> HIDE DEF loaded
  <2>3. r.session = loaded.session /\ r.writing = loaded.writing
    BY <2>1 DEF Run
  <2> HIDE DEF r
  <2>4. QED
    BY <2>1, <2>2, <2>3, OneInPool
<1>7. CASE AnswerBegins(e)
  <2>1. /\ [run[e] EXCEPT !.pc = "answering"].session = run[e].session
        /\ [run[e] EXCEPT !.pc = "answering"].writing = run[e].writing
    BY <1>1 DEF Run
  <2>2. QED
    BY <1>7, <2>1, OneInPool DEF AnswerBegins
<1>8. QED
  BY <1>2, <1>3, <1>4, <1>5, <1>6, <1>7

LEMMA OthersInPool ==
  ASSUME Shapes, Shapes', Pool,
         \/ \E c \in Customer : Join(c) \/ Drops(c)
         \/ \E e \in Export : Arrives(e)
         \/ ViewDelivery \/ Crash \/ UNCHANGED vars
  PROVE  Pool'
<1>1. CASE \E c \in Customer : Join(c) \/ Drops(c)
  <2>1. PICK c \in Customer : Join(c) \/ Drops(c)
    BY <1>1
  <2>2. ASSUME NEW e \in Export
        PROVE  run'[e].session = run[e].session /\ run'[e].writing = run[e].writing
    <3>1. run[e] \in Run
          /\ run'[e] \in {run[e], [run[e] EXCEPT !.joins = @ + 1],
                          [run[e] EXCEPT !.stayed = @ \ {c}]}
      BY <2>1 DEF Join, Drops, Shapes
    <3>2. QED
      BY <3>1 DEF Run
  <2>3. UNCHANGED <<view, poolSize>>
    BY <2>1 DEF Join, Drops
  <2>4. QED
    BY <2>2, <2>3, NoneTaken
<1>2. CASE ViewDelivery
  BY <1>2, NoneTaken, NoViewFacts DEF ViewDelivery
<1>3. CASE Crash
  <2>1. ASSUME NEW e \in Export
        PROVE  \/ run'[e] = run[e]
               \/ ~run'[e].session /\ ~run'[e].writing
    BY <1>3 DEF Crash, NewRun
  <2>2. poolSize' = poolSize /\ ~view'.reading
    BY <1>3, NoViewFacts DEF Crash
  <2>3. QED
    BY <2>1, <2>2, NoneTaken
<1>4. CASE UNCHANGED vars \/ \E e \in Export : Arrives(e)
  BY <1>4, NoneTaken DEF vars, Arrives
<1>5. QED
  BY <1>1, <1>2, <1>3, <1>4

LEMMA PoolPreserved == Pool /\ ExportInv /\ ExportInv' /\ [Next]_vars => Pool'
<1> SUFFICES ASSUME Pool, ExportInv, ExportInv', [Next]_vars PROVE Pool'
  OBVIOUS
<1>1. Shapes /\ Shapes'
  BY DEF ExportInv
<1>2. ASSUME NEW e \in Export,
             Request(e) \/ Progress(e) \/ AnswerBegins(e) \/ WebhookAnswers(e) \/ AnswerBreaks(e)
      PROVE  Pool'
  <2>1. CASE PoolTimesOut(e)
    BY <1>1, <2>1, RaisedInPool DEF PoolTimesOut
  <2>2. CASE WebhookAnswers(e) \/ WebhookSilent(e) \/ AnswerBreaks(e)
    <3>1. /\ UNCHANGED <<view, poolSize>>
          /\ \E s \in DeliveryStatus : Answered(e, s) \/ Step(e, Raised(run[e]))
      BY <2>2 DEF WebhookAnswers, WebhookSilent, AnswerBreaks, GivesUp, DeliveryStatus
    <3>2. QED
      BY <1>1, <3>1, AnswerInPool
  <2>3. QED
    BY <1>1, <1>2, <2>1, <2>2, LocalInPool, ConnectInPool, SaveInPool DEF Progress
<1>3. ASSUME NEW e \in Export, SaveFails(e) \/ SaveAnswerLost(e) \/ ReadFails(e) PROVE Pool'
  BY <1>1, <1>3, RaisedInPool DEF SaveFails, SaveAnswerLost, ReadFails
<1>4. QED
  BY <1>1, <1>2, <1>3, ViewInPool, OthersInPool DEF Next

LEMMA PoolIsFree == Init => Pool
<1> SUFFICES ASSUME Init PROVE Pool
  OBVIOUS
<1>1. ExportInv
  BY InitEstablishes
<1>2. Sessions = {} /\ Writers = {} /\ Readers = 0
  BY NoViewFacts DEF Init, Sessions, Writers, Readers, NewRun
<1>3. QED
  BY <1>1, <1>2, UseFacts, FS_EmptySet DEF Pool, ExportInv

\* Rows, requests and views have the shape the code gives them, and the pool
\* never hands out more connections than it has.
THEOREM TypeCorrect == Spec => []TypeOK
<1>1. Spec => []Pool
  BY Invariance, PoolIsFree, PoolPreserved, PTL DEF Spec
<1>2. ExportInv /\ Pool => TypeOK
  BY DEF ExportInv, Shapes, Rows, Pool, TypeOK
<1>3. QED
  BY <1>1, <1>2, Invariance, PTL

-----------------------------------------------------------------------------
(* The members that are sent *)

\* The n latest of S are n, unless they are all of S: of those left out take the
\* one with the fewest later ones; each of these is among the n latest.
LEMMA NewestAreEnough ==
  ASSUME NEW S \in SUBSET Customer, NEW n \in Nat, S # Newest(S, n)
  PROVE  Cardinality(Newest(S, n)) >= n
<1> DEFINE Later(c) == {d \in S : d > c}
           U == S \ Newest(S, n)
           Counts == {k \in Nat : \E c \in U : k = Cardinality(Later(c))}
<1>1. S \subseteq Nat /\ Newest(S, n) \subseteq S /\ U # {}
  BY ExportAssumption DEF Newest
<1>2. ASSUME NEW c \in U
      PROVE  IsFiniteSet(Later(c)) /\ Cardinality(Later(c)) \in Nat /\ Cardinality(Later(c)) >= n
  <2>1. IsFiniteSet(Later(c)) /\ Cardinality(Later(c)) \in Nat
    BY ExportAssumption, FS_Subset, MembersCount
  <2>2. ~(Cardinality(Later(c)) < n)
    BY DEF Newest
  <2>3. QED
    BY <2>1, <2>2
<1>3. Counts # {} /\ Counts \subseteq Nat
  BY <1>1, <1>2
<1>4. PICK k \in Counts : \A j \in Counts : ~(<<j, k>> \in OpToRel(<, Nat))
  BY <1>3, NatLessThanWellFounded, WFMin
<1>5. PICK c \in U : k = Cardinality(Later(c))
  OBVIOUS
<1>6. Later(c) \subseteq Newest(S, n)
  <2> SUFFICES ASSUME NEW d \in Later(c), d \in U PROVE FALSE
    OBVIOUS
  <2>1. d \in Later(c) /\ d \notin Later(d) /\ Later(d) \subseteq Later(c)
    <3>1. c \in Nat /\ d \in Nat /\ d > c /\ d \in S
      BY <1>1
    <3>2. ASSUME NEW x \in S, x > d PROVE x > c
      BY <1>1, <3>1, <3>2
    <3>3. ~(d > d)
      BY <3>1
    <3>4. QED
      BY <3>1, <3>2, <3>3
  <2>2. Cardinality(Later(d)) < k
    <3>1. Later(d) # Later(c) /\ Later(d) \in SUBSET Later(c)
      BY <2>1
    <3>2. QED
      BY <1>2, <1>5, <3>1, FS_Subset
  <2>3. Cardinality(Later(d)) \in Counts
    BY <1>2
  <2>4. QED
    BY <1>4, <2>2, <2>3 DEF OpToRel
<1>7. IsFiniteSet(Newest(S, n)) /\ Cardinality(Newest(S, n)) \in Nat
  BY <1>1, ExportAssumption, FS_Subset, MembersCount
<1>8. Cardinality(Later(c)) <= Cardinality(Newest(S, n))
  BY <1>6, <1>7, FS_Subset
<1>9. QED
  BY <1>2, <1>7, <1>8

\* Between the count and the list: who is new among the members joined, and the
\* limit is large enough for those who stayed.
Displaced(e) ==
  /\ At(e, "list") =>
       /\ run[e].stayed \subseteq members
       /\ Cardinality(run[e].stayed) <= run[e].count
       /\ Cardinality(members \ run[e].stayed) <= run[e].joins
  /\ At(e, "send") => Cardinality(run[e].stayed \ run[e].payload) <= run[e].joins

\* Of members that grew by at most n over what was counted, at most n of those
\* who stayed are left out of the answer.
LEMMA LeftOut ==
  ASSUME NEW S \in SUBSET Customer, NEW A \in SUBSET S, NEW limit \in Nat, NEW n \in Nat,
         Cardinality(A) <= limit, Cardinality(S \ A) <= n
  PROVE  Cardinality(A \ Newest(S, limit)) <= n
<1> DEFINE B == Newest(S, limit)
<1>1. IsFiniteSet(S) /\ B \subseteq S /\ S \in SUBSET Customer
  BY ExportAssumption, FS_Subset DEF Newest
<1>2. /\ Cardinality(S \ B) = Cardinality(S) - Cardinality(B)
      /\ Cardinality(S \ A) = Cardinality(S) - Cardinality(A)
  <2>1. S \cap B = B /\ S \cap A = A
    BY <1>1
  <2> HIDE DEF B
  <2>2. /\ Cardinality(S \ B) = Cardinality(S) - Cardinality(S \cap B)
        /\ Cardinality(S \ A) = Cardinality(S) - Cardinality(S \cap A)
    BY <1>1, FS_Difference
  <2>3. QED
    BY <2>1, <2>2
<1>3. /\ Cardinality(S) \in Nat /\ Cardinality(A) \in Nat /\ Cardinality(B) \in Nat
      /\ Cardinality(S \ B) \in Nat /\ Cardinality(A \ B) \in Nat
  BY <1>1, MembersCount
<1>4. Cardinality(A \ B) <= Cardinality(S \ B)
  <2>1. IsFiniteSet(S \ B) /\ A \ B \in SUBSET (S \ B)
    BY <1>1, FS_Difference
  <2>2. QED
    BY <2>1, FS_Subset
<1>5. CASE S = B
  <2>1. A \ B = {}
    BY <1>5
  <2>2. QED
    BY <2>1, FS_EmptySet
<1>6. CASE S # B
  <2>1. Cardinality(B) >= limit
    BY <1>6, NewestAreEnough
  <2>2. Cardinality(S) - Cardinality(A) <= n
    BY <1>2
  <2>3. Cardinality(S) - Cardinality(B) <= n
    <3> HIDE DEF B
    <3>1. QED
      BY <1>3, <2>1, <2>2
  <2>4. Cardinality(A \ B) <= Cardinality(S) - Cardinality(B)
    BY <1>2, <1>4
  <2>5. Cardinality(A \ B) <= n
    <3> HIDE DEF B
    <3>1. QED
      BY <1>3, <2>3, <2>4
  <2>6. QED
    BY <2>5
<1>7. QED
  BY <1>5, <1>6

LEMMA CountDisplaces ==
  ASSUME ExportInv, NEW e \in Export, CountMembers(e) PROVE Displaced(e)'
<1> DEFINE r == [run[e] EXCEPT !.pc = IF members = {} THEN "send" ELSE "list",
                               !.count = Cardinality(members), !.stayed = members]
<1>1. run[e] \in Run /\ Step(e, r) /\ members' = members /\ members \in SUBSET Customer
  BY DEF CountMembers, ExportInv, Shapes
<1>2. /\ r.pc = IF members = {} THEN "send" ELSE "list"
      /\ r.count = Cardinality(members) /\ r.stayed = members
      /\ r.joins = run[e].joins /\ r.joins \in Nat
  BY <1>1 DEF Run
<1>3. run'[e] = r
  BY <1>1 DEF Step, ExportInv, Shapes
<1> HIDE DEF r
<1>4. Cardinality(members) \in Nat /\ Cardinality({}) = 0 /\ members \ members = {}
  BY <1>1, MembersCount, FS_EmptySet
<1>5. CASE members = {}
  <2>1. r.stayed \ r.payload = {}
    BY <1>2, <1>5
  <2>2. QED
    BY <1>2, <1>3, <1>4, <1>5, <2>1 DEF Displaced, At
<1>6. CASE members # {}
  BY <1>1, <1>2, <1>3, <1>4, <1>6 DEF Displaced, At
<1>7. QED
  BY <1>5, <1>6

LEMMA ListDisplaces ==
  ASSUME ExportInv, NEW e \in Export, Displaced(e), ListMembers(e) PROVE Displaced(e)'
<1> DEFINE r == [run[e] EXCEPT !.pc = "send", !.payload = Newest(members, run[e].count)]
<1>1. /\ run[e] \in Run /\ Step(e, r) /\ members \in SUBSET Customer /\ At(e, "list")
      /\ run[e].stayed \in SUBSET members /\ run[e].count \in Nat /\ run[e].joins \in Nat
      /\ Cardinality(run[e].stayed) <= run[e].count
      /\ Cardinality(members \ run[e].stayed) <= run[e].joins
  BY DEF ListMembers, ExportInv, Shapes, Displaced, Run
<1>2. /\ r.pc = "send" /\ r.payload = Newest(members, run[e].count)
      /\ r.joins = run[e].joins /\ r.stayed = run[e].stayed
  BY <1>1 DEF Run
<1>3. run'[e] = r
  BY <1>1 DEF Step, ExportInv, Shapes
<1> HIDE DEF r
<1>4. Cardinality(r.stayed \ r.payload) <= r.joins
  BY <1>1, <1>2, LeftOut
<1>5. QED
  BY <1>2, <1>3, <1>4 DEF Displaced, At

LEMMA JoinDisplaces ==
  ASSUME ExportInv, NEW c \in Customer, Join(c), NEW e \in Export, Displaced(e)
  PROVE  Displaced(e)'
<1>1. /\ run[e] \in Run /\ members \in SUBSET Customer /\ members' = members \cup {c}
      /\ run'[e] = IF At(e, "list") THEN [run[e] EXCEPT !.joins = @ + 1] ELSE run[e]
  BY DEF Join, ExportInv, Shapes, Counted
<1>2. CASE ~At(e, "list")
  BY <1>1, <1>2 DEF Displaced, At
<1>3. CASE At(e, "list")
  <2>1. /\ run'[e].pc = "list" /\ run'[e].stayed = run[e].stayed
        /\ run'[e].count = run[e].count /\ run'[e].joins = run[e].joins + 1
        /\ run[e].joins \in Nat
    BY <1>1, <1>3 DEF Run, At
  <2>2. Cardinality(members' \ run'[e].stayed) <= run'[e].joins
    <3> DEFINE N == members \ run[e].stayed
    <3>1. N \in SUBSET Customer /\ Cardinality(N) <= run[e].joins
      BY <1>1, <1>3 DEF Displaced
    <3>2. IsFiniteSet(N) /\ Cardinality(N) \in Nat
      BY <3>1, ExportAssumption, FS_Subset, MembersCount
    <3>3. members' \ run'[e].stayed \in SUBSET (N \cup {c})
      BY <1>1, <2>1
    <3> HIDE DEF N
    <3>4. IsFiniteSet(N \cup {c}) /\ Cardinality(N \cup {c}) <= Cardinality(N) + 1
      <4>1. /\ IsFiniteSet(N \cup {c})
            /\ Cardinality(N \cup {c}) = IF c \in N THEN Cardinality(N) ELSE Cardinality(N) + 1
        BY <3>2, FS_AddElement
      <4>2. QED
        BY <3>2, <4>1
    <3>5. /\ Cardinality(members' \ run'[e].stayed) <= Cardinality(N \cup {c})
          /\ Cardinality(members' \ run'[e].stayed) \in Nat
          /\ Cardinality(N \cup {c}) \in Nat
      BY <3>3, <3>4, FS_Subset, FS_CardinalityType
    <3>6. QED
      BY <2>1, <3>1, <3>2, <3>4, <3>5
  <2>3. QED
    BY <1>1, <1>3, <2>1, <2>2 DEF Displaced, At
<1>4. QED
  BY <1>2, <1>3

LEMMA DropDisplaces ==
  ASSUME ExportInv, NEW c \in Customer, Drops(c), NEW e \in Export, Displaced(e)
  PROVE  Displaced(e)'
<1>1. /\ run[e] \in Run /\ members \in SUBSET Customer /\ members' = members \ {c}
      /\ run'[e] = IF At(e, "list") THEN [run[e] EXCEPT !.stayed = @ \ {c}] ELSE run[e]
  BY DEF Drops, ExportInv, Shapes, Counted
<1>2. CASE ~At(e, "list")
  BY <1>1, <1>2 DEF Displaced, At
<1>3. CASE At(e, "list")
  <2>1. /\ run'[e].pc = "list" /\ run'[e].stayed = run[e].stayed \ {c}
        /\ run'[e].count = run[e].count /\ run'[e].joins = run[e].joins
        /\ run[e].joins \in Nat /\ run[e].count \in Nat
    BY <1>1, <1>3 DEF Run, At
  <2>2. /\ run[e].stayed \in SUBSET members /\ Cardinality(run[e].stayed) <= run[e].count
        /\ Cardinality(members \ run[e].stayed) <= run[e].joins
    BY <1>3 DEF Displaced
  <2>3. IsFiniteSet(members)
    BY <1>1, ExportAssumption, FS_Subset
  <2>4. IsFiniteSet(run[e].stayed) /\ IsFiniteSet(members \ run[e].stayed)
    BY <2>2, <2>3, FS_Subset
  <2>5. /\ run'[e].stayed \in SUBSET run[e].stayed
        /\ members' \ run'[e].stayed \in SUBSET (members \ run[e].stayed)
    BY <1>1, <2>1
  <2>6. /\ Cardinality(run'[e].stayed) <= Cardinality(run[e].stayed)
        /\ Cardinality(members' \ run'[e].stayed) <= Cardinality(members \ run[e].stayed)
    BY <2>4, <2>5, FS_Subset
  <2>7. /\ Cardinality(run'[e].stayed) \in Nat /\ Cardinality(run[e].stayed) \in Nat
        /\ Cardinality(members' \ run'[e].stayed) \in Nat
        /\ Cardinality(members \ run[e].stayed) \in Nat
    BY <2>4, <2>5, FS_Subset, FS_CardinalityType
  <2>8. run'[e].stayed \subseteq members'
    BY <1>1, <2>1, <2>2
  <2>9. /\ Cardinality(run'[e].stayed) <= run'[e].count
        /\ Cardinality(members' \ run'[e].stayed) <= run'[e].joins
    BY <2>1, <2>2, <2>6, <2>7
  <2>10. QED
    BY <2>1, <2>8, <2>9 DEF Displaced, At
<1>4. QED
  BY <1>2, <1>3

\* Any other step leaves the members alone, and each request where it is or away
\* from the two places where Displaced says something.
LEMMA OthersLeaveIt ==
  ASSUME ExportInv, [Next]_vars, NEW e \in Export,
         ~CountMembers(e), ~ListMembers(e), ~\E c \in Customer : Join(c) \/ Drops(c)
  PROVE  members' = members /\ (run'[e] = run[e] \/ run'[e].pc \notin {"list", "send"})
<1>1. \A f \in Export : run[f] \in Run
  BY DEF ExportInv, Shapes
<1>2. ASSUME NEW f \in Export, NEW r, Step(f, r), r.pc \notin {"list", "send"}
      PROVE  run'[e] = run[e] \/ run'[e].pc \notin {"list", "send"}
  BY <1>2 DEF Step, ExportInv, Shapes
<1>3. ASSUME NEW f \in Export, Step(f, Raised(run[f]))
      PROVE  run'[e] = run[e] \/ run'[e].pc \notin {"list", "send"}
  BY <1>1, <1>2, <1>3, RaisedFacts
<1>4. ASSUME NEW f \in Export, Connect(f)
      PROVE  run'[e] = run[e] \/ run'[e].pc \notin {"list", "send"}
  <2> DEFINE r == IF At(f, "definition") THEN [run[f] EXCEPT !.session = TRUE]
                  ELSE [run[f] EXCEPT !.writing = TRUE]
  <2>1. r.pc = run[f].pc /\ run[f].pc \notin {"list", "send"} /\ Step(f, r)
    BY <1>1, <1>4 DEF Run, Connect, Waits, At, Saving
  <2> HIDE DEF r
  <2>2. QED
    BY <1>2, <2>1
<1>5. ASSUME NEW f \in Export,
             Request(f) \/ GetDefinition(f) \/ SendMembers(f) \/ AnswerBegins(f)
      PROVE  run'[e] = run[e] \/ run'[e].pc \notin {"list", "send"}
  <2>1. /\ [run[f] EXCEPT !.pc = "definition"].pc = "definition"
        /\ [run[f] EXCEPT !.pc = "save_pending"].pc = "save_pending"
        /\ [Loaded(run[f]) EXCEPT !.pc = "wait"].pc = "wait"
        /\ [run[f] EXCEPT !.pc = "answering"].pc = "answering"
        /\ Ended(run[f]).pc = "done"
    BY <1>1, EndedFacts DEF Run, Loaded
  <2>2. QED
    BY <1>2, <1>5, <2>1 DEF Request, GetDefinition, SendMembers, AnswerBegins
<1>6. ASSUME NEW f \in Export, WebhookAnswers(f) \/ WebhookSilent(f) \/ AnswerBreaks(f)
      PROVE  run'[e] = run[e] \/ run'[e].pc \notin {"list", "send"}
  <2>1. ASSUME NEW s \in DeliveryStatus, Answered(f, s), At(f, "wait") \/ At(f, "answering")
        PROVE  run'[e] = run[e] \/ run'[e].pc \notin {"list", "send"}
    <3> DEFINE r == [run[f] EXCEPT !.pc = "save_final", !.outcome = s]
    <3>1. r.pc = "save_final" /\ Step(f, r)
      BY <2>1, AnsweredFacts DEF Answered
    <3> HIDE DEF r
    <3>2. QED
      BY <1>2, <3>1
  <2>2. CASE Step(f, Raised(run[f]))
    BY <1>3, <2>2
  <2>3. CASE \E s \in DeliveryStatus : Answered(f, s)
    BY <1>6, <2>1, <2>3 DEF WebhookAnswers, WebhookSilent, AnswerBreaks
  <2>4. QED
    BY <1>6, <2>2, <2>3 DEF WebhookAnswers, WebhookSilent, AnswerBreaks, GivesUp, DeliveryStatus
<1>7. ASSUME NEW f \in Export, Save(f)
      PROVE  run'[e] = run[e] \/ run'[e].pc \notin {"list", "send"}
  <2>1. /\ [run[f] EXCEPT !.pc = "save_running", !.writing = FALSE].pc = "save_running"
        /\ [run[f] EXCEPT !.pc = "count", !.writing = FALSE].pc = "count"
        /\ Ended(run[f]).pc = "done"
    BY <1>1, EndedFacts DEF Run
  <2>2. QED
    BY <1>2, <1>7, <2>1 DEF Save
<1>8. ASSUME NEW f \in Export, CountMembers(f) \/ ListMembers(f)
      PROVE  run'[e] = run[e] \/ run'[e].pc \notin {"list", "send"}
  <2>1. f # e
    BY <1>8
  <2>2. QED
    BY <1>8, <2>1 DEF CountMembers, ListMembers, Step, ExportInv, Shapes
<1>9. ASSUME Crash PROVE run'[e] = run[e] \/ run'[e].pc \notin {"list", "send"}
  BY <1>9 DEF Crash, NewRun
<1>10. run'[e] = run[e] \/ run'[e].pc \notin {"list", "send"}
  BY <1>3, <1>4, <1>5, <1>6, <1>7, <1>8, <1>9
     DEF Next, Progress, PoolTimesOut, Arrives, SaveFails, SaveAnswerLost, ReadFails, ViewJob,
         ViewDelivery, vars
<1>11. members' = members
  BY DEF Next, Progress, Request, Connect, PoolTimesOut, GetDefinition, CountMembers,
         ListMembers, SendMembers, Arrives, AnswerBegins, WebhookAnswers, WebhookSilent,
         AnswerBreaks, GivesUp, Save, SaveFails, SaveAnswerLost, ReadFails, ViewJob,
         ViewDelivery, Crash, vars
<1>12. QED
  BY <1>10, <1>11

LEMMA DisplacedPreserved ==
  ExportInv /\ [Next]_vars /\ (\A e \in Export : Displaced(e))
    => (\A e \in Export : Displaced(e))'
<1> SUFFICES ASSUME ExportInv, [Next]_vars, \A e \in Export : Displaced(e), NEW e \in Export
             PROVE  Displaced(e)'
  OBVIOUS
<1>1. CASE CountMembers(e)
  BY <1>1, CountDisplaces
<1>2. CASE ListMembers(e)
  BY <1>2, ListDisplaces
<1>3. CASE \E c \in Customer : Join(c) \/ Drops(c)
  BY <1>3, JoinDisplaces, DropDisplaces
<1>4. CASE ~CountMembers(e) /\ ~ListMembers(e) /\ ~\E c \in Customer : Join(c) \/ Drops(c)
  <2>1. members' = members /\ (run'[e] = run[e] \/ run'[e].pc \notin {"list", "send"})
    BY <1>4, OthersLeaveIt
  <2>2. QED
    BY <2>1 DEF Displaced, At
<1>5. QED
  BY <1>1, <1>2, <1>3, <1>4

\* Members that were there from the count to the list and are not in the request
\* were displaced by others that came in between, one for one: the limit is the
\* count of a statement before, and the order keeps the latest.
THEOREM OnlyDisplacedMissing == Spec => []MissingWereDisplaced
<1> DEFINE Inv == \A e \in Export : Displaced(e)
<1>1. Init => Inv
  BY DEF Init, NewRun, Displaced, At
<1>2. Inv => MissingWereDisplaced
  BY DEF Displaced, MissingWereDisplaced
<1>3. ExportInv /\ [Next]_vars /\ Inv => Inv'
  BY DisplacedPreserved
<1> HIDE DEF Inv
<1>4. QED
  BY <1>1, <1>2, <1>3, Invariance, PTL DEF Spec

-----------------------------------------------------------------------------
(* The refinement *)

LEMMA JobsInitMaps == Init => Jobs!JobsInit
BY DEF Init, Jobs!JobsInit, JobStatuses, InFlight, Taken

\* A row written to a table is a status, or an answer, put under its key.
LEMMA StatusPut ==
  ASSUME NEW e, NEW row, jobs' = Put(jobs, e, row)
  PROVE  JobStatuses' = Jobs!Put(JobStatuses, e, row.status)
BY DEF JobStatuses, Put, Jobs!Put

LEMMA SameRows ==
  ASSUME UNCHANGED <<jobs, deliveries, posts>>
  PROVE  UNCHANGED <<JobStatuses, deliveries, InFlight, Taken>>
BY DEF JobStatuses, InFlight, Taken

LEMMA StatusIs ==
  ASSUME NEW e, NEW s PROVE Jobs!HasStatus(e, s) <=> HasJob(e, s)
BY DEF Jobs!HasStatus, HasJob, JobStatuses

\* Members posted are members sent: the first request for a job that runs.
LEMMA SendMaps ==
  ASSUME ExportInv, NEW e \in Export, SendMembers(e)
  PROVE  Jobs!JobsNext
<1>1. /\ Jobs!HasStatus(e, "running") /\ e \notin DOMAIN posts
      /\ UNCHANGED <<JobStatuses, deliveries>>
  BY StatusIs DEF SendMembers, ExportInv, Stage, At, JobStatuses
<1>2. PICK x : /\ posts' = Put(posts, e, x)
               /\ x.fate = "in_flight"
  BY DEF SendMembers
<1>3. /\ DOMAIN posts' = DOMAIN posts \cup {e} /\ posts'[e] = x
      /\ \A f \in DOMAIN posts : posts'[f] = posts[f]
  BY <1>1, <1>2 DEF Put
<1>4. InFlight' = InFlight \cup {e}
  BY <1>1, <1>2, <1>3 DEF InFlight
<1>5. e \notin InFlight /\ e \notin DOMAIN Taken
  BY <1>1 DEF InFlight, Taken
<1>6. UNCHANGED Taken
  <2>1. DOMAIN posts' \ InFlight' = DOMAIN posts \ InFlight
    BY <1>1, <1>3, <1>4
  <2>2. QED
    BY <1>3, <2>1 DEF Taken
<1>7. Jobs!Send(e)
  BY <1>1, <1>4, <1>5, <1>6 DEF Jobs!Send
<1>8. QED
  BY <1>7 DEF Jobs!JobsNext

\* ... and they arrive as they left, whatever the job is by then.
LEMMA ArrivalMaps ==
  ASSUME ExportInv, NEW e \in Export, Arrives(e)
  PROVE  Jobs!JobsNext
<1>1. PICK fate \in {"taken", "refused"} :
        posts' = Put(posts, e, [count |-> posts[e].count, fate |-> fate])
  BY DEF Arrives
<1>2. /\ e \in DOMAIN posts /\ posts[e].fate = "in_flight"
      /\ UNCHANGED <<JobStatuses, deliveries>>
  BY DEF Arrives, JobStatuses
<1>3. /\ DOMAIN posts' = DOMAIN posts /\ posts'[e].fate = fate
      /\ \A f \in DOMAIN posts : f # e => posts'[f] = posts[f]
  BY <1>1, <1>2 DEF Put
<1>4. e \in InFlight /\ InFlight' = InFlight \ {e}
  BY <1>2, <1>3 DEF InFlight
<1>5. Taken' = Jobs!Put(Taken, e, fate = "taken")
  <2>1. DOMAIN posts' \ InFlight' = (DOMAIN posts \ InFlight) \cup {e}
    BY <1>2, <1>3, <1>4
  <2>2. Taken' = [f \in (DOMAIN posts \ InFlight) \cup {e} |-> posts'[f].fate = "taken"]
    BY <2>1 DEF Taken
  <2>3. \A f \in DOMAIN posts \ InFlight : f # e /\ posts'[f] = posts[f]
    BY <1>3, <1>4
  <2>4. QED
    BY <1>3, <2>2, <2>3 DEF Taken, Jobs!Put
<1>6. Jobs!Receive(e)
  BY <1>2, <1>4, <1>5 DEF Jobs!Receive
<1>7. QED
  BY <1>6 DEF Jobs!JobsNext

LEMMA SaveMaps ==
  ASSUME ExportInv, NEW e \in Export, run[e].writing, ApplySave(e), UNCHANGED posts
  PROVE  Jobs!JobsNext \/ UNCHANGED <<JobStatuses, deliveries, InFlight, Taken>>
<1>1. /\ Stage(e) /\ run[e].pc \in Saving /\ Rows
      /\ JobStatuses' = Jobs!Put(JobStatuses, e, SavedJob(e).status)
      /\ UNCHANGED <<InFlight, Taken>>
  BY StatusPut DEF ExportInv, Stage, ApplySave, InFlight, Taken
<1>2. CASE At(e, "save_pending")
  <2>1. e \notin DOMAIN JobStatuses /\ SavedJob(e).status = "pending"
        /\ deliveries' = deliveries
    BY <1>1, <1>2 DEF Stage, SavedJob, ApplySave, SavesDelivery, At, JobStatuses
  <2>2. Jobs!Register(e)
    BY <1>1, <2>1 DEF Jobs!Register
  <2>3. QED
    BY <2>2 DEF Jobs!JobsNext
<1>3. CASE At(e, "save_running")
  <2>1. HasJob(e, "pending") /\ SavedJob(e).status = "running"
        /\ deliveries' = deliveries
    BY <1>1, <1>3 DEF Stage, SavedJob, ApplySave, SavesDelivery, At
  <2>2. Jobs!BeginRun(e)
    BY <1>1, <2>1, StatusIs DEF Jobs!BeginRun
  <2>3. QED
    BY <2>2 DEF Jobs!JobsNext
<1>4. CASE At(e, "save_final")
  <2>1. /\ HasJob(e, "running") /\ SavedJob(e).status = run[e].outcome
        /\ run[e].outcome \in {"succeeded", "failed"}
        /\ run[e].outcome = "succeeded" => e \in DOMAIN Taken /\ Taken[e]
        /\ deliveries' = Jobs!Put(deliveries, e, run[e].outcome)
    BY <1>1, <1>4
       DEF Stage, SavedJob, ApplySave, SavesDelivery, At, InFlight, Taken, Put, Jobs!Put,
           DeliveryStatus
  <2>2. Jobs!Settle(e, run[e].outcome)
    BY <1>1, <2>1, StatusIs DEF Jobs!Settle
  <2>3. QED
    BY <2>1, <2>2 DEF Jobs!JobsNext
<1>5. CASE At(e, "mark_failed")
  <2>1. SavedJob(e).status = "failed"
    BY <1>5 DEF SavedJob, At
  <2>2. CASE run[e].outcome # "failed"
    <3>1. HasJob(e, "running") \/ HasJob(e, "succeeded")
      BY <1>1, <1>5, <2>2 DEF Stage, At
    <3>2. deliveries' = deliveries
      BY <1>5, <2>2 DEF ApplySave, SavesDelivery, At
    <3>3. Jobs!GiveUp(e)
      BY <1>1, <2>1, <3>1, <3>2, StatusIs DEF Jobs!GiveUp
    <3>4. QED
      BY <3>3 DEF Jobs!JobsNext
  <2>3. CASE run[e].outcome = "failed" /\ HasJob(e, "running")
    <3>1. deliveries' = Jobs!Put(deliveries, e, "failed")
      BY <1>5, <2>3 DEF ApplySave, SavesDelivery, Put, Jobs!Put
    <3>2. Jobs!Settle(e, "failed")
      BY <1>1, <2>1, <2>3, <3>1, StatusIs DEF Jobs!Settle
    <3>3. QED
      BY <3>2 DEF Jobs!JobsNext
  <2>4. CASE run[e].outcome = "failed" /\ ~HasJob(e, "running")
    <3>1. /\ HasJob(e, "failed") /\ e \in DOMAIN deliveries /\ deliveries[e] = "failed"
          /\ deliveries = [f \in DOMAIN deliveries |-> deliveries[f]]
          /\ deliveries' = Put(deliveries, e, "failed")
      BY <1>1, <1>5, <2>4 DEF Stage, At, HasJob, ApplySave, SavesDelivery, Rows
    <3>2. deliveries' = deliveries
      BY <3>1 DEF Put
    <3>3. JobStatuses' = JobStatuses
      BY <1>1, <2>1, <3>1 DEF JobStatuses, Jobs!Put, HasJob
    <3>4. QED
      BY <1>1, <3>2, <3>3
  <2>5. QED
    BY <2>2, <2>3, <2>4
<1>6. QED
  BY <1>1, <1>2, <1>3, <1>4, <1>5 DEF Saving, At

LEMMA JobsNextMaps ==
  ExportInv /\ [Next]_vars => [Jobs!JobsNext]_<<JobStatuses, deliveries, InFlight, Taken>>
<1> SUFFICES ASSUME ExportInv, [Next]_vars
             PROVE  Jobs!JobsNext \/ UNCHANGED <<JobStatuses, deliveries, InFlight, Taken>>
  OBVIOUS
<1>1. ASSUME NEW e \in Export, SendMembers(e) \/ Arrives(e)
      PROVE  Jobs!JobsNext
  BY <1>1, SendMaps, ArrivalMaps
<1>2. ASSUME NEW e \in Export, Save(e) \/ SaveAnswerLost(e)
      PROVE  Jobs!JobsNext \/ UNCHANGED <<JobStatuses, deliveries, InFlight, Taken>>
  BY <1>2, SaveMaps DEF Save, SaveAnswerLost
<1>3. ASSUME NEW e \in Export,
             \/ Request(e) \/ Connect(e) \/ PoolTimesOut(e) \/ GetDefinition(e)
             \/ CountMembers(e) \/ ListMembers(e) \/ AnswerBegins(e) \/ WebhookAnswers(e)
             \/ WebhookSilent(e) \/ AnswerBreaks(e) \/ SaveFails(e) \/ ReadFails(e)
             \/ ViewJob(e)
      PROVE  UNCHANGED <<jobs, deliveries, posts>>
  BY <1>3 DEF Request, Connect, PoolTimesOut, GetDefinition, CountMembers, ListMembers,
              AnswerBegins, WebhookAnswers, WebhookSilent, AnswerBreaks, GivesUp,
              SaveFails, ReadFails, ViewJob
<1>4. ASSUME (\E c \in Customer : Join(c) \/ Drops(c)) \/ ViewDelivery \/ Crash \/ UNCHANGED vars
      PROVE  UNCHANGED <<jobs, deliveries, posts>>
  BY <1>4 DEF Join, Drops, ViewDelivery, Crash, vars
<1>5. QED
  BY <1>1, <1>2, <1>3, <1>4, SameRows DEF Next, Progress

\* The export as the process runs it keeps the promises of JobLedger, with the
\* members arriving as late as they like.
THEOREM ExportImplementsJobs == Spec => ImplementsJobLedger
BY JobsInitMaps, JobsNextMaps, Invariance, PTL DEF Spec, ImplementsJobLedger, Jobs!JobsSpec
=============================================================================
