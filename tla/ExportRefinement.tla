-------------------------- MODULE ExportRefinement --------------------------
(***************************************************************************)
(* SegmentExport implements JobLedger: the counts of a job and of a        *)
(* request are forgotten, and so are the request, the pool and the reader. *)
(***************************************************************************)
EXTENDS SegmentExport

JobStatuses == [e \in DOMAIN jobs |-> jobs[e].status]
InFlight == {e \in DOMAIN posts : posts[e].fate = "in_flight"}
Taken == [e \in DOMAIN posts \ InFlight |-> posts[e].fate = "taken"]

Jobs == INSTANCE JobLedger WITH
  status <- JobStatuses, delivery <- deliveries, inFlight <- InFlight, received <- Taken

\* Whatever is saved late or twice, after lost answers, pool timeouts and
\* crashes: a finished job is never taken back to pending or running, a failed
\* one never turns to succeeded (even when the endpoint takes the members after
\* the client gave up), job and delivery settle together, and members leave for
\* the endpoint once, while the job is stored as running.
ImplementsJobLedger == Jobs!JobsSpec
=============================================================================
