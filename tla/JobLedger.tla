----------------------------- MODULE JobLedger -----------------------------
(***************************************************************************)
(* What export_segment promises to those who read a job, and to the        *)
(* webhook endpoint.  A job goes pending, running, and then to its end     *)
(* together with its delivery row.  The members leave at most once, and    *)
(* only while the job runs; they reach the endpoint at most once, at any   *)
(* time after that, a job that has failed meanwhile included.  A job can   *)
(* be given up while it runs and even after it succeeded, when its         *)
(* delivery row still says so.  It may also stay pending or running for    *)
(* ever.                                                                   *)
(*                                                                         *)
(* ExportRefinement shows that SegmentExport keeps this promise.           *)
(***************************************************************************)
EXTENDS Tables

CONSTANT Export  \* job ids

VARIABLES
  status,     \* status of the job by job_id
  delivery,   \* status of the delivery row by job_id
  inFlight,   \* the jobs whose members are on their way to the endpoint
  received    \* the jobs whose members reached the endpoint, and whether it took them

HasStatus(e, s) == e \in DOMAIN status /\ status[e] = s

Register(e) ==
  /\ e \notin DOMAIN status
  /\ status' = Put(status, e, "pending")
  /\ UNCHANGED <<delivery, inFlight, received>>

BeginRun(e) ==
  /\ HasStatus(e, "pending")
  /\ status' = Put(status, e, "running")
  /\ UNCHANGED <<delivery, inFlight, received>>

\* The members leave for the endpoint.
Send(e) ==
  /\ HasStatus(e, "running")
  /\ e \notin inFlight /\ e \notin DOMAIN received
  /\ inFlight' = inFlight \cup {e}
  /\ UNCHANGED <<status, delivery, received>>

\* The members reach the endpoint, whatever has become of the job.
Receive(e) ==
  /\ e \in inFlight
  /\ inFlight' = inFlight \ {e}
  /\ \E taken \in BOOLEAN : received' = Put(received, e, taken)
  /\ UNCHANGED <<status, delivery>>

\* Job and delivery are saved in one transaction; success is what the endpoint
\* said, a failure may be mere silence.
Settle(e, s) ==
  /\ HasStatus(e, "running")
  /\ s = "succeeded" => e \in DOMAIN received /\ received[e]
  /\ status' = Put(status, e, s)
  /\ delivery' = Put(delivery, e, s)
  /\ UNCHANGED <<inFlight, received>>

\* Something raised after the job was saved as running.
GiveUp(e) ==
  /\ HasStatus(e, "running") \/ HasStatus(e, "succeeded")
  /\ status' = Put(status, e, "failed")
  /\ UNCHANGED <<delivery, inFlight, received>>

-----------------------------------------------------------------------------
JobsInit == status = << >> /\ delivery = << >> /\ inFlight = {} /\ received = << >>

JobsNext ==
  \E e \in Export :
    \/ Register(e)
    \/ BeginRun(e)
    \/ Send(e)
    \/ Receive(e)
    \/ \E s \in {"succeeded", "failed"} : Settle(e, s)
    \/ GiveUp(e)

JobsSpec == JobsInit /\ [][JobsNext]_<<status, delivery, inFlight, received>>
=============================================================================
