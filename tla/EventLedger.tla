---------------------------- MODULE EventLedger ----------------------------
(***************************************************************************)
(* What process_event promises to the code that calls it.  The table       *)
(* raw_events is a ledger: an event enters it once, in one step, with the  *)
(* status that is also the answer; every later call for the event finds it *)
(* there and is answered processed.  A call whose transaction broke leaves *)
(* nothing, or its complete effect when only the answer of the commit was  *)
(* lost; it is answered failed, after an attempt to mark the row failed.   *)
(*                                                                         *)
(* LedgerRefinement shows that EventProcessing keeps this promise, and     *)
(* KafkaWorker relies on it.                                               *)
(***************************************************************************)
EXTENDS Tables

CONSTANTS
  Worker,    \* worker processes
  Event,     \* event ids
  Verdicts   \* the statuses an event can enter the ledger with

Status == {"processed", "ignored_anonymous", "sent_to_dlq", "failed"}

ASSUME VerdictsAssumption == Verdicts \in [Event -> SUBSET Status]

VARIABLES
  ledger,  \* processing_status by event_id
  calls    \* the call of process_event each worker waits for

Stage == {"open", "broken", "answered"}
Call == [event: Event, stage: Stage, answer: Status]

\* The workers that wait for an answer.
Calling == DOMAIN calls

NewCall(e) == [event |-> e, stage |-> "open", answer |-> "failed"]
InStage(w, stage) == w \in Calling /\ calls[w].stage = stage
Answer(w, s) == calls' = [calls EXCEPT ![w].stage = "answered", ![w].answer = s]
LoseTransaction(w) == calls' = [calls EXCEPT ![w].stage = "broken"]

ProcessEvent(w, e) ==
  /\ w \notin Calling
  /\ calls' = Put(calls, w, NewCall(e))
  /\ UNCHANGED ledger

\* The commit of an event the ledger does not have.
Enter(w, s) ==
  /\ InStage(w, "open")
  /\ calls[w].event \notin DOMAIN ledger
  /\ s \in Verdicts[calls[w].event]
  /\ ledger' = Put(ledger, calls[w].event, s)

Record(w) == \E s \in Status : Enter(w, s) /\ Answer(w, s)

\* The commit happened and its answer was lost.
RecordUnanswered(w) == \E s \in Status : Enter(w, s) /\ LoseTransaction(w)

\* The event is a duplicate.
Repeat(w) ==
  /\ InStage(w, "open")
  /\ calls[w].event \in DOMAIN ledger
  /\ Answer(w, "processed")
  /\ UNCHANGED ledger

\* The transaction is rolled back.
Break(w) ==
  /\ InStage(w, "open")
  /\ LoseTransaction(w)
  /\ UNCHANGED ledger

MarkFailed(w) ==
  /\ InStage(w, "broken")
  /\ ledger' = [e \in DOMAIN ledger |->
                  IF e = calls[w].event THEN "failed" ELSE ledger[e]]
  /\ Answer(w, "failed")

\* The row could not be marked.
AnswerFailed(w) ==
  /\ InStage(w, "broken")
  /\ Answer(w, "failed")
  /\ UNCHANGED ledger

Return(w) ==
  /\ InStage(w, "answered")
  /\ calls' = Drop(calls, w)
  /\ UNCHANGED ledger

\* The process died, or the call raised an error nobody expects: there is no
\* answer.
Abandon(w) ==
  /\ w \in Calling
  /\ calls' = Drop(calls, w)
  /\ UNCHANGED ledger

-----------------------------------------------------------------------------
LedgerInit == ledger = << >> /\ calls = << >>

LedgerNext ==
  \E w \in Worker :
    \/ \E e \in Event : ProcessEvent(w, e)
    \/ Record(w)
    \/ RecordUnanswered(w)
    \/ Repeat(w)
    \/ Break(w)
    \/ MarkFailed(w)
    \/ AnswerFailed(w)
    \/ Return(w)
    \/ Abandon(w)

LedgerSpec == LedgerInit /\ [][LedgerNext]_<<ledger, calls>>
=============================================================================
