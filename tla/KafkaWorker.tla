---------------------------- MODULE KafkaWorker ----------------------------
(***************************************************************************)
(* The loop of KafkaWorker.run with the WorkerMessageRouter it dispatches  *)
(* to: the members of one consumer group read the single partition of the  *)
(* events topic, hand every message to process_event, publish what cannot  *)
(* be processed to the dead letter topic, and commit offsets themselves.   *)
(*                                                                         *)
(* process_event is the one of EventLedger.  The consumer group is Kafka's *)
(* and modelled from how the consumer is configured in main.py: one member *)
(* owns the partition, a new owner starts at the committed offset, and the *)
(* commit of a member that lost the partition changes nothing.             *)
(*                                                                         *)
(* An operator whose name starts with Faulty is the one below it with a    *)
(* mistake: a property is shown to notice the mistake when it is put in.   *)
(***************************************************************************)
EXTENDS EventLedger, Integers, Sequences, FiniteSets

CONSTANTS
  Log,            \* the messages of the partition: events or Malformed
  Malformed,      \* a message that EventMapper refuses
  NoWorker,       \* nobody owns the partition
  MaxFaults,      \* bound: crashes and failures of Kafka, the database or an attempt
  MaxRebalances,  \* bound: moves of the partition from a live member
  MaxStops        \* bound: calls of stop

ASSUME LogAssumption ==
  /\ Malformed \notin Event
  /\ Log \in Seq(Event \cup {Malformed})
  /\ NoWorker \notin Worker
ASSUME KafkaBounds == MaxFaults \in Nat /\ MaxRebalances \in Nat /\ MaxStops \in Nat

VARIABLES
  committed,   \* the group's offset: how many messages need not be read again
  owner,       \* the member the partition is assigned to
  deadLetters, \* the offsets of the messages in the dead letter topic
  phase,       \* where each worker is in its loop
  position,    \* how many messages the consumer of each worker has passed
  current,     \* the offset of the message each worker handles
  stopping,    \* the workers whose _is_running is false
  cutShort,    \* history: the offsets whose handling ended in an error or a crash
  faults, rebalances, stops

kafka == <<committed, owner, deadLetters>>
loop == <<phase, position, current, stopping, cutShort>>
service == <<ledger, calls>>
counters == <<faults, rebalances, stops>>
vars == <<kafka, loop, service, counters>>

Offset == 1 .. Len(Log)
Phase == {"down", "polling", "dispatching", "calling", "publishing", "committing"}

Up(w) == phase[w] # "down"
OneFault == faults < MaxFaults /\ faults' = faults + 1 /\ UNCHANGED <<rebalances, stops>>

\* Worker w goes from one phase to another and does nothing else to its loop.
Goes(w, from, to) ==
  /\ phase[w] = from
  /\ phase' = [phase EXCEPT ![w] = to]
  /\ UNCHANGED <<position, current, stopping, cutShort>>

\* The iteration of worker w raises: the loop logs it, sleeps and goes on to the
\* next message, nothing seeks back to this one.
GivesUp(w, from) ==
  /\ phase[w] = from
  /\ phase' = [phase EXCEPT ![w] = "polling"]
  /\ cutShort' = cutShort \cup {current[w]}
  /\ UNCHANGED <<position, current, stopping>>

\* Worker w leaves the group for good.
Leave(w) ==
  /\ phase' = [phase EXCEPT ![w] = "down"]
  /\ owner' = IF owner = w THEN NoWorker ELSE owner

-----------------------------------------------------------------------------
(* The process and the consumer group *)

\* main: a new consumer joins the group.
Start(w) ==
  /\ ~Up(w)
  /\ phase' = [phase EXCEPT ![w] = "polling"]
  /\ stopping' = stopping \ {w}
  /\ UNCHANGED <<position, current, cutShort, kafka, service, counters>>

\* The group gives the partition to w; its consumer fetches the committed offset.
TakeOver(w) ==
  /\ Up(w)
  /\ owner' = w
  /\ position' = [position EXCEPT ![w] = committed]
  /\ UNCHANGED <<committed, deadLetters, phase, current, stopping, cutShort, service>>

Assign(w) == owner = NoWorker /\ TakeOver(w) /\ UNCHANGED counters

\* A rebalance or a session timeout takes the partition from a live owner.
Rebalance(w) ==
  /\ owner \notin {w, NoWorker}
  /\ rebalances < MaxRebalances
  /\ rebalances' = rebalances + 1
  /\ TakeOver(w)
  /\ UNCHANGED <<faults, stops>>

\* SIGTERM: stop only clears the flag.
Stop(w) ==
  /\ Up(w) /\ w \notin stopping
  /\ stops < MaxStops
  /\ stops' = stops + 1
  /\ stopping' = stopping \cup {w}
  /\ UNCHANGED <<phase, position, current, cutShort, kafka, service, faults, rebalances>>

Crash(w) ==
  /\ Up(w)
  /\ OneFault
  /\ Leave(w)
  /\ calls' = [v \in Calling \ {w} |-> calls[v]]
  /\ cutShort' = IF phase[w] = "polling" THEN cutShort ELSE cutShort \cup {current[w]}
  /\ UNCHANGED <<committed, deadLetters, position, current, stopping, ledger>>

-----------------------------------------------------------------------------
(* One iteration of the loop *)

HasNext(w) == phase[w] = "polling" /\ owner = w /\ position[w] < Len(Log)

\* The consumer yields the next message and has thereby passed it.
Fetch(w) ==
  /\ HasNext(w) /\ w \notin stopping
  /\ phase' = [phase EXCEPT ![w] = "dispatching"]
  /\ position' = [position EXCEPT ![w] = @ + 1]
  /\ current' = [current EXCEPT ![w] = position[w] + 1]
  /\ UNCHANGED <<stopping, cutShort, kafka, service, counters>>

\* The consumer commits what it has passed when it is stopped.
FaultyLeaveLoop(w) ==
  /\ HasNext(w) /\ w \in stopping
  /\ Leave(w)
  /\ position' = [position EXCEPT ![w] = @ + 1]
  /\ committed' = position'[w]
  /\ UNCHANGED <<deadLetters, current, stopping, cutShort, service, counters>>

\* The consumer is not stopped when the loop ends.
FaultyStayInGroup(w) ==
  /\ HasNext(w) /\ w \in stopping
  /\ phase' = [phase EXCEPT ![w] = "down"]
  /\ position' = [position EXCEPT ![w] = @ + 1]
  /\ UNCHANGED <<kafka, current, stopping, cutShort, service, counters>>

\* The flag is read only when a message comes; the loop is left without a
\* commit and main stops the consumer.
LeaveLoop(w) ==
  /\ HasNext(w) /\ w \in stopping
  /\ Leave(w)
  /\ position' = [position EXCEPT ![w] = @ + 1]
  /\ UNCHANGED <<committed, deadLetters, current, stopping, cutShort, service, counters>>

\* EventMapper.to_raw_event raises for the message at offset n.
Refused(n) == Log[n] = Malformed

\* _handle_cdp_event: a message that cannot be mapped goes to the dead letters.
MappingFails(w) ==
  /\ Goes(w, "dispatching", "publishing")
  /\ Refused(current[w])
  /\ UNCHANGED <<kafka, service, counters>>

CallService(w) ==
  /\ Goes(w, "dispatching", "calling")
  /\ ~Refused(current[w])
  /\ ProcessEvent(w, Log[current[w]])
  /\ UNCHANGED <<kafka, counters>>

ServiceWorks(w) ==
  /\ Record(w) \/ Repeat(w) \/ MarkFailed(w)
  /\ UNCHANGED <<kafka, loop, counters>>

ServiceFails(w) ==
  /\ RecordUnanswered(w) \/ Break(w) \/ AnswerFailed(w)
  /\ OneFault
  /\ UNCHANGED <<kafka, loop>>

\* An event that can never enter the ledger: the database refuses it, or an
\* error nobody expects leaves process_event.
Poisonous(e) == Verdicts[e] = {}

ServiceRefuses(w) ==
  /\ w \in Calling /\ Poisonous(calls[w].event)
  /\ \/ Break(w) /\ UNCHANGED loop
     \/ Abandon(w) /\ GivesUp(w, "calling")
  /\ UNCHANGED <<kafka, counters>>

\* What _handle_cdp_event does with an outcome it does not raise for.
AfterOutcome(s) == IF s = "sent_to_dlq" THEN "publishing" ELSE "committing"

\* process_event is not awaited.
FaultyHandleOutcome(w) ==
  /\ Goes(w, "calling", AfterOutcome("processed"))
  /\ UNCHANGED <<service, kafka, counters>>

\* What cannot be processed goes to the dead letters.
FaultyRetry(w) ==
  /\ Return(w)
  /\ Goes(w, "calling", IF calls[w].answer = "failed" THEN "publishing"
                        ELSE AfterOutcome(calls[w].answer))
  /\ UNCHANGED <<kafka, counters>>

\* FAILED raises ProcessingRetryError.
HandleOutcome(w) ==
  /\ Return(w)
  /\ IF calls[w].answer = "failed" THEN GivesUp(w, "calling")
     ELSE Goes(w, "calling", AfterOutcome(calls[w].answer))
  /\ UNCHANGED <<kafka, counters>>

Publish(w) ==
  /\ Goes(w, "publishing", "committing")
  /\ deadLetters' = deadLetters \cup {current[w]}
  /\ UNCHANGED <<committed, owner, service, counters>>

\* send_and_wait raises, before or after the broker took the message.
PublishFails(w) ==
  /\ GivesUp(w, "publishing")
  /\ OneFault
  /\ deadLetters' \in {deadLetters, deadLetters \cup {current[w]}}
  /\ UNCHANGED <<committed, owner, service>>

\* The offset of the handled message is committed.
FaultyCommitOffset(w) ==
  /\ Goes(w, "committing", "polling")
  /\ committed' = IF owner = w THEN current[w] ELSE committed
  /\ UNCHANGED <<owner, deadLetters, service, counters>>

\* consumer.commit() commits the position of the partition, if it is assigned.
CommitOffset(w) ==
  /\ Goes(w, "committing", "polling")
  /\ committed' = IF owner = w THEN position[w] ELSE committed
  /\ UNCHANGED <<owner, deadLetters, service, counters>>

\* commit() raises, before or after the broker stored the offset.
CommitFails(w) ==
  /\ GivesUp(w, "committing")
  /\ OneFault
  /\ committed' \in {committed, IF owner = w THEN position[w] ELSE committed}
  /\ UNCHANGED <<owner, deadLetters, service>>

\* Every message was read and the consumers wait for more.
Drained == owner # NoWorker /\ phase[owner] = "polling" /\ position[owner] = Len(Log)

Waiting ==
  /\ Drained
  /\ \A w \in Worker : phase[w] = "polling"
  /\ UNCHANGED vars

-----------------------------------------------------------------------------
Init ==
  /\ LedgerInit
  /\ committed = 0
  /\ owner = NoWorker
  /\ deadLetters = {}
  /\ phase = [w \in Worker |-> "down"]
  /\ position = [w \in Worker |-> 0]
  /\ current = [w \in Worker |-> 0]
  /\ stopping = {}
  /\ cutShort = {}
  /\ faults = 0 /\ rebalances = 0 /\ stops = 0

\* What the loop, the service and the brokers do without being asked.
Progress(w) ==
  \/ Assign(w)
  \/ Fetch(w)
  \/ LeaveLoop(w)
  \/ MappingFails(w)
  \/ CallService(w)
  \/ ServiceWorks(w)
  \/ ServiceRefuses(w)
  \/ HandleOutcome(w)
  \/ Publish(w)
  \/ CommitOffset(w)

Next ==
  \/ \E w \in Worker :
       \/ Progress(w)
       \/ Start(w)
       \/ Rebalance(w)
       \/ Stop(w)
       \/ Crash(w)
       \/ ServiceFails(w)
       \/ PublishFails(w)
       \/ CommitFails(w)
  \/ Waiting

Spec == Init /\ [][Next]_vars

\* The event loop runs the worker, database and brokers answer, and the group
\* assigns a partition nobody owns.  No supervisor has to restart a worker.
FairSpec == Spec /\ \A w \in Worker : WF_vars(Progress(w))

-----------------------------------------------------------------------------
\* Offsets, phases and calls have the shape the loop gives them: a worker
\* waits for process_event exactly while it is in that phase.
TypeOK ==
  /\ ledger \in [DOMAIN ledger -> Status] /\ DOMAIN ledger \subseteq Event
  /\ calls \in [Calling -> Call] /\ Calling = {w \in Worker : phase[w] = "calling"}
  /\ committed \in 0 .. Len(Log)
  /\ owner \in Worker \cup {NoWorker}
  /\ deadLetters \subseteq Offset
  /\ phase \in [Worker -> Phase]
  /\ position \in [Worker -> 0 .. Len(Log)]
  /\ current \in [Worker -> Offset \cup {0}]
  /\ \A w \in Worker : phase[w] \notin {"down", "polling"} => current[w] \in Offset
  /\ stopping \subseteq Worker /\ cutShort \subseteq Offset
  /\ faults \in 0 .. MaxFaults /\ rebalances \in 0 .. MaxRebalances /\ stops \in 0 .. MaxStops

\* Worker w is at work on the message at offset n or on a copy of it.
InHand(n) ==
  \E w \in Worker :
    /\ phase[w] \in {"dispatching", "calling", "publishing"}
    /\ Log[current[w]] = Log[n]

\* The message at offset n, or a copy of it, came to the end meant for it.
Settled(n) ==
  LET copies == {m \in Offset : Log[m] = Log[n]}
      status == ledger[Log[n]]
  IN IF Refused(n) THEN n \in deadLetters
     ELSE /\ Log[n] \in DOMAIN ledger
          /\ \/ status \in {"processed", "ignored_anonymous"}
             \/ status = "sent_to_dlq" /\ copies \cap deadLetters # {}

\* The messages the group will not read again although nothing settled them.
Skipped == {n \in 1 .. committed : ~Settled(n) /\ ~InHand(n)}

\* Rebalances, stops, restarts and duplicates in the topic lose no message: one
\* that nobody will read again although it came to no end had its own handling
\* cut short, by an error the loop logged or by a crash.
SkippedWasCutShort == \A n \in Skipped : \E m \in cutShort : Log[m] = Log[n]

\* Only refused messages are dead letters, also when two members handle one
\* message or a commit whose answer was lost is repeated: a processed event
\* is never published as one that could not be processed.
DeadLettersAreRefused ==
  \A n \in deadLetters :
    ~Refused(n) =>
      Log[n] \in DOMAIN ledger /\ ledger[Log[n]] \in {"sent_to_dlq", "failed"}

\* A member that lost the partition and finishes its message late, or got the
\* partition back meanwhile, never moves the group's offset backwards.
CommittedOnlyAdvances == [][committed' >= committed]_vars

\* While one worker stays up every message is read, whoever else crashes or is
\* stopped, and each is committed unless its handling was cut short: a message that
\* can never be processed does not hold up the ones behind it.
BacklogIsDrained ==
  \A w \in Worker :
    <>[](Up(w) /\ w \notin stopping)
      => <>[](Drained /\ \A n \in Offset : n \in cutShort \/ committed >= n)

-----------------------------------------------------------------------------
(* What a comment or a test says and the code does not do *)

\* handlers.py and worker.py: a message whose processing failed is retried, its
\* offset is not committed.
FailedIsNotCommitted ==
  \A n \in 1 .. committed :
    ~Refused(n) /\ ~InHand(n) =>
      Log[n] \in DOMAIN ledger /\ ledger[Log[n]] # "failed"

\* test_dlq_routing.py, test_offset_not_committed_if_dlq_publish_fails: the
\* offset of a refused message is committed only when its dead letter exists.
UnpublishedIsNotCommitted ==
  \A n \in 1 .. committed :
    Log[n] \in DOMAIN ledger /\ ledger[Log[n]] = "sent_to_dlq" /\ ~InHand(n) =>
      \E m \in deadLetters : Log[m] = Log[n]
=============================================================================
