---------------------------- MODULE KafkaProofs ----------------------------
(***************************************************************************)
(* Theorems about KafkaWorker for every log, every number of members and   *)
(* every bound: type correctness, that the group's offset never goes back, *)
(* that only refused messages become dead letters, and that a message is   *)
(* only lost when its handling is cut short.                               *)
(***************************************************************************)
EXTENDS KafkaWorker, TLAPS

-----------------------------------------------------------------------------
(* The calls of process_event *)

Ledgers == ledger \in [DOMAIN ledger -> Status] /\ DOMAIN ledger \subseteq Event
Calls == calls \in [Calling -> Call]

\* An answered or broken call stays a call of the same worker.
LEMMA CallChanges ==
  ASSUME Calls, NEW w \in Calling, NEW s \in Status, Answer(w, s) \/ LoseTransaction(w)
  PROVE  Calling' = Calling /\ Calls'
BY DEF Calls, Calling, Call, Stage, Answer, LoseTransaction

\* A call that returns, or never does, is one call less.
LEMMA CallEnds ==
  ASSUME Calls, NEW w, calls' = Drop(calls, w)
  PROVE  Calling' = Calling \ {w} /\ Calls'
BY DEF Calls, Calling, Call, Drop

LEMMA CallBegins ==
  ASSUME Calls, NEW w, NEW e \in Event, ProcessEvent(w, e)
  PROVE  Calling' = Calling \cup {w} /\ Calls'
BY DEF Calls, Calling, Call, Put, ProcessEvent, NewCall, Stage, Status

LEMMA EntryType ==
  ASSUME Ledgers, Calls, NEW w, NEW s \in Status, Enter(w, s)
  PROVE  Ledgers'
BY DEF Ledgers, Calls, Call, Calling, Enter, InStage, Put, Status

\* What the service does on its own keeps ledger, calls and callers in shape.
LEMMA ServiceStep ==
  ASSUME Ledgers, Calls, NEW w,
         Record(w) \/ Repeat(w) \/ MarkFailed(w) \/ RecordUnanswered(w) \/ Break(w)
           \/ AnswerFailed(w)
  PROVE  Calling' = Calling /\ Ledgers' /\ Calls'
<1>1. CASE Record(w)
  <2>1. PICK s \in Status : Enter(w, s) /\ Answer(w, s)
    BY <1>1 DEF Record
  <2>2. w \in Calling
    BY <2>1 DEF Enter, InStage
  <2>3. QED
    BY <2>1, <2>2, EntryType, CallChanges
<1>2. CASE RecordUnanswered(w)
  <2>1. PICK s \in Status : Enter(w, s) /\ LoseTransaction(w)
    BY <1>2 DEF RecordUnanswered
  <2>2. w \in Calling
    BY <2>1 DEF Enter, InStage
  <2>3. QED
    BY <2>1, <2>2, EntryType, CallChanges
<1>3. CASE Repeat(w) \/ Break(w) \/ AnswerFailed(w)
  <2>1. \E s \in Status : w \in Calling /\ (Answer(w, s) \/ LoseTransaction(w))
    BY <1>3 DEF Repeat, Break, AnswerFailed, InStage, Status
  <2>2. Calling' = Calling /\ Calls'
    BY <2>1, CallChanges
  <2>3. Ledgers'
    BY <1>3 DEF Repeat, Break, AnswerFailed, Ledgers
  <2>4. QED
    BY <2>2, <2>3
<1>4. CASE MarkFailed(w)
  <2>1. w \in Calling /\ Answer(w, "failed") /\ "failed" \in Status
    BY <1>4 DEF MarkFailed, InStage, Status
  <2>2. Calling' = Calling /\ Calls'
    BY <2>1, CallChanges
  <2>3. Ledgers'
    BY <1>4 DEF MarkFailed, Ledgers, Status
  <2>4. QED
    BY <2>2, <2>3
<1>5. QED
  BY <1>1, <1>2, <1>3, <1>4

-----------------------------------------------------------------------------
(* Type correctness *)

\* Who waits for an answer, and what the loop and the group keep.
Callers == Calling = {w \in Worker : phase[w] = "calling"}
Loops ==
  /\ phase \in [Worker -> Phase]
  /\ position \in [Worker -> 0 .. Len(Log)]
  /\ current \in [Worker -> Offset \cup {0}]
  /\ \A w \in Worker : phase[w] \notin {"down", "polling"} => current[w] \in Offset
  /\ stopping \subseteq Worker /\ cutShort \subseteq Offset
Group ==
  /\ committed \in 0 .. Len(Log)
  /\ owner \in Worker \cup {NoWorker}
  /\ deadLetters \subseteq Offset
Counters == faults \in 0 .. MaxFaults /\ rebalances \in 0 .. MaxRebalances /\ stops \in 0 .. MaxStops

LEMMA TypeParts ==
  TypeOK <=> Ledgers /\ Calls /\ Callers /\ Loops /\ Group /\ Counters
BY DEF TypeOK, Ledgers, Calls, Callers, Loops, Group, Counters

LEMMA TypePartsNext ==
  Ledgers' /\ Calls' /\ Callers' /\ Loops' /\ Group' /\ Counters' => TypeOK'
BY DEF TypeOK, Ledgers, Calls, Callers, Loops, Group, Counters

LEMMA OffsetFacts == Len(Log) \in Nat /\ Offset \subseteq 1 .. Len(Log) /\ Offset \subseteq Nat
BY LogAssumption DEF Offset

\* An action counts at most one fault, rebalance or stop, within its bound.
LEMMA CounterStep ==
  ASSUME Counters,
         \/ UNCHANGED counters
         \/ OneFault
         \/ rebalances < MaxRebalances /\ rebalances' = rebalances + 1 /\ UNCHANGED <<faults, stops>>
         \/ stops < MaxStops /\ stops' = stops + 1 /\ UNCHANGED <<faults, rebalances>>
  PROVE  Counters'
BY KafkaBounds DEF Counters, counters, OneFault

\* A worker at work goes on to another phase, or gives its message up.
LEMMA LoopStep ==
  ASSUME Loops, NEW w \in Worker, NEW from \in Phase \ {"down", "polling"},
         \/ GivesUp(w, from)
         \/ \E to \in Phase : Goes(w, from, to)
  PROVE  Loops'
BY OffsetFacts DEF Loops, GivesUp, Goes, Phase

LEMMA CallersStay ==
  ASSUME Callers, Loops, Calling' = Calling, NEW w \in Worker,
         NEW from \in Phase \ {"calling"}, NEW to \in Phase \ {"calling"},
         phase[w] = from, phase' = [phase EXCEPT ![w] = to]
  PROVE  Callers'
BY DEF Callers, Loops

LEMMA CallersLeave ==
  ASSUME Callers, Loops, NEW w \in Worker, Calling' = Calling \ {w},
         NEW to \in Phase \ {"calling"}, phase' = [phase EXCEPT ![w] = to]
  PROVE  Callers'
BY DEF Callers, Loops

LEMMA TypeInit == Init => TypeOK
<1> SUFFICES ASSUME Init PROVE TypeOK
  OBVIOUS
<1>1. Ledgers /\ Calls /\ Callers
  BY DEF Init, LedgerInit, Ledgers, Calls, Callers, Calling
<1>2. Loops /\ Group
  BY OffsetFacts DEF Init, Loops, Group, Phase
<1>3. Counters
  BY KafkaBounds DEF Init, Counters
<1>4. QED
  BY <1>1, <1>2, <1>3, TypeParts

LEMMA TypeNext == TypeOK /\ [Next]_vars => TypeOK'
<1> SUFFICES ASSUME TypeOK, [Next]_vars PROVE TypeOK'
  OBVIOUS
<1>a. Ledgers /\ Calls /\ Callers /\ Loops /\ Group /\ Counters
  BY TypeParts
<1> USE <1>a
<1>0. ASSUME UNCHANGED <<ledger, calls>>, UNCHANGED <<phase>>
      PROVE  Ledgers' /\ Calls' /\ Callers'
  BY <1>0 DEF Ledgers, Calls, Callers, Calling
<1>1. ASSUME NEW w \in Worker, Assign(w) \/ Rebalance(w) PROVE TypeOK'
  <2>1. TakeOver(w)
    BY <1>1 DEF Assign, Rebalance
  <2>2. Ledgers' /\ Calls' /\ Callers'
    BY <1>0, <2>1 DEF TakeOver, service
  <2>3. Loops' /\ Group'
    BY <2>1 DEF TakeOver, Loops, Group
  <2>4. Counters'
    BY <1>1, CounterStep DEF Assign, Rebalance
  <2>5. QED
    BY <2>2, <2>3, <2>4, TypePartsNext
<1>2. ASSUME NEW w \in Worker, Fetch(w) PROVE TypeOK'
  <2>1. Ledgers' /\ Calls' /\ Callers'
    BY <1>2, CallersStay DEF Fetch, HasNext, service, Ledgers, Calls, Calling, Phase
  <2>2. position[w] \in 0 .. Len(Log) /\ position[w] < Len(Log)
    BY <1>2 DEF Fetch, HasNext, Loops
  <2>3. position[w] + 1 \in 0 .. Len(Log) /\ position[w] + 1 \in Offset
    BY <2>2, OffsetFacts DEF Offset
  <2>4. Loops'
    BY <1>2, <2>3 DEF Fetch, Loops, Phase
  <2>5. Group' /\ Counters'
    BY <1>2 DEF Fetch, Group, Counters, kafka, counters
  <2>6. QED
    BY <2>1, <2>4, <2>5, TypePartsNext
<1>3. ASSUME NEW w \in Worker, LeaveLoop(w) PROVE TypeOK'
  <2>1. Ledgers' /\ Calls' /\ Callers'
    BY <1>3, CallersStay DEF LeaveLoop, HasNext, Leave, service, Ledgers, Calls, Calling, Phase
  <2>2. position[w] \in 0 .. Len(Log) /\ position[w] < Len(Log)
    BY <1>3 DEF LeaveLoop, HasNext, Loops
  <2>3. position[w] + 1 \in 0 .. Len(Log)
    BY <2>2, OffsetFacts
  <2>4. Loops'
    BY <1>3, <2>3 DEF LeaveLoop, Leave, Loops, Phase
  <2>5. Group' /\ Counters'
    BY <1>3 DEF LeaveLoop, Leave, Group, Counters, counters
  <2>6. QED
    BY <2>1, <2>4, <2>5, TypePartsNext
<1>4. ASSUME NEW w \in Worker, MappingFails(w) PROVE TypeOK'
  <2>1. Ledgers' /\ Calls' /\ Callers'
    BY <1>4, CallersStay DEF MappingFails, Goes, service, Ledgers, Calls, Calling, Phase
  <2>2. Loops'
    BY <1>4, LoopStep DEF MappingFails, Phase
  <2>3. Group' /\ Counters'
    BY <1>4 DEF MappingFails, Group, Counters, kafka, counters
  <2>4. QED
    BY <2>1, <2>2, <2>3, TypePartsNext
<1>5. ASSUME NEW w \in Worker, CallService(w) PROVE TypeOK'
  <2>1. current[w] \in 1 .. Len(Log) /\ Log[current[w]] # Malformed
    BY <1>5 DEF CallService, Goes, Refused, Loops, Offset
  <2>2. Log[current[w]] \in Event
    BY <2>1, LogAssumption
  <2>3. Calling' = Calling \cup {w} /\ Calls'
    BY <1>5, <2>2, CallBegins DEF CallService
  <2>4. Ledgers' /\ Callers'
    BY <1>5, <2>3 DEF CallService, ProcessEvent, Goes, Ledgers, Callers, Loops
  <2>5. Loops'
    BY <1>5, LoopStep DEF CallService, Phase
  <2>6. Group' /\ Counters'
    BY <1>5 DEF CallService, Group, Counters, kafka, counters
  <2>7. QED
    BY <2>3, <2>4, <2>5, <2>6, TypePartsNext
<1>6. ASSUME NEW w \in Worker, ServiceWorks(w) \/ ServiceFails(w) PROVE TypeOK'
  <2>1. Calling' = Calling /\ Ledgers' /\ Calls'
    BY <1>6, ServiceStep DEF ServiceWorks, ServiceFails
  <2>2. Callers' /\ Loops' /\ Group'
    BY <1>6, <2>1 DEF ServiceWorks, ServiceFails, Callers, Loops, Group, loop, kafka
  <2>3. Counters'
    BY <1>6, CounterStep DEF ServiceWorks, ServiceFails
  <2>4. QED
    BY <2>1, <2>2, <2>3, TypePartsNext
<1>7. ASSUME NEW w \in Worker, ServiceRefuses(w) PROVE TypeOK'
  <2>1. Group' /\ Counters'
    BY <1>7 DEF ServiceRefuses, Group, Counters, kafka, counters
  <2>2. CASE Break(w) /\ UNCHANGED loop
    <3>1. Calling' = Calling /\ Ledgers' /\ Calls'
      BY <2>2, ServiceStep
    <3>2. Callers' /\ Loops'
      BY <2>2, <3>1 DEF Callers, Loops, loop
    <3>3. QED
      BY <2>1, <3>1, <3>2, TypePartsNext
  <2>3. CASE Abandon(w) /\ GivesUp(w, "calling")
    <3>1. Calling' = Calling \ {w} /\ Calls' /\ Ledgers'
      BY <2>3, CallEnds DEF Abandon, Ledgers
    <3>2. Callers'
      BY <2>3, <3>1, CallersLeave DEF GivesUp, Phase
    <3>3. Loops'
      BY <2>3, LoopStep DEF Phase
    <3>4. QED
      BY <2>1, <3>1, <3>2, <3>3, TypePartsNext
  <2>4. QED
    BY <1>7, <2>2, <2>3 DEF ServiceRefuses
<1>8. ASSUME NEW w \in Worker, HandleOutcome(w) PROVE TypeOK'
  <2>1. Calling' = Calling \ {w} /\ Calls' /\ Ledgers'
    BY <1>8, CallEnds DEF HandleOutcome, Return, Ledgers
  <2>2. \E to \in {"polling", "publishing", "committing"} :
          \/ GivesUp(w, "calling") /\ to = "polling"
          \/ Goes(w, "calling", to)
    BY <1>8 DEF HandleOutcome, AfterOutcome
  <2>3. Callers'
    BY <2>1, <2>2, CallersLeave DEF GivesUp, Goes, Phase
  <2>4. Loops'
    BY <2>2, LoopStep DEF Phase
  <2>5. Group' /\ Counters'
    BY <1>8 DEF HandleOutcome, Group, Counters, kafka, counters
  <2>6. QED
    BY <2>1, <2>3, <2>4, <2>5, TypePartsNext
<1>9. ASSUME NEW w \in Worker,
             Publish(w) \/ PublishFails(w) \/ CommitOffset(w) \/ CommitFails(w)
      PROVE  TypeOK'
  <2>1. \E from \in {"publishing", "committing"}, to \in {"committing", "polling"} :
          \/ GivesUp(w, from) /\ to = "polling"
          \/ Goes(w, from, to)
    BY <1>9 DEF Publish, PublishFails, CommitOffset, CommitFails
  <2>2. Ledgers' /\ Calls' /\ Calling' = Calling
    BY <1>9 DEF Publish, PublishFails, CommitOffset, CommitFails, service, Ledgers, Calls, Calling
  <2>3. Callers'
    BY <2>1, <2>2, CallersStay DEF GivesUp, Goes, Phase
  <2>4. Loops'
    BY <2>1, LoopStep DEF Phase
  <2>5. current[w] \in Offset
    BY <2>1 DEF GivesUp, Goes, Loops
  <2>6. Group'
    BY <1>9, <2>5 DEF Publish, PublishFails, CommitOffset, CommitFails, kafka, Group, Loops
  <2>7. Counters'
    BY <1>9, CounterStep DEF Publish, PublishFails, CommitOffset, CommitFails, counters
  <2>8. QED
    BY <2>2, <2>3, <2>4, <2>6, <2>7, TypePartsNext
<1>10. ASSUME NEW w \in Worker, Start(w) PROVE TypeOK'
  <2>1. Ledgers' /\ Calls' /\ Callers'
    BY <1>10, CallersStay DEF Start, Up, service, Ledgers, Calls, Calling, Phase
  <2>2. Loops' /\ Group' /\ Counters'
    BY <1>10 DEF Start, Loops, Group, Counters, kafka, counters, Phase
  <2>3. QED
    BY <2>1, <2>2, TypePartsNext
<1>11. ASSUME NEW w \in Worker, Stop(w) PROVE TypeOK'
  <2>1. Ledgers' /\ Calls' /\ Callers'
    BY <1>11, <1>0 DEF Stop, service
  <2>2. Loops' /\ Group'
    BY <1>11 DEF Stop, Loops, Group, kafka
  <2>3. Counters'
    BY <1>11, CounterStep DEF Stop
  <2>4. QED
    BY <2>1, <2>2, <2>3, TypePartsNext
<1>12. ASSUME NEW w \in Worker, Crash(w) PROVE TypeOK'
  <2>1. calls' = Drop(calls, w)
    BY <1>12 DEF Crash, Drop, Calling
  <2>2. Calling' = Calling \ {w} /\ Calls' /\ Ledgers'
    BY <1>12, <2>1, CallEnds DEF Crash, Ledgers
  <2>3. Callers'
    BY <1>12, <2>2, CallersLeave DEF Crash, Leave, Phase
  <2>4. cutShort' \subseteq Offset
    BY <1>12 DEF Crash, Up, Loops
  <2>5. Loops' /\ Group'
    BY <1>12, <2>4 DEF Crash, Leave, Loops, Group, Phase
  <2>6. Counters'
    BY <1>12, CounterStep DEF Crash
  <2>7. QED
    BY <2>2, <2>3, <2>5, <2>6, TypePartsNext
<1>13. CASE UNCHANGED vars
  BY <1>13 DEF vars, kafka, loop, service, counters, TypeOK, Calling
<1>14. QED
  BY <1>1, <1>2, <1>3, <1>4, <1>5, <1>6, <1>7, <1>8, <1>9, <1>10, <1>11, <1>12, <1>13
     DEF Next, Progress, Waiting

\* TypeOK: offsets, phases and calls keep their shape, and a worker waits for
\* process_event exactly while its loop awaits it.
THEOREM TypeCorrect == Spec => []TypeOK
BY TypeInit, TypeNext, PTL DEF Spec

-----------------------------------------------------------------------------
(* The offset of the group *)

\* The member that owns the partition has passed every committed message.
OwnerAhead == owner \in Worker => committed <= position[owner]

LEMMA OwnerInit == Init => OwnerAhead
BY LogAssumption DEF Init, OwnerAhead

\* Each step keeps the owner ahead and the offset where it is or moves it on.
LEMMA OwnerNext ==
  TypeOK /\ OwnerAhead /\ [Next]_vars => OwnerAhead' /\ committed' >= committed
<1> SUFFICES ASSUME TypeOK, OwnerAhead, [Next]_vars
             PROVE  OwnerAhead' /\ committed' >= committed
  OBVIOUS
<1>a. /\ committed \in Nat
      /\ \A w \in Worker : position[w] \in Nat
      /\ position \in [Worker -> 0 .. Len(Log)]
      /\ phase \in [Worker -> Phase]
      /\ NoWorker \notin Worker
  BY OffsetFacts, LogAssumption DEF TypeOK
<1>1. ASSUME NEW w \in Worker, Assign(w) \/ Rebalance(w)
      PROVE  OwnerAhead' /\ committed' >= committed
  BY <1>1, <1>a DEF Assign, Rebalance, TakeOver, OwnerAhead
<1>2. ASSUME NEW w \in Worker, Fetch(w) PROVE OwnerAhead' /\ committed' >= committed
  BY <1>2, <1>a DEF Fetch, HasNext, OwnerAhead, kafka
<1>3. ASSUME NEW w \in Worker, LeaveLoop(w) PROVE OwnerAhead' /\ committed' >= committed
  BY <1>3, <1>a DEF LeaveLoop, HasNext, Leave, OwnerAhead
<1>4. ASSUME NEW w \in Worker, Crash(w) PROVE OwnerAhead' /\ committed' >= committed
  BY <1>4, <1>a DEF Crash, Leave, OwnerAhead
<1>5. ASSUME NEW w \in Worker, CommitOffset(w) \/ CommitFails(w)
      PROVE  OwnerAhead' /\ committed' >= committed
  BY <1>5, <1>a DEF CommitOffset, CommitFails, Goes, GivesUp, OwnerAhead
<1>6. CASE UNCHANGED <<committed, owner, position>>
  BY <1>6, <1>a DEF OwnerAhead
<1>7. ASSUME NEW w \in Worker,
             \/ MappingFails(w) \/ CallService(w) \/ ServiceWorks(w) \/ ServiceRefuses(w)
             \/ HandleOutcome(w) \/ Publish(w) \/ Start(w) \/ Stop(w) \/ ServiceFails(w)
             \/ PublishFails(w)
      PROVE  UNCHANGED <<committed, owner, position>>
  BY <1>7 DEF MappingFails, CallService, ServiceWorks, ServiceRefuses, HandleOutcome,
              Publish, Start, Stop, ServiceFails, PublishFails, Goes, GivesUp, kafka, loop
<1>8. CASE UNCHANGED vars
  BY <1>8, <1>6 DEF vars, kafka, loop
<1>9. QED
  BY <1>1, <1>2, <1>3, <1>4, <1>5, <1>6, <1>7, <1>8 DEF Next, Progress, Waiting

\* CommittedOnlyAdvances: a member that lost the partition, finishes its message
\* late or gets the partition back never moves the group's offset backwards.
THEOREM OffsetAdvances == Spec => CommittedOnlyAdvances
<1>1. TypeOK /\ OwnerAhead /\ [Next]_vars => [committed' >= committed]_vars
  BY OwnerNext
<1>2. QED
  BY <1>1, TypeCorrect, OwnerInit, OwnerNext, PTL DEF Spec, CommittedOnlyAdvances
-----------------------------------------------------------------------------
(* Dead letters, and messages nobody reads again *)

Answered(v, s) == InStage(v, "answered") /\ calls[v].answer = s

\* Worker w is at work on the message at offset n.
Held(w, n) == current[w] = n /\ phase[w] \in {"dispatching", "calling", "publishing"}

\* The handling of a message like x was cut short.
Cut(x) == \E m \in cutShort : Log[m] = x

\* The handling of event e by worker v will be cut short: its attempt broke.
WillBeCut(v, e) ==
  v \in Calling /\ calls[v].event = e /\ (InStage(v, "broken") \/ Answered(v, "failed"))

\* Worker v will publish e, or fail to.
WillPublish(v, e) ==
  \/ v \in Calling /\ calls[v].event = e /\ Answered(v, "sent_to_dlq")
  \/ v \in Worker /\ phase[v] = "publishing" /\ Log[current[v]] = e

\* A call is about the current message of its worker, and its answer agrees with
\* the ledger; an answer may be overtaken by failed.
CallInv ==
  \A w \in Calling :
    /\ calls[w].event = Log[current[w]]
    /\ InStage(w, "answered") /\ calls[w].answer # "failed" =>
         calls[w].event \in DOMAIN ledger
    /\ Answered(w, "sent_to_dlq") => ledger[calls[w].event] \in {"sent_to_dlq", "failed"}

\* What is published is a message the mapper or the ledger refused.
PublishInv ==
  \A w \in Worker :
    phase[w] = "publishing" /\ ~Refused(current[w]) =>
      /\ Log[current[w]] \in DOMAIN ledger
      /\ ledger[Log[current[w]]] \in {"sent_to_dlq", "failed"}

\* A failed entry was cut short, or will be; a refused one may also have its
\* dead letter, or get it.
EntryInv ==
  \A e \in DOMAIN ledger :
    \/ ledger[e] \in {"processed", "ignored_anonymous"}
    \/ Cut(e)
    \/ \E v \in Worker : WillBeCut(v, e)
    \/ /\ ledger[e] = "sent_to_dlq"
       /\ \/ \E m \in deadLetters : Log[m] = e
          \/ \E v \in Worker : WillPublish(v, e)

\* What the group, or the member that owns the partition, has passed.
Passed(n) == n \in Offset /\ (n <= committed \/ (owner \in Worker /\ n <= position[owner]))

\* The handling of the message at n came to the ledger or to the dead letters.
Reached(n) == IF Refused(n) THEN n \in deadLetters ELSE Log[n] \in DOMAIN ledger

\* A message is only passed by handling it.
PassedInv ==
  \A n \in Offset :
    Passed(n) => Reached(n) \/ Cut(Log[n]) \/ \E w \in Worker : Held(w, n)

LossInv == CallInv /\ PublishInv /\ DeadLettersAreRefused /\ EntryInv /\ PassedInv

-----------------------------------------------------------------------------
(* What a step of one worker owes to the others *)

\* Nothing is taken back, and the other workers stay where they are.
Others(w) ==
  /\ \A v \in Worker \ {w} :
       /\ phase'[v] = phase[v] /\ current'[v] = current[v]
       /\ v \in Calling' <=> v \in Calling
       /\ v \in Calling => calls'[v] = calls[v]
  /\ deadLetters \subseteq deadLetters' /\ cutShort \subseteq cutShort'

\* The ledger keeps its entries, or the worker that will give an event up marks
\* it; a new entry is the one of its call.
Entries(w) ==
  /\ DOMAIN ledger \subseteq DOMAIN ledger'
  /\ \A e \in DOMAIN ledger :
       ledger'[e] = ledger[e] \/ (ledger'[e] = "failed" /\ WillBeCut(w, e)')
  /\ \A e \in DOMAIN ledger' \ DOMAIN ledger :
       \/ ledger'[e] \in {"processed", "ignored_anonymous"}
       \/ WillBeCut(w, e)'
       \/ ledger'[e] = "sent_to_dlq" /\ WillPublish(w, e)'

\* What worker w was going to do it still will, or it has done it.
Duties(w) ==
  /\ \A e : WillBeCut(w, e) => WillBeCut(w, e)' \/ Cut(e)'
  /\ \A e : WillPublish(w, e) =>
       WillPublish(w, e)' \/ Cut(e)' \/ \E m \in deadLetters' : Log[m] = e
  /\ \A n \in Offset : Held(w, n) => Held(w, n)' \/ Reached(n)' \/ Cut(Log[n])'

\* Nothing is passed that worker w does not hold.
Passes(w) == \A n : Passed(n)' => Passed(n) \/ Held(w, n)'

\* A new dead letter is the message worker w publishes.
Publishes(w) ==
  \A m \in deadLetters' \ deadLetters : phase[w] = "publishing" /\ current[w] = m

CallOK(w) ==
  w \in Calling =>
    /\ calls[w].event = Log[current[w]]
    /\ InStage(w, "answered") /\ calls[w].answer # "failed" =>
         calls[w].event \in DOMAIN ledger
    /\ Answered(w, "sent_to_dlq") => ledger[calls[w].event] \in {"sent_to_dlq", "failed"}

PublishOK(w) ==
  phase[w] = "publishing" /\ ~Refused(current[w]) =>
    /\ Log[current[w]] \in DOMAIN ledger
    /\ ledger[Log[current[w]]] \in {"sent_to_dlq", "failed"}

Due(w) ==
  /\ Others(w) /\ Entries(w) /\ Duties(w) /\ Passes(w) /\ Publishes(w)
  /\ CallOK(w)' /\ PublishOK(w)'

\* A step that pays what is due keeps every part of the invariant.
LEMMA DuePreserves ==
  ASSUME TypeOK, TypeOK', LossInv, NEW w \in Worker, Due(w)
  PROVE  LossInv'
<1> USE DEF LossInv
<1>a. /\ Calling \subseteq Worker /\ Calling' \subseteq Worker
      /\ Calling = {v \in Worker : phase[v] = "calling"}
      /\ deadLetters \subseteq Offset
      /\ DOMAIN ledger \subseteq Event
  BY DEF TypeOK
<1>b. Others(w) /\ Entries(w) /\ Duties(w) /\ Passes(w) /\ Publishes(w)
  BY DEF Due
<1>c. ASSUME NEW e \in DOMAIN ledger, ledger[e] \in {"sent_to_dlq", "failed"}
      PROVE  e \in DOMAIN ledger' /\ ledger'[e] \in {"sent_to_dlq", "failed"}
  BY <1>b, <1>c DEF Entries
<1>1. CallInv'
  <2> SUFFICES ASSUME NEW v \in Calling' PROVE CallOK(v)'
    BY DEF CallInv, CallOK
  <2>1. CASE v = w
    BY <2>1 DEF Due
  <2>2. CASE v # w
    <3>1. v \in Worker /\ v \in Calling /\ calls'[v] = calls[v] /\ current'[v] = current[v]
      BY <1>a, <1>b, <2>2 DEF Others
    <3>2. CallOK(v)
      BY <3>1 DEF CallInv, CallOK
    <3>3. calls[v].event \in DOMAIN ledger => calls[v].event \in DOMAIN ledger'
      BY <1>b DEF Entries
    <3>4. Answered(v, "sent_to_dlq") =>
            calls[v].event \in DOMAIN ledger /\ ledger[calls[v].event] \in {"sent_to_dlq", "failed"}
      BY <3>1, <3>2 DEF CallOK, Answered
    <3>5. QED
      BY <3>1, <3>2, <3>3, <3>4, <1>c DEF CallOK, Answered, InStage
  <2>3. QED
    BY <2>1, <2>2
<1>2. PublishInv'
  <2> SUFFICES ASSUME NEW v \in Worker PROVE PublishOK(v)'
    BY DEF PublishInv, PublishOK
  <2>1. CASE v = w
    BY <2>1 DEF Due
  <2>2. CASE v # w
    <3>1. phase'[v] = phase[v] /\ current'[v] = current[v] /\ PublishOK(v)
      BY <1>b, <2>2 DEF Others, PublishInv, PublishOK
    <3>2. QED
      BY <3>1, <1>c DEF PublishOK, Refused
  <2>3. QED
    BY <2>1, <2>2
<1>3. DeadLettersAreRefused'
  <2> SUFFICES ASSUME NEW m \in deadLetters', ~Refused(m)
               PROVE  Log[m] \in DOMAIN ledger' /\ ledger'[Log[m]] \in {"sent_to_dlq", "failed"}
    BY DEF DeadLettersAreRefused, Refused
  <2>1. Log[m] \in DOMAIN ledger /\ ledger[Log[m]] \in {"sent_to_dlq", "failed"}
    BY <1>b DEF Publishes, DeadLettersAreRefused, PublishInv
  <2>2. QED
    BY <2>1, <1>c
<1>4. EntryInv'
  <2> SUFFICES ASSUME NEW e \in DOMAIN ledger'
               PROVE  \/ ledger'[e] \in {"processed", "ignored_anonymous"}
                      \/ Cut(e)'
                      \/ \E v \in Worker : WillBeCut(v, e)'
                      \/ /\ ledger'[e] = "sent_to_dlq"
                         /\ \/ \E m \in deadLetters' : Log[m] = e
                            \/ \E v \in Worker : WillPublish(v, e)'
    BY DEF EntryInv
  <2>1. CASE e \notin DOMAIN ledger
    BY <2>1, <1>b DEF Entries
  <2>2. CASE e \in DOMAIN ledger /\ ledger'[e] # ledger[e]
    BY <2>2, <1>b DEF Entries
  <2>3. CASE e \in DOMAIN ledger /\ ledger'[e] = ledger[e]
    <3>1. Cut(e) => Cut(e)'
      BY <1>b DEF Others, Cut
    <3>2. ASSUME NEW v \in Worker, WillBeCut(v, e)
          PROVE  WillBeCut(v, e)' \/ Cut(e)'
      <4>1. CASE v = w
        BY <3>2, <4>1, <1>b DEF Duties
      <4>2. CASE v # w
        BY <3>2, <4>2, <1>b DEF Others, WillBeCut, InStage, Answered
      <4>3. QED
        BY <4>1, <4>2
    <3>3. ASSUME NEW v \in Worker, WillPublish(v, e)
          PROVE  WillPublish(v, e)' \/ Cut(e)' \/ \E m \in deadLetters' : Log[m] = e
      <4>1. CASE v = w
        BY <3>3, <4>1, <1>b DEF Duties
      <4>2. CASE v # w
        BY <3>3, <4>2, <1>b DEF Others, WillPublish, InStage, Answered
      <4>3. QED
        BY <4>1, <4>2
    <3>4. (\E m \in deadLetters : Log[m] = e) => \E m \in deadLetters' : Log[m] = e
      BY <1>b DEF Others
    <3>5. QED
      BY <2>3, <3>1, <3>2, <3>3, <3>4 DEF EntryInv
  <2>4. QED
    BY <2>1, <2>2, <2>3
<1>5. PassedInv'
  <2> SUFFICES ASSUME NEW n \in Offset, Passed(n)'
               PROVE  Reached(n)' \/ Cut(Log[n])' \/ \E v \in Worker : Held(v, n)'
    BY DEF PassedInv, Offset
  <2>1. CASE Held(w, n)'
    BY <2>1
  <2>2. CASE Passed(n)
    <3>1. Reached(n) => Reached(n)'
      BY <1>b DEF Others, Entries, Reached, Refused
    <3>2. Cut(Log[n]) => Cut(Log[n])'
      BY <1>b DEF Others, Cut
    <3>3. ASSUME NEW v \in Worker, Held(v, n)
          PROVE  Reached(n)' \/ Cut(Log[n])' \/ Held(v, n)'
      <4>1. CASE v = w
        BY <3>3, <4>1, <1>b DEF Duties
      <4>2. CASE v # w
        BY <3>3, <4>2, <1>b DEF Others, Held
      <4>3. QED
        BY <4>1, <4>2
    <3>4. QED
      BY <2>2, <3>1, <3>2, <3>3 DEF PassedInv
  <2>3. QED
    BY <2>1, <2>2, <1>b DEF Passes
<1>6. QED
  BY <1>1, <1>2, <1>3, <1>4, <1>5

-----------------------------------------------------------------------------
(* Every step pays what is due *)

LEMMA CallParts ==
  ASSUME TypeOK, LossInv, NEW w \in Worker
  PROVE  /\ CallOK(w) /\ PublishOK(w)
         /\ w \in Calling <=> phase[w] = "calling"
         /\ phase \in [Worker -> Phase] /\ current \in [Worker -> Offset \cup {0}]
         /\ phase[w] \notin {"down", "polling"} => current[w] \in Offset
         /\ position \in [Worker -> 0 .. Len(Log)]
         /\ calls \in [Calling -> Call]
BY DEF TypeOK, LossInv, CallInv, CallOK, PublishInv, PublishOK

\* The loop alone moves: the service, the ledger and the dead letters stay.
LEMMA QuietDue ==
  ASSUME TypeOK, LossInv, NEW w \in Worker, UNCHANGED service, UNCHANGED <<deadLetters>>,
         cutShort \subseteq cutShort', UNCHANGED <<current>>, NEW to \in Phase,
         phase' = [phase EXCEPT ![w] = to],
         (phase[w] # "calling" /\ to # "calling") \/ to = phase[w],
         to = "publishing" => phase[w] = "publishing" \/ Refused(current[w]),
         phase[w] = "dispatching" => to \in {"dispatching", "publishing"},
         phase[w] = "publishing" => to = "publishing" \/ current[w] \in cutShort',
         Passes(w)
  PROVE  Due(w)
<1>0. /\ Calling' = Calling /\ calls' = calls /\ ledger' = ledger
      /\ phase'[w] = to /\ current' = current
  BY CallParts DEF service, Calling
<1>a. CallOK(w) /\ PublishOK(w) /\ (w \in Calling <=> phase[w] = "calling")
  BY CallParts
<1>1. Others(w)
  BY <1>0, CallParts DEF Others
<1>2. Entries(w)
  <2>1. DOMAIN ledger' = DOMAIN ledger /\ \A e \in DOMAIN ledger : ledger'[e] = ledger[e]
    BY <1>0
  <2>2. QED
    BY <2>1 DEF Entries
<1>3. Duties(w)
  <2>1. ASSUME NEW e, WillBeCut(w, e) PROVE WillBeCut(w, e)'
    BY <2>1, <1>0 DEF WillBeCut, InStage, Answered
  <2>2. ASSUME NEW e, WillPublish(w, e)
        PROVE  WillPublish(w, e)' \/ Cut(e)'
    BY <2>2, <1>0, <1>a DEF WillPublish, InStage, Answered, Cut, Refused
  <2>3. ASSUME NEW n \in Offset, Held(w, n) PROVE Held(w, n)' \/ Cut(Log[n])'
    BY <2>3, <1>0, <1>a DEF Held, Cut
  <2>4. QED
    BY <2>1, <2>2, <2>3 DEF Duties
<1>4. Publishes(w)
  BY DEF Publishes
<1>5. CallOK(w)'
  BY <1>0, <1>a DEF CallOK, InStage, Answered
<1>6. PublishOK(w)'
  BY <1>0, <1>a DEF PublishOK, Refused
<1>7. QED
  BY <1>1, <1>2, <1>3, <1>4, <1>5, <1>6 DEF Due

\* Passing depends on the offsets and the owner alone.
LEMMA PassesFewer ==
  ASSUME TypeOK, NEW w \in Worker,
         committed' <= committed \/ (owner = w /\ committed' = position[w]),
         committed' \in Nat,
         \/ owner' \notin Worker
         \/ owner' = owner /\ UNCHANGED <<position>>
         \/ owner' \in Worker /\ position'[owner'] = committed
  PROVE  Passes(w)
<1>1. /\ committed \in Nat /\ Offset \subseteq Nat
      /\ \A v \in Worker : position[v] \in Nat
  BY OffsetFacts DEF TypeOK
<1>2. ASSUME NEW n, Passed(n)' PROVE Passed(n)
  <2>1. n \in Offset /\ n \in Nat
    BY <1>1, <1>2 DEF Passed, Offset
  <2>2. CASE n <= committed'
    BY <1>1, <2>1, <2>2 DEF Passed
  <2>3. CASE owner' \in Worker /\ n <= position'[owner']
    BY <1>1, <2>1, <2>3 DEF Passed
  <2>4. QED
    BY <1>2, <2>2, <2>3 DEF Passed
<1>3. QED
  BY <1>2 DEF Passes

LEMMA LoopDue ==
  ASSUME TypeOK, LossInv, NEW w \in Worker,
         \/ Start(w) \/ Stop(w) \/ Assign(w) \/ Rebalance(w) \/ LeaveLoop(w)
         \/ MappingFails(w) \/ CommitOffset(w) \/ CommitFails(w)
  PROVE  Due(w)
<1>0. /\ phase \in [Worker -> Phase] /\ NoWorker \notin Worker /\ committed \in Nat
      /\ position \in [Worker -> 0 .. Len(Log)] /\ position[w] \in Nat
      /\ \A v \in Worker : phase[v] \in Phase
  BY LogAssumption, OffsetFacts DEF TypeOK
<1>1. CASE Start(w)
  <2>1. Passes(w)
    BY <1>0, <1>1, PassesFewer DEF Start, kafka
  <2>2. QED
    BY <2>1, <1>1, QuietDue DEF Start, Up, kafka, Phase
<1>2. CASE Stop(w)
  <2>1. Passes(w)
    BY <1>0, <1>2, PassesFewer DEF Stop, kafka
  <2>2. phase' = [phase EXCEPT ![w] = phase[w]]
    BY <1>0, <1>2 DEF Stop
  <2>3. QED
    BY <2>1, <2>2, <1>0, <1>2, QuietDue DEF Stop, kafka
<1>3. CASE Assign(w) \/ Rebalance(w)
  <2>1. TakeOver(w)
    BY <1>3 DEF Assign, Rebalance
  <2>2. Passes(w)
    BY <1>0, <2>1, PassesFewer DEF TakeOver
  <2>3. phase' = [phase EXCEPT ![w] = phase[w]]
    BY <1>0, <2>1 DEF TakeOver
  <2>4. QED
    BY <2>1, <2>2, <2>3, <1>0, QuietDue DEF TakeOver
<1>4. CASE LeaveLoop(w)
  <2>1. Passes(w)
    BY <1>0, <1>4, PassesFewer DEF LeaveLoop, HasNext, Leave
  <2>2. QED
    BY <2>1, <1>4, QuietDue DEF LeaveLoop, HasNext, Leave, Phase
<1>5. CASE MappingFails(w)
  <2>1. Passes(w)
    BY <1>0, <1>5, PassesFewer DEF MappingFails, Goes, kafka
  <2>2. QED
    BY <2>1, <1>5, QuietDue DEF MappingFails, Goes, Phase, kafka
<1>6. CASE CommitOffset(w)
  <2>1. Passes(w)
    BY <1>0, <1>6, PassesFewer DEF CommitOffset, Goes
  <2>2. QED
    BY <2>1, <1>6, QuietDue DEF CommitOffset, Goes, Phase
<1>7. CASE CommitFails(w)
  <2>1. Passes(w)
    BY <1>0, <1>7, PassesFewer DEF CommitFails, GivesUp, kafka
  <2>2. QED
    BY <2>1, <1>7, QuietDue DEF CommitFails, GivesUp, Phase, kafka
<1>8. QED
  BY <1>1, <1>2, <1>3, <1>4, <1>5, <1>6, <1>7

LEMMA FetchDue ==
  ASSUME TypeOK, LossInv, NEW w \in Worker, Fetch(w)
  PROVE  Due(w)
<1>0. /\ phase[w] = "polling" /\ phase'[w] = "dispatching" /\ owner = w /\ owner' = w
      /\ position'[w] = position[w] + 1 /\ current'[w] = position[w] + 1
      /\ position[w] \in Nat /\ committed \in Nat /\ committed' = committed
      /\ \A v \in Worker \ {w} : phase'[v] = phase[v] /\ current'[v] = current[v]
  BY OffsetFacts DEF TypeOK, Fetch, HasNext, kafka
<1>1. /\ w \notin Calling /\ Calling' = Calling /\ calls' = calls /\ ledger' = ledger
      /\ deadLetters' = deadLetters /\ cutShort' = cutShort
  BY <1>0, CallParts DEF Fetch, service, kafka, Calling
<1>2. Others(w) /\ Publishes(w) /\ CallOK(w)' /\ PublishOK(w)'
  BY <1>0, <1>1 DEF Others, Publishes, CallOK, PublishOK
<1>3. Entries(w)
  BY <1>1 DEF Entries
<1>4. Duties(w)
  BY <1>0, <1>1 DEF Duties, WillBeCut, WillPublish, Held
<1>5. Passes(w)
  <2> SUFFICES ASSUME NEW n, Passed(n)', ~Passed(n) PROVE Held(w, n)'
    BY DEF Passes
  <2>1. n \in Nat /\ n <= position[w] + 1 /\ ~(n <= position[w])
    BY <1>0, OffsetFacts DEF Passed, Offset
  <2>2. n = position[w] + 1
    BY <2>1, <1>0
  <2>3. QED
    BY <2>2, <1>0 DEF Held
<1>6. QED
  BY <1>2, <1>3, <1>4, <1>5 DEF Due

LEMMA PublishDue ==
  ASSUME TypeOK, LossInv, NEW w \in Worker, Publish(w) \/ PublishFails(w)
  PROVE  Due(w)
<1>0. /\ phase[w] = "publishing" /\ phase'[w] \in {"committing", "polling"}
      /\ UNCHANGED <<current, position, committed, owner>>
      /\ \A v \in Worker \ {w} : phase'[v] = phase[v]
      /\ deadLetters \subseteq deadLetters' /\ deadLetters' \subseteq deadLetters \cup {current[w]}
      /\ cutShort \subseteq cutShort'
      /\ current[w] \in deadLetters' \/ current[w] \in cutShort'
      /\ committed' <= committed /\ committed' \in Nat
  BY OffsetFacts DEF TypeOK, Publish, PublishFails, Goes, GivesUp
<1>1. w \notin Calling /\ Calling' = Calling /\ calls' = calls /\ ledger' = ledger
  BY <1>0, CallParts DEF Publish, PublishFails, service, Calling
<1>2. Others(w) /\ Publishes(w) /\ CallOK(w)' /\ PublishOK(w)'
  BY <1>0, <1>1 DEF Others, Publishes, CallOK, PublishOK
<1>3. Entries(w)
  BY <1>1 DEF Entries
<1>4. Passes(w)
  BY <1>0, PassesFewer
<1>5. Duties(w)
  <2>1. ASSUME NEW e, WillPublish(w, e)
        PROVE  Cut(e)' \/ \E m \in deadLetters' : Log[m] = e
    BY <2>1, <1>0, <1>1 DEF WillPublish, Cut
  <2>2. ASSUME NEW n \in Offset, Held(w, n) PROVE Reached(n)' \/ Cut(Log[n])'
    <3>1. current[w] = n /\ PublishOK(w)
      BY <2>2, CallParts DEF Held
    <3>2. CASE current[w] \in cutShort'
      BY <3>1, <3>2 DEF Cut
    <3>3. CASE current[w] \in deadLetters'
      BY <3>1, <3>3, <1>0, <1>1 DEF PublishOK, Reached, Refused
    <3>4. QED
      BY <3>2, <3>3, <1>0
  <2>3. QED
    BY <2>1, <2>2, <1>1 DEF Duties, WillBeCut
<1>6. QED
  BY <1>2, <1>3, <1>4, <1>5 DEF Due

LEMMA CallServiceDue ==
  ASSUME TypeOK, LossInv, NEW w \in Worker, CallService(w)
  PROVE  Due(w)
<1>0. /\ phase[w] = "dispatching" /\ phase'[w] = "calling"
      /\ UNCHANGED <<current, position, committed, owner, deadLetters, cutShort, ledger>>
      /\ \A v \in Worker \ {w} : phase'[v] = phase[v]
      /\ committed' <= committed /\ committed' \in Nat
  BY OffsetFacts DEF TypeOK, CallService, Goes, ProcessEvent, kafka
<1>1. /\ w \notin Calling /\ Calling' = Calling \cup {w}
      /\ calls'[w] = NewCall(Log[current[w]])
      /\ \A v \in Calling : calls'[v] = calls[v]
  BY <1>0, CallParts DEF CallService, ProcessEvent, Put, Calling
<1>2. Others(w) /\ Publishes(w) /\ CallOK(w)' /\ PublishOK(w)'
  BY <1>0, <1>1 DEF Others, Publishes, CallOK, PublishOK, NewCall, InStage, Answered
<1>3. Entries(w)
  BY <1>0 DEF Entries
<1>4. Passes(w)
  BY <1>0, PassesFewer
<1>5. Duties(w)
  BY <1>0, <1>1 DEF Duties, WillBeCut, WillPublish, Held
<1>6. QED
  BY <1>2, <1>3, <1>4, <1>5 DEF Due

\* A worker that loses its message to an error or a crash has its handling cut short.
LEMMA CutDue ==
  ASSUME TypeOK, LossInv, NEW w \in Worker, UNCHANGED <<ledger, current, deadLetters>>,
         cutShort \subseteq cutShort', NEW to \in {"polling", "down"},
         phase' = [phase EXCEPT ![w] = to],
         calls' = Drop(calls, w),
         phase[w] \in {"dispatching", "calling", "publishing"} => current[w] \in cutShort',
         Passes(w)
  PROVE  Due(w)
<1>0. /\ phase'[w] = to /\ \A v \in Worker \ {w} : phase'[v] = phase[v]
      /\ Calling' = Calling \ {w} /\ \A v \in Calling \ {w} : calls'[v] = calls[v]
  BY CallParts DEF Drop, Calling
<1>a. CallOK(w) /\ PublishOK(w) /\ (w \in Calling <=> phase[w] = "calling")
  BY CallParts
<1>1. Others(w) /\ Publishes(w) /\ CallOK(w)' /\ PublishOK(w)'
  BY <1>0 DEF Others, Publishes, CallOK, PublishOK
<1>2. Entries(w)
  BY DEF Entries
<1>3. Duties(w)
  <2>1. ASSUME NEW e, WillBeCut(w, e) PROVE Cut(e)'
    BY <2>1, <1>a DEF WillBeCut, CallOK, Cut
  <2>2. ASSUME NEW e, WillPublish(w, e) PROVE Cut(e)'
    BY <2>2, <1>a DEF WillPublish, CallOK, Cut, InStage, Answered
  <2>3. ASSUME NEW n \in Offset, Held(w, n) PROVE Cut(Log[n])'
    BY <2>3 DEF Held, Cut
  <2>4. QED
    BY <2>1, <2>2, <2>3 DEF Duties
<1>4. QED
  BY <1>1, <1>2, <1>3 DEF Due

LEMMA CrashDue ==
  ASSUME TypeOK, LossInv, NEW w \in Worker, Crash(w)
  PROVE  Due(w)
<1>1. Passes(w)
  <2>1. committed \in Nat /\ NoWorker \notin Worker
    BY OffsetFacts, LogAssumption DEF TypeOK
  <2>2. QED
    BY <2>1, PassesFewer DEF Crash, Leave
<1>2. calls' = Drop(calls, w)
  BY DEF Crash, Drop, Calling
<1>3. QED
  BY <1>1, <1>2, CutDue DEF Crash, Leave

LEMMA AnswerFacts ==
  ASSUME Calls, NEW w \in Calling, NEW s \in Status, Answer(w, s)
  PROVE  /\ Calling' = Calling /\ \A v \in Calling \ {w} : calls'[v] = calls[v]
         /\ calls'[w].event = calls[w].event
         /\ calls'[w].stage = "answered" /\ calls'[w].answer = s
<1> DEFINE h == [calls EXCEPT ![w].stage = "answered"]
<1>1. calls' = [h EXCEPT ![w].answer = s]
  BY DEF Answer
<1>2. /\ DOMAIN h = Calling /\ \A v \in Calling \ {w} : h[v] = calls[v]
      /\ h[w] = [event |-> calls[w].event, stage |-> "answered", answer |-> calls[w].answer]
  BY DEF Calls, Calling, Call
<1> HIDE DEF h
<1>3. QED
  BY <1>1, <1>2 DEF Calling

LEMMA LoseFacts ==
  ASSUME Calls, NEW w \in Calling, LoseTransaction(w)
  PROVE  /\ Calling' = Calling /\ \A v \in Calling \ {w} : calls'[v] = calls[v]
         /\ calls'[w].event = calls[w].event /\ calls'[w].stage = "broken"
BY DEF Calls, Calling, Call, LoseTransaction

\* process_event goes on with the call of worker w and the loop waits.
LEMMA ServiceDue ==
  ASSUME TypeOK, LossInv, NEW w \in Worker, UNCHANGED <<kafka, loop>>,
         Record(w) \/ Repeat(w) \/ MarkFailed(w) \/ RecordUnanswered(w) \/ Break(w)
           \/ AnswerFailed(w)
  PROVE  Due(w)
<1>e. PICK e : e = calls[w].event
  OBVIOUS
<1>0. /\ w \in Calling /\ phase[w] = "calling" /\ CallOK(w)
      /\ UNCHANGED <<committed, owner, deadLetters, phase, position, current, cutShort>>
      /\ e \in Event /\ e = Log[current[w]]
      /\ Ledgers /\ Calls
  BY <1>e, CallParts, TypeParts
     DEF kafka, loop, Record, Repeat, MarkFailed, RecordUnanswered, Break, AnswerFailed,
         Enter, InStage, Calls, Call, CallOK
<1>1. /\ Calling' = Calling /\ calls'[w].event = e
      /\ \A v \in Calling \ {w} : calls'[v] = calls[v]
  <2>1. \/ \E s \in Status : Answer(w, s)
        \/ LoseTransaction(w)
    BY DEF Record, Repeat, MarkFailed, RecordUnanswered, Break, AnswerFailed, Status
  <2>2. ASSUME NEW s \in Status, Answer(w, s)
        PROVE  /\ Calling' = Calling /\ calls'[w].event = e
               /\ \A v \in Calling \ {w} : calls'[v] = calls[v]
    BY <2>2, <1>0, <1>e, AnswerFacts
  <2>3. QED
    BY <2>1, <2>2, <1>0, <1>e, LoseFacts
<1>2. Others(w) /\ Publishes(w) /\ PublishOK(w)'
  BY <1>0, <1>1 DEF Others, Publishes, PublishOK
<1>3. Passes(w)
  <2>1. committed \in Nat
    BY OffsetFacts DEF TypeOK
  <2>2. QED
    BY <2>1, <1>0, PassesFewer
<1>4. ASSUME NEW n \in Offset, Held(w, n) PROVE Held(w, n)'
  BY <1>0, <1>4 DEF Held
<1>5. CASE Record(w)
  <2>1. PICK s \in Status : Enter(w, s) /\ Answer(w, s)
    BY <1>5 DEF Record
  <2>2. /\ InStage(w, "open") /\ e \notin DOMAIN ledger
        /\ DOMAIN ledger' = DOMAIN ledger \cup {e} /\ ledger'[e] = s
        /\ \A x \in DOMAIN ledger : ledger'[x] = ledger[x]
    BY <2>1, <1>e DEF Enter, Put
  <2>3. InStage(w, "answered")' /\ calls'[w].answer = s
    BY <2>1, <1>0, <1>1, AnswerFacts DEF InStage
  <2>4. CallOK(w)'
    BY <2>2, <2>3, <1>0, <1>1, <1>e DEF CallOK, InStage, Answered
  <2>5. Entries(w)
    <3>1. s = "failed" => WillBeCut(w, e)'
      BY <2>3, <1>0, <1>1 DEF WillBeCut, InStage, Answered
    <3>2. s = "sent_to_dlq" => WillPublish(w, e)'
      BY <2>3, <1>0, <1>1 DEF WillPublish, InStage, Answered
    <3>3. s \in {"processed", "ignored_anonymous", "sent_to_dlq", "failed"}
      BY DEF Status
    <3>4. QED
      BY <2>2, <3>1, <3>2, <3>3 DEF Entries
  <2>6. Duties(w)
    BY <2>2, <1>0, <1>4, <1>e DEF Duties, WillBeCut, WillPublish, InStage, Answered
  <2>7. QED
    BY <2>4, <2>5, <2>6, <1>2, <1>3 DEF Due
<1>6. CASE RecordUnanswered(w)
  <2>1. PICK s \in Status : Enter(w, s) /\ LoseTransaction(w)
    BY <1>6 DEF RecordUnanswered
  <2>2. /\ InStage(w, "open") /\ e \notin DOMAIN ledger
        /\ DOMAIN ledger' = DOMAIN ledger \cup {e}
        /\ \A x \in DOMAIN ledger : ledger'[x] = ledger[x]
    BY <2>1, <1>e DEF Enter, Put
  <2>3. InStage(w, "broken")'
    BY <2>1, <1>0, <1>1, LoseFacts DEF InStage
  <2>4. CallOK(w)'
    BY <2>3, <1>0, <1>1 DEF CallOK, InStage, Answered
  <2>5. Entries(w)
    <3>1. WillBeCut(w, e)'
      BY <2>3, <1>0, <1>1 DEF WillBeCut
    <3>2. QED
      BY <2>2, <3>1 DEF Entries
  <2>6. Duties(w)
    BY <2>2, <1>0, <1>4, <1>e DEF Duties, WillBeCut, WillPublish, InStage, Answered
  <2>7. QED
    BY <2>4, <2>5, <2>6, <1>2, <1>3 DEF Due
<1>7. CASE Repeat(w) \/ Break(w)
  <2>1. InStage(w, "open") /\ ledger' = ledger
    BY <1>7 DEF Repeat, Break
  <2>2. \/ InStage(w, "broken")'
        \/ e \in DOMAIN ledger /\ Answered(w, "processed")'
    BY <1>7, <1>0, <1>1, <1>e, AnswerFacts, LoseFacts DEF Repeat, Break, InStage, Answered, Status
  <2>3. CallOK(w)'
    BY <2>1, <2>2, <1>0, <1>1 DEF CallOK, InStage, Answered
  <2>4. Entries(w)
    BY <2>1 DEF Entries
  <2>5. Duties(w)
    BY <2>1, <1>0, <1>4, <1>e DEF Duties, WillBeCut, WillPublish, InStage, Answered
  <2>6. QED
    BY <2>3, <2>4, <2>5, <1>2, <1>3 DEF Due
<1>8. CASE MarkFailed(w) \/ AnswerFailed(w)
  <2>1. /\ InStage(w, "broken") /\ DOMAIN ledger' = DOMAIN ledger
        /\ \A x \in DOMAIN ledger : ledger'[x] = ledger[x] \/ (ledger'[x] = "failed" /\ x = e)
    BY <1>8, <1>e DEF MarkFailed, AnswerFailed
  <2>2. Answered(w, "failed")'
    BY <1>8, <1>0, <1>1, AnswerFacts DEF MarkFailed, AnswerFailed, InStage, Answered, Status
  <2>3. WillBeCut(w, e)'
    BY <2>2, <1>0, <1>1 DEF WillBeCut
  <2>4. CallOK(w)'
    BY <2>2, <1>0, <1>1 DEF CallOK, InStage, Answered
  <2>5. Entries(w)
    BY <2>1, <2>3 DEF Entries
  <2>6. Duties(w)
    BY <2>1, <2>3, <1>0, <1>4, <1>e DEF Duties, WillBeCut, WillPublish, InStage, Answered
  <2>7. QED
    BY <2>4, <2>5, <2>6, <1>2, <1>3 DEF Due
<1>9. QED
  BY <1>5, <1>6, <1>7, <1>8

LEMMA HandleOutcomeDue ==
  ASSUME TypeOK, LossInv, NEW w \in Worker, HandleOutcome(w)
  PROVE  Due(w)
<1>0. /\ w \in Calling /\ phase[w] = "calling" /\ CallOK(w) /\ InStage(w, "answered")
      /\ calls' = Drop(calls, w)
      /\ UNCHANGED <<committed, owner, deadLetters, position, current, ledger>>
      /\ current[w] \in Offset
      /\ phase \in [Worker -> Phase]
      /\ committed' <= committed /\ committed' \in Nat
      /\ \/ GivesUp(w, "calling")
         \/ calls[w].answer # "failed" /\ Goes(w, "calling", AfterOutcome(calls[w].answer))
  BY CallParts, OffsetFacts DEF HandleOutcome, Return, InStage, GivesUp, Goes, kafka, TypeOK
<1>1. Passes(w)
  BY <1>0, PassesFewer
<1>2. CASE GivesUp(w, "calling")
  BY <1>0, <1>1, <1>2, CutDue DEF GivesUp
<1>3. CASE calls[w].answer # "failed" /\ Goes(w, "calling", AfterOutcome(calls[w].answer))
  <2>1. /\ Log[current[w]] \in DOMAIN ledger
        /\ calls[w].answer = "sent_to_dlq" => ledger[Log[current[w]]] \in {"sent_to_dlq", "failed"}
    BY <1>0, <1>3 DEF CallOK, Answered
  <2>2. /\ phase'[w] = IF calls[w].answer = "sent_to_dlq" THEN "publishing" ELSE "committing"
        /\ UNCHANGED cutShort
        /\ \A v \in Worker \ {w} : phase'[v] = phase[v]
    BY <1>0, <1>3 DEF Goes, AfterOutcome
  <2>3. Calling' = Calling \ {w} /\ \A v \in Calling \ {w} : calls'[v] = calls[v]
    BY <1>0 DEF Drop, Calling
  <2>4. Others(w) /\ Publishes(w) /\ CallOK(w)'
    BY <1>0, <2>2, <2>3 DEF Others, Publishes, CallOK
  <2>5. PublishOK(w)'
    BY <1>0, <2>1, <2>2 DEF PublishOK
  <2>6. Entries(w)
    BY <1>0 DEF Entries
  <2>7. Duties(w)
    <3>1. ASSUME NEW e PROVE ~WillBeCut(w, e)
      BY <1>0, <1>3 DEF WillBeCut, InStage, Answered
    <3>2. ASSUME NEW e, WillPublish(w, e) PROVE WillPublish(w, e)'
      BY <3>2, <1>0, <2>2 DEF WillPublish, Answered, InStage, CallOK
    <3>3. ASSUME NEW n \in Offset, Held(w, n) PROVE Held(w, n)' \/ Reached(n)'
      <4>1. Log[n] \in DOMAIN ledger /\ ~Refused(n)
        BY <3>3, <2>1, LogAssumption DEF Held, Refused, TypeOK
      <4>2. QED
        BY <4>1, <1>0 DEF Reached, Refused
    <3>4. QED
      BY <3>1, <3>2, <3>3 DEF Duties
  <2>8. QED
    BY <1>1, <2>4, <2>5, <2>6, <2>7 DEF Due
<1>4. QED
  BY <1>0, <1>2, <1>3

LEMMA AbandonDue ==
  ASSUME TypeOK, LossInv, NEW w \in Worker, Abandon(w), GivesUp(w, "calling"), UNCHANGED kafka
  PROVE  Due(w)
<1>1. Passes(w)
  <2>1. committed \in Nat
    BY OffsetFacts DEF TypeOK
  <2>2. QED
    BY <2>1, PassesFewer DEF GivesUp, kafka
<1>2. QED
  BY <1>1, CutDue DEF Abandon, GivesUp, kafka

-----------------------------------------------------------------------------
LEMMA LossInit == Init => LossInv
<1> SUFFICES ASSUME Init PROVE LossInv
  OBVIOUS
<1>1. /\ Calling = {} /\ DOMAIN ledger = {} /\ deadLetters = {}
      /\ \A w \in Worker : phase[w] = "down"
      /\ ~\E n : Passed(n)
  BY LogAssumption, OffsetFacts DEF Init, LedgerInit, Calling, Passed, Offset
<1>2. QED
  BY <1>1 DEF LossInv, CallInv, PublishInv, DeadLettersAreRefused, EntryInv, PassedInv

LEMMA LossNext == TypeOK /\ LossInv /\ [Next]_vars => LossInv'
<1> SUFFICES ASSUME TypeOK, LossInv, [Next]_vars PROVE LossInv'
  OBVIOUS
<1>0. TypeOK'
  BY TypeNext
<1>1. ASSUME NEW w \in Worker, Due(w) PROVE LossInv'
  BY <1>0, <1>1, DuePreserves
<1>2. ASSUME NEW w \in Worker, Progress(w) PROVE Due(w)
  <2>1. CASE ServiceWorks(w)
    BY <2>1, ServiceDue DEF ServiceWorks
  <2>2. CASE ServiceRefuses(w)
    BY <2>2, ServiceDue, AbandonDue DEF ServiceRefuses
  <2>3. QED
    BY <1>2, <2>1, <2>2, LoopDue, FetchDue, CallServiceDue, HandleOutcomeDue, PublishDue
       DEF Progress
<1>3. ASSUME NEW w \in Worker,
             Start(w) \/ Rebalance(w) \/ Stop(w) \/ Crash(w) \/ PublishFails(w) \/ CommitFails(w)
      PROVE  Due(w)
  BY <1>3, LoopDue, CrashDue, PublishDue
<1>4. ASSUME NEW w \in Worker, ServiceFails(w) PROVE Due(w)
  BY <1>4, ServiceDue DEF ServiceFails
<1>5. CASE UNCHANGED vars
  BY <1>5 DEF vars, kafka, loop, service, LossInv, CallInv, PublishInv, DeadLettersAreRefused,
              EntryInv, PassedInv, Calling, InStage, Answered, Cut, WillBeCut, WillPublish,
              Passed, Reached, Refused, Held
<1>6. QED
  BY <1>1, <1>2, <1>3, <1>4, <1>5 DEF Next, Waiting

LEMMA LossAlways == Spec => [](TypeOK /\ LossInv)
BY TypeInit, TypeNext, LossInit, LossNext, PTL DEF Spec

\* DeadLettersAreRefused: a dead letter is a message the mapper or process_event
\* refused, whoever else handled the message meanwhile.
THEOREM OnlyRefusedPublished == Spec => []DeadLettersAreRefused
BY LossAlways, PTL DEF LossInv

\* SkippedWasCutShort: a message that nobody will read again and that came to no
\* end had its handling, or that of a copy, cut short.
THEOREM NothingElseLost == Spec => []SkippedWasCutShort
<1>1. TypeOK /\ LossInv => SkippedWasCutShort
  <2> SUFFICES ASSUME TypeOK, LossInv, NEW n \in Skipped PROVE Cut(Log[n])
    BY DEF SkippedWasCutShort, Cut
  <2>1. n \in 1 .. committed /\ n \in Offset /\ ~Settled(n) /\ ~InHand(n) /\ Passed(n)
    BY OffsetFacts DEF Skipped, TypeOK, Offset, Passed
  <2>2. ASSUME NEW w \in Worker, WillBeCut(w, Log[n]) \/ WillPublish(w, Log[n]) PROVE FALSE
    BY <2>1, <2>2, CallParts DEF WillBeCut, WillPublish, CallOK, InHand, InStage, Answered
  <2>3. ~\E w \in Worker : Held(w, n)
    BY <2>1 DEF Held, InHand
  <2>4. CASE Reached(n)
    <3>1. ~Refused(n) /\ Log[n] \in DOMAIN ledger
      BY <2>1, <2>4 DEF Reached, Settled
    <3>2. \/ ledger[Log[n]] \in {"processed", "ignored_anonymous"}
          \/ Cut(Log[n])
          \/ ledger[Log[n]] = "sent_to_dlq" /\ \E m \in deadLetters : Log[m] = Log[n]
      BY <3>1, <2>2 DEF LossInv, EntryInv
    <3>3. deadLetters \subseteq Offset
      BY DEF TypeOK
    <3>4. QED
      BY <3>1, <3>2, <3>3, <2>1 DEF Settled
  <2>5. QED
    BY <2>1, <2>3, <2>4 DEF LossInv, PassedInv
<1>2. QED
  BY <1>1, LossAlways, PTL
=============================================================================
