---------------------------- MODULE LedgerProofs ----------------------------
(***************************************************************************)
(* EventProcessing implements EventLedger, for every number of workers,    *)
(* events and failures: each step of a transaction is a step of the ledger *)
(* or leaves the ledger and the open calls as they are.                    *)
(***************************************************************************)
EXTENDS LedgerRefinement, ProfileProofs

\* What has been decided of the event of t, given the ledger and the profiles.
\* An event only enters the database when its texts can be stored; it is applied
\* only when its type and identifiers allow it, on a profile that is there, and
\* with a time that can be compared; and the status at the commit is one the
\* event can enter with, or the answer to a duplicate.
DecisionOK(t) ==
  /\ "raw_events" \in t.writes => Storable[t.event]
  /\ t.pc \in Recorded => TypeOf[t.event] # "unsupported" /\ KnownIdentifiers(t.event) # {}
  /\ t.pc = "load" => t.customer \in DOMAIN profiles
  /\ t.pc \in {"select_purchase", "insert_purchase"} => TypeOf[t.event] = "purchase"
  /\ t.pc \in {"save_profile", "save_link"} => Zoned[t.event]
  /\ t.pc = "commit" /\ "raw_events" \in t.writes => t.outcome \in StatusesOf(t.event)
  /\ t.pc = "commit" /\ "raw_events" \notin t.writes =>
       t.outcome = "processed" /\ t.event \in DOMAIN rawEvents
  /\ t.pc = "mark_failed" => t.outcome = "failed"

\* The ledger is a table, and every decision is sound.
LedgerInv ==
  /\ rawEvents = [e \in DOMAIN rawEvents |-> rawEvents[e]]
  /\ \A w \in Busy : DecisionOK(tx[w])

LEMMA LedgerInit == Init => LedgerInv
<1> SUFFICES ASSUME Init PROVE LedgerInv
  OBVIOUS
<1>1. DOMAIN << >> = {}
  OBVIOUS
<1>2. << >> = [e \in DOMAIN << >> |-> << >>[e]]
  OBVIOUS
<1>3. QED
  BY <1>1, <1>2 DEF Init, LedgerInv, Busy

\* A step of w that leaves the tables alone.
LEMMA LocalLedger ==
  ASSUME LedgerInv, NEW w \in Busy, Others(w), rawEvents' = rawEvents, profiles' = profiles,
         DecisionOK(tx'[w])
  PROVE  LedgerInv'
<1>1. \A v \in Busy : DecisionOK(tx'[v])
  BY DEF LedgerInv, Others
<1>2. \A v \in Busy' : DecisionOK(tx[v])'
  BY <1>1 DEF Others, DecisionOK
<1>3. QED
  BY <1>2 DEF LedgerInv

\* Nothing is decided of an event whose transaction ended.
LEMMA EndedDecision ==
  \A t, u :
    Ended(t, u) /\ (u.pc = "reply" \/ (u.pc = "mark_failed" /\ u.outcome = "failed"))
      => DecisionOK(u)
BY DEF Ended, DecisionOK, Recorded

\* Rows are added to the tables and never deleted.
LEMMA TablesGrow ==
  ASSUME NEW w \in Busy, ApplyWrites(w)
  PROVE  /\ DOMAIN profiles \subseteq DOMAIN profiles'
         /\ DOMAIN rawEvents \subseteq DOMAIN rawEvents'
BY DEF ApplyWrites, Put

LEMMA RolledBackOutcome ==
  ASSUME NEW w \in Worker,
         \/ CommitAnswerLost(w) \/ StatementFails(w) \/ StatementRefused(w) \/ DeadlockVictim(w)
         \/ InsertPurchase(w) /\ Step(w, RolledBack(tx[w]))
  PROVE  tx'[w].pc = "mark_failed" /\ tx'[w].outcome = "failed"
<1>1. w \in Busy /\ Step(w, RolledBack(tx[w]))
  BY DEF CommitAnswerLost, StatementFails, StatementRefused, DeadlockVictim, InsertPurchase, At
<1>2. QED
  BY <1>1, EndedFacts

LEMMA InsertEnds ==
  ASSUME TypeOK, NEW w \in Worker, InsertPurchase(w), tx'[w].pc = "mark_failed"
  PROVE  Step(w, RolledBack(tx[w]))
<1> DEFINE u == [tx[w] EXCEPT !.pc = "evaluate", !.writes = @ \cup {"processed_purchases"}]
<1>1. w \in Busy /\ (Step(w, RolledBack(tx[w])) \/ Step(w, u))
  BY DEF InsertPurchase, At
<1>2. Step(w, u) => tx'[w] = u
  BY <1>1, SteppedTx
<1>3. u.pc = "evaluate"
  BY <1>1 DEF TypeOK, Busy, Transaction
<1>4. QED
  BY <1>1, <1>2, <1>3

LEMMA LedgerNext ==
  TypeOK /\ StageInv /\ SafeInv /\ LedgerInv /\ [Next]_vars => LedgerInv'
<1> SUFFICES ASSUME TypeOK, StageInv, SafeInv, LedgerInv, [Next]_vars PROVE LedgerInv'
  OBVIOUS
<1>0. \A w \in Busy :
        /\ tx[w] \in Transaction /\ tx[w].event \in Event
        /\ StageOK(tx[w]) /\ DecisionOK(tx[w])
  BY TransactionFields DEF TypeOK, StageInv, LedgerInv, Busy
<1>1. ASSUME NEW w \in Worker, NEW e \in Event, Begin(w, e) PROVE LedgerInv'
  <2>1. /\ Busy' = Busy \cup {w} /\ \A v \in Busy : v # w /\ tx'[v] = tx[v]
        /\ tx'[w].pc = "record" /\ tx'[w].writes = {}
    BY <1>1, BeginFacts
  <2>2. rawEvents' = rawEvents /\ profiles' = profiles
    BY <1>1, BeginFacts DEF tables
  <2>3. \A v \in Busy' : DecisionOK(tx[v])'
    BY <1>0, <2>1, <2>2 DEF DecisionOK, Recorded
  <2>4. QED
    BY <2>2, <2>3 DEF LedgerInv
<1>2. ASSUME NEW w \in Worker, RecordReceived(w) PROVE LedgerInv'
  <2> DEFINE e == tx[w].event
  <2>1. /\ w \in Busy /\ tx[w].pc = "record" /\ Executes(w) /\ Others(w) /\ tx'[w].event = e
        /\ \/ /\ e \in DOMAIN rawEvents /\ tx'[w].pc = "commit"
              /\ tx'[w].outcome = "processed" /\ tx'[w].writes = tx[w].writes
           \/ /\ tx'[w].writes = {"raw_events"}
              /\ \/ /\ TypeOf[e] = "unsupported"
                    /\ tx'[w].pc = "commit" /\ tx'[w].outcome = "sent_to_dlq"
                 \/ /\ TypeOf[e] # "unsupported" /\ KnownIdentifiers(e) = {}
                    /\ tx'[w].pc = "commit" /\ tx'[w].outcome = "ignored_anonymous"
                 \/ /\ TypeOf[e] # "unsupported" /\ KnownIdentifiers(e) # {}
                    /\ tx'[w].pc = "resolve"
    BY <1>2, RecordFacts DEF DecidesTo, SameWork
  <2>2. rawEvents' = rawEvents /\ profiles' = profiles
    BY <1>2 DEF RecordReceived, tables
  <2>3. Storable[e] /\ tx[w].writes = {}
    BY <1>0, <2>1 DEF Executes, Refused, StageOK
  <2>4. DecisionOK(tx'[w])
    BY <2>1, <2>3 DEF DecisionOK, Recorded, StatusesOf
  <2>5. QED
    BY <2>1, <2>2, <2>4, LocalLedger
<1>3. ASSUME NEW w \in Worker, ResolveKnownProfile(w) PROVE LedgerInv'
  <2> DEFINE e == tx[w].event
             c == tx'[w].customer
  <2>1. /\ w \in Busy /\ tx[w].pc = "resolve" /\ Others(w)
        /\ tx'[w].event = e /\ tx'[w].writes = tx[w].writes
        /\ \/ tx'[w].pc = "commit" /\ tx'[w].outcome = "sent_to_dlq"
           \/ tx'[w].pc = AfterProfile(e)
           \/ {links[i] : i \in Linked(tx[w])} = {c} /\ tx'[w].pc = "load"
    BY <1>3, ResolveFacts DEF DecidesTo, SameWork
  <2>2. rawEvents' = rawEvents /\ profiles' = profiles
    BY <1>3 DEF ResolveKnownProfile, tables
  <2>3. /\ "raw_events" \in tx[w].writes /\ Storable[e]
        /\ TypeOf[e] # "unsupported" /\ KnownIdentifiers(e) # {}
    BY <1>0, <2>1 DEF DecisionOK, StageOK, Recorded
  <2>4. {links[i] : i \in Linked(tx[w])} = {c} => c \in DOMAIN profiles
    <3> SUFFICES ASSUME {links[i] : i \in Linked(tx[w])} = {c} PROVE c \in DOMAIN profiles
      OBVIOUS
    <3>1. PICK i \in Linked(tx[w]) : links[i] = c
      OBVIOUS
    <3>2. QED
      BY <3>1 DEF Linked, SafeInv, ReferencesHold
  <2>5. DecisionOK(tx'[w])
    BY <2>1, <2>3, <2>4 DEF DecisionOK, Recorded, StatusesOf, AfterProfile
  <2>6. QED
    BY <2>1, <2>2, <2>5, LocalLedger
<1>4. ASSUME NEW w \in Worker, LoadProfile(w) PROVE LedgerInv'
  <2>1. /\ w \in Busy /\ tx[w].pc = "load" /\ Others(w)
        /\ \/ tx[w].customer \notin DOMAIN profiles
           \/ /\ tx'[w].pc = AfterProfile(tx[w].event)
              /\ tx'[w].event = tx[w].event /\ tx'[w].writes = tx[w].writes
    BY <1>4, LoadFacts
  <2>2. rawEvents' = rawEvents /\ profiles' = profiles
    BY <1>4 DEF LoadProfile, tables
  <2>3. DecisionOK(tx'[w])
    BY <1>0, <2>1 DEF DecisionOK, Recorded, AfterProfile
  <2>4. QED
    BY <2>1, <2>2, <2>3, LocalLedger
<1>5. ASSUME NEW w \in Worker, SelectPurchase(w) PROVE LedgerInv'
  <2>1. /\ w \in Busy /\ tx[w].pc = "select_purchase" /\ Others(w)
        /\ tx'[w].event = tx[w].event /\ tx'[w].writes = tx[w].writes
        /\ \/ tx'[w].pc = "insert_purchase"
           \/ tx'[w].pc = "commit" /\ tx'[w].outcome \in {"sent_to_dlq", "processed"}
    BY <1>5, SelectFacts DEF DecidesTo, SameWork
  <2>2. rawEvents' = rawEvents /\ profiles' = profiles
    BY <1>5 DEF SelectPurchase, tables
  <2>3. /\ "raw_events" \in tx[w].writes /\ Storable[tx[w].event]
        /\ TypeOf[tx[w].event] = "purchase" /\ KnownIdentifiers(tx[w].event) # {}
    BY <1>0, <2>1 DEF DecisionOK, StageOK, Recorded
  <2>4. DecisionOK(tx'[w])
    BY <2>1, <2>3 DEF DecisionOK, Recorded, StatusesOf
  <2>5. QED
    BY <2>1, <2>2, <2>4, LocalLedger
<1>6. ASSUME NEW w \in Worker, InsertPurchase(w) PROVE LedgerInv'
  <2>1. /\ w \in Busy /\ tx[w].pc = "insert_purchase" /\ Others(w)
    BY <1>6, InsertFacts
  <2>2. rawEvents' = rawEvents /\ profiles' = profiles
    BY <1>6 DEF InsertPurchase, tables
  <2>3. CASE Step(w, RolledBack(tx[w]))
    <3>1. Ended(tx[w], tx'[w])
      BY <2>1, <2>3, EndedFacts
    <3>2. DecisionOK(tx'[w])
      BY <1>6, <2>3, <3>1, RolledBackOutcome, EndedDecision
    <3>3. QED
      BY <2>1, <2>2, <3>2, LocalLedger
  <2>4. CASE /\ SameWork(tx[w], tx'[w]) /\ tx'[w].pc = "evaluate"
             /\ tx'[w].writes = tx[w].writes \cup {"processed_purchases"}
    <3>1. DecisionOK(tx'[w])
      BY <1>0, <2>1, <2>4 DEF DecisionOK, Recorded, SameWork
    <3>2. QED
      BY <2>1, <2>2, <3>1, LocalLedger
  <2>5. QED
    <3>1. \/ Step(w, RolledBack(tx[w]))
          \/ ~(Ended(tx[w], tx'[w]) /\ tx'[w].pc = "mark_failed")
      BY <1>6, InsertEnds
    <3>2. QED
      BY <1>6, <2>3, <2>4, <3>1, InsertFacts
<1>7. ASSUME NEW w \in Worker, EvaluateSegments(w) PROVE LedgerInv'
  <2>1. /\ w \in Busy /\ tx[w].pc = "evaluate" /\ Others(w) /\ Zoned[tx[w].event]
        /\ tx'[w].event = tx[w].event /\ tx'[w].writes = tx[w].writes
        /\ tx'[w].pc = "save_profile"
    BY <1>7, EvaluateFacts
  <2>2. rawEvents' = rawEvents /\ profiles' = profiles
    BY <1>7 DEF EvaluateSegments, tables
  <2>3. DecisionOK(tx'[w])
    BY <1>0, <2>1 DEF DecisionOK, Recorded
  <2>4. QED
    BY <2>1, <2>2, <2>3, LocalLedger
<1>8. ASSUME NEW w \in Worker, SaveProfile(w) PROVE LedgerInv'
  <2>1. /\ w \in Busy /\ tx[w].pc = "save_profile" /\ Others(w)
        /\ tx'[w].event = tx[w].event
        /\ tx'[w].writes = tx[w].writes \cup {"customer_profiles"}
        /\ tx'[w].outcome = "processed" /\ tx'[w].pc = AfterLink(tx[w].todo)
    BY <1>8, SaveProfileFacts
  <2>2. rawEvents' = rawEvents /\ profiles' = profiles
    BY <1>8 DEF SaveProfile, tables
  <2>3. DecisionOK(tx'[w])
    BY <1>0, <2>1 DEF DecisionOK, StageOK, Recorded, StatusesOf, AfterLink
  <2>4. QED
    BY <2>1, <2>2, <2>3, LocalLedger
<1>9. ASSUME NEW w \in Worker, SaveLink(w) PROVE LedgerInv'
  <2>1. /\ w \in Busy /\ tx[w].pc = "save_link" /\ Others(w)
        /\ tx'[w].event = tx[w].event /\ tx'[w].writes = tx[w].writes
        /\ tx'[w].outcome = tx[w].outcome /\ tx'[w].pc = AfterLink(tx'[w].todo)
    BY <1>9, SaveLinkFacts
  <2>2. rawEvents' = rawEvents /\ profiles' = profiles
    BY <1>9 DEF SaveLink, tables
  <2>3. tx[w].outcome = "processed" /\ "raw_events" \in tx[w].writes
    BY <1>0, <2>1 DEF StageOK, Recorded
  <2>4. DecisionOK(tx'[w])
    BY <1>0, <2>1, <2>3 DEF DecisionOK, Recorded, StatusesOf, AfterLink
  <2>5. QED
    BY <2>1, <2>2, <2>4, LocalLedger
<1>10. ASSUME NEW w \in Worker, Commit(w) \/ CommitAnswerLost(w) PROVE LedgerInv'
  <2>1. /\ w \in Busy /\ ApplyWrites(w) /\ Others(w) /\ Ended(tx[w], tx'[w])
    BY <1>10, CommitFacts
  <2>2. DecisionOK(tx'[w])
    <3>1. Commit(w) => tx'[w].pc = "reply"
      BY <2>1, EndedFacts DEF Commit
    <3>2. QED
      BY <1>10, <2>1, <3>1, RolledBackOutcome, EndedDecision
  <2>3. DOMAIN profiles \subseteq DOMAIN profiles' /\ DOMAIN rawEvents \subseteq DOMAIN rawEvents'
    BY <2>1, TablesGrow
  <2>4. \A v \in Busy' : DecisionOK(tx[v])'
    <3>1. \A v \in Busy : DecisionOK(tx'[v])
      BY <1>0, <2>1, <2>2 DEF Others
    <3>2. QED
      BY <2>1, <2>3, <3>1 DEF Others, DecisionOK
  <2>5. rawEvents' = [e \in DOMAIN rawEvents' |-> rawEvents'[e]]
    BY <2>1 DEF ApplyWrites, Put, LedgerInv
  <2>6. QED
    BY <2>4, <2>5 DEF LedgerInv
<1>11. ASSUME NEW w \in Worker, StatementFails(w) \/ StatementRefused(w) \/ DeadlockVictim(w)
       PROVE  LedgerInv'
  BY <1>11, RollbackFacts, RolledBackOutcome, EndedDecision, LocalLedger DEF tables
<1>12. ASSUME NEW w \in Worker, MarkFailed(w) \/ MarkFailedFails(w) PROVE LedgerInv'
  <2>1. /\ w \in Busy /\ Others(w) /\ Ended(tx[w], tx'[w]) /\ tx'[w].pc = "reply"
        /\ profiles' = profiles
    BY <1>12, MarkFailedFacts
  <2>2. /\ DOMAIN rawEvents' = DOMAIN rawEvents
        /\ rawEvents' = [e \in DOMAIN rawEvents' |-> rawEvents'[e]]
    <3> DEFINE own == tx[w].event
    <3>1. \/ rawEvents' = rawEvents
          \/ rawEvents' = [rawEvents EXCEPT ![own] = "failed"]
      BY <1>12 DEF MarkFailed, MarkFailedFails, tables
    <3>2. CASE rawEvents' = rawEvents
      BY <3>2 DEF LedgerInv
    <3>3. CASE rawEvents' = [rawEvents EXCEPT ![own] = "failed"]
      BY <3>3
    <3>4. QED
      BY <3>1, <3>2, <3>3
  <2>3. DecisionOK(tx'[w])
    BY <2>1, EndedDecision
  <2>4. \A v \in Busy' : DecisionOK(tx[v])'
    <3>1. \A v \in Busy : DecisionOK(tx'[v])
      BY <1>0, <2>1, <2>3 DEF Others
    <3>2. QED
      BY <2>1, <2>2, <3>1 DEF Others, DecisionOK
  <2>5. QED
    BY <2>2, <2>4 DEF LedgerInv
<1>13. ASSUME NEW w \in Worker, Reply(w) \/ Crash(w) \/ RaiseTypeError(w)
       PROVE  LedgerInv'
  <2>1. /\ Busy' \subseteq Busy /\ \A v \in Busy' : tx'[v] = tx[v]
        /\ rawEvents' = rawEvents /\ profiles' = profiles
    BY <1>13, LeaveFacts DEF tables
  <2>2. QED
    BY <2>1 DEF LedgerInv, DecisionOK
<1>14. CASE Tick \/ CollectSession \/ UNCHANGED vars
  <2>1. UNCHANGED <<rawEvents, profiles, tx>>
    BY <1>14 DEF Tick, CollectSession, vars, tables
  <2>2. QED
    BY <2>1 DEF LedgerInv, DecisionOK, Busy
<1>15. QED
  BY <1>1, <1>2, <1>3, <1>4, <1>5, <1>6, <1>7, <1>8, <1>9, <1>10, <1>11, <1>12, <1>13,
     <1>14 DEF Next, Progress, Failure, Finished

LEMMA LedgerAlways == Spec => [](TypeOK /\ StageInv /\ SafeInv /\ OnceInv /\ LedgerInv)
<1>1. Spec => [](TypeOK /\ StageInv /\ SafeInv)
  BY BackAlways, PTL
<1>2. Spec => []OnceInv
  BY <1>1, OnceInit, OnceNext, PTL DEF Spec
<1>3. Spec => []LedgerInv
  BY <1>1, LedgerInit, LedgerNext, PTL DEF Spec
<1>4. QED
  BY <1>1, <1>2, <1>3, PTL

-----------------------------------------------------------------------------
(* How the steps of a transaction look to its caller *)

Closed == {"mark_failed", "reply"}

LEMMA Stages ==
  ASSUME NEW w \in Busy
  PROVE  /\ Ledger!InStage(w, "open") <=> tx[w].pc \notin Closed
         /\ Ledger!InStage(w, "broken") <=> tx[w].pc = "mark_failed"
         /\ Ledger!InStage(w, "answered") <=> tx[w].pc = "reply"
         /\ OpenCalls[w].event = tx[w].event
         /\ w \in DOMAIN OpenCalls
         /\ tx[w].pc # "reply" => OpenCalls[w].answer = "failed"
BY DEF Ledger!InStage, Ledger!Calling, OpenCalls, CallOf, Closed

\* A transaction that is rolled back was open: one that ended waits for nothing
\* and runs no statement.
LEMMA WhoRollsBack ==
  ASSUME TypeOK, NEW w \in Worker,
         StatementFails(w) \/ StatementRefused(w) \/ DeadlockVictim(w)
  PROVE  tx[w].pc \notin Closed
<1>1. CASE StatementFails(w)
  BY <1>1 DEF StatementFails, Statement, Closed
<1>2. CASE StatementRefused(w)
  BY <1>2 DEF StatementRefused, Refused, Closed
<1>3. CASE DeadlockVictim(w)
  <2>1. PICK S \in SUBSET Busy : w \in S /\ \A v \in S : Holders(v) \cap S # {}
    BY <1>3 DEF DeadlockVictim, InDeadlock
  <2>2. \E v : Blocks(tx[v], tx[w])
    BY <2>1 DEF Holders
  <2>3. QED
    BY <2>2 DEF Blocks, Closed
<1>4. QED
  BY <1>1, <1>2, <1>3

\* A statement: the call stays open.
LEMMA StaysOpen ==
  ASSUME NEW w \in Busy, Others(w), tx[w].pc \notin Closed, tx'[w].pc \notin Closed,
         tx'[w].event = tx[w].event
  PROVE  OpenCalls' = OpenCalls
<1>1. CallOf(tx'[w]) = CallOf(tx[w])
  BY DEF CallOf, Closed
<1>2. \A v \in Busy : CallOf(tx'[v]) = CallOf(tx[v])
  BY <1>1 DEF Others
<1>3. QED
  BY <1>2 DEF OpenCalls, Others

\* process_event is about to return.
LEMMA Answers ==
  ASSUME NEW w \in Busy, Others(w), tx'[w].pc = "reply", tx'[w].event = tx[w].event
  PROVE  Ledger!Answer(w, tx'[w].outcome)
<1> DEFINE s == tx'[w].outcome
           c == CallOf(tx[w])
           staged == [event |-> tx[w].event, stage |-> "answered", answer |-> c.answer]
           new == [event |-> tx[w].event, stage |-> "answered", answer |-> s]
           h == [OpenCalls EXCEPT ![w].stage = "answered"]
<1>1. OpenCalls' = [v \in Busy |-> IF v = w THEN new ELSE OpenCalls[v]]
  BY DEF OpenCalls, Others, CallOf
<1>2. w \in DOMAIN OpenCalls /\ DOMAIN OpenCalls = Busy /\ OpenCalls[w] = c
  BY DEF OpenCalls
<1>3. c = [event |-> tx[w].event, stage |-> c.stage, answer |-> c.answer]
  BY DEF CallOf
<1> HIDE DEF c, s
<1>4. DOMAIN h = Busy /\ h[w] = staged /\ \A v \in Busy : v # w => h[v] = OpenCalls[v]
  BY <1>2, <1>3
<1>5. [OpenCalls EXCEPT ![w].stage = "answered", ![w].answer = s] = [h EXCEPT ![w].answer = s]
  OBVIOUS
<1> HIDE DEF h
<1>6. [h EXCEPT ![w].answer = s]
        = [v \in DOMAIN h |-> IF v = w THEN [h[w] EXCEPT !.answer = s] ELSE h[v]]
  OBVIOUS
<1>7. [h[w] EXCEPT !.answer = s] = new
  BY <1>4
<1> HIDE DEF new
<1>8. [h EXCEPT ![w].answer = s] = [v \in Busy |-> IF v = w THEN new ELSE OpenCalls[v]]
  BY <1>4, <1>6, <1>7
<1>9. OpenCalls' = [OpenCalls EXCEPT ![w].stage = "answered", ![w].answer = s]
  BY <1>1, <1>5, <1>8
<1>10. QED
  BY <1>9 DEF Ledger!Answer, s

\* The transaction is gone and the caller not answered yet.
LEMMA Loses ==
  ASSUME NEW w \in Busy, Others(w), tx[w].pc \notin Closed, tx'[w].pc = "mark_failed",
         tx'[w].event = tx[w].event
  PROVE  Ledger!LoseTransaction(w)
<1> DEFINE d == [OpenCalls EXCEPT ![w].stage = "broken"]
<1>1. OpenCalls'[w] = [event |-> tx[w].event, stage |-> "broken", answer |-> "failed"]
  BY DEF OpenCalls, Others, CallOf
<1>2. OpenCalls[w] = [event |-> tx[w].event, stage |-> "open", answer |-> "failed"]
  BY DEF OpenCalls, CallOf, Closed
<1>3. d[w] = [event |-> tx[w].event, stage |-> "broken", answer |-> "failed"]
  BY <1>2 DEF OpenCalls
<1>4. DOMAIN d = Busy /\ \A v \in Busy : v # w => d[v] = OpenCalls[v]
  BY DEF OpenCalls
<1>5. DOMAIN OpenCalls' = Busy /\ \A v \in Busy : v # w => OpenCalls'[v] = OpenCalls[v]
  BY DEF OpenCalls, Others
<1>6. OpenCalls' = d
  BY <1>1, <1>3, <1>4, <1>5 DEF OpenCalls
<1>7. QED
  BY <1>6 DEF Ledger!LoseTransaction

\* The worker takes a message up.
LEMMA Begins ==
  ASSUME NEW w \in Worker, NEW e \in Event, Begin(w, e)
  PROVE  Ledger!ProcessEvent(w, e)
<1>1. /\ w \notin Busy /\ Busy' = Busy \cup {w} /\ \A v \in Busy : v # w /\ tx'[v] = tx[v]
      /\ tx'[w].pc = "record" /\ tx'[w].event = e
  BY BeginFacts
<1>2. rawEvents' = rawEvents
  BY BeginFacts DEF tables
<1>3. CallOf(tx'[w]) = Ledger!NewCall(e)
  BY <1>1 DEF CallOf, Ledger!NewCall
<1>4. OpenCalls' = Ledger!Put(OpenCalls, w, Ledger!NewCall(e))
  BY <1>1, <1>3 DEF OpenCalls, Ledger!Put
<1>5. w \notin Ledger!Calling
  BY <1>1 DEF Ledger!Calling, OpenCalls
<1>6. QED
  BY <1>2, <1>4, <1>5 DEF Ledger!ProcessEvent

\* The worker is done with a message, or gone.
LEMMA Leaves ==
  ASSUME NEW w \in Worker, Reply(w) \/ Crash(w) \/ RaiseTypeError(w)
  PROVE  Ledger!Abandon(w)
<1>1. Busy' = Busy \ {w} /\ \A v \in Busy' : tx'[v] = tx[v]
  BY LeaveFacts
<1>2. w \in Busy /\ rawEvents' = rawEvents
  BY DEF Reply, Crash, RaiseTypeError, At, tables
<1>3. OpenCalls' = Ledger!Drop(OpenCalls, w)
  BY <1>1 DEF OpenCalls, Ledger!Drop
<1>4. QED
  BY <1>2, <1>3 DEF Ledger!Abandon, Ledger!Calling, OpenCalls

\* What a commit does to the ledger.
LEMMA CommitEnters ==
  ASSUME TypeOK, OnceInv, LedgerInv, NEW w \in Busy, tx[w].pc = "commit", ApplyWrites(w)
  PROVE  \/ Ledger!Enter(w, tx[w].outcome)
         \/ /\ tx[w].outcome = "processed" /\ tx[w].event \in DOMAIN rawEvents
            /\ rawEvents' = rawEvents
<1> DEFINE t == tx[w]
<1>1. t.event \in Event /\ DecisionOK(t)
  BY TransactionFields DEF TypeOK, LedgerInv, Busy
<1>2. CASE "raw_events" \notin t.writes
  BY <1>1, <1>2 DEF DecisionOK, ApplyWrites
<1>3. CASE "raw_events" \in t.writes
  <2>1. t.event \notin DOMAIN rawEvents /\ t.outcome \in StatusesOf(t.event)
    BY <1>1, <1>3 DEF DecisionOK, OnceInv, UniqueRaw
  <2>2. rawEvents' = Ledger!Put(rawEvents, t.event, t.outcome)
    BY <1>3 DEF ApplyWrites, Put, Ledger!Put
  <2>3. Ledger!InStage(w, "open") /\ OpenCalls[w].event = t.event
    BY Stages DEF Closed
  <2>4. QED
    BY <1>1, <2>1, <2>2, <2>3 DEF Ledger!Enter
<1>4. QED
  BY <1>2, <1>3

\* The second transaction marks the row of the event, if there is one.
LEMMA MarksMap ==
  ASSUME LedgerInv, NEW w \in Worker, MarkFailed(w)
  PROVE  Ledger!MarkFailed(w)
<1>1. /\ w \in Busy /\ tx[w].pc = "mark_failed" /\ Others(w) /\ tx'[w].event = tx[w].event
      /\ tx'[w].pc = "reply" /\ tx'[w].outcome = tx[w].outcome
  BY MarkFailedFacts DEF Ended
<1>2. Ledger!Answer(w, "failed")
  BY <1>1, Answers DEF LedgerInv, DecisionOK
<1>3. rawEvents' = [e \in DOMAIN rawEvents |->
                      IF e = tx[w].event THEN "failed" ELSE rawEvents[e]]
  <2> DEFINE own == tx[w].event
  <2>1. CASE own \in DOMAIN rawEvents
    BY <2>1 DEF MarkFailed
  <2>2. CASE own \notin DOMAIN rawEvents
    BY <2>2 DEF MarkFailed, LedgerInv
  <2>3. QED
    BY <2>1, <2>2
<1>4. QED
  BY <1>1, <1>2, <1>3, Stages DEF Ledger!MarkFailed

LEMMA LedgerInitMaps == Init => Ledger!LedgerInit
BY DEF Init, Ledger!LedgerInit, OpenCalls, Busy

LEMMA LedgerNextMaps ==
  TypeOK /\ StageInv /\ OnceInv /\ LedgerInv /\ [Next]_vars
    => [Ledger!LedgerNext]_<<rawEvents, OpenCalls>>
<1> DEFINE maps == Ledger!LedgerNext \/ UNCHANGED <<rawEvents, OpenCalls>>
<1> SUFFICES ASSUME TypeOK, StageInv, OnceInv, LedgerInv, [Next]_vars PROVE maps
  OBVIOUS
\* A rollback.
<1>1. ASSUME NEW w \in Worker, w \in Busy, tx[w].pc \notin Closed, Others(w),
             Ended(tx[w], tx'[w]), tx'[w].pc = "mark_failed", rawEvents' = rawEvents
      PROVE  maps
  <2>1. Ledger!LoseTransaction(w)
    BY <1>1, Loses DEF Ended
  <2>2. Ledger!Break(w)
    BY <1>1, <2>1, Stages DEF Ledger!Break
  <2>3. QED
    BY <2>2 DEF Ledger!LedgerNext
\* Any other statement.
<1>2. ASSUME NEW w \in Busy, Others(w), tx[w].pc \notin Closed, tx'[w].pc \notin Closed,
             tx'[w].event = tx[w].event, rawEvents' = rawEvents
      PROVE  maps
  BY <1>2, StaysOpen
<1>3. ASSUME NEW w \in Worker, NEW e \in Event, Begin(w, e) PROVE maps
  BY <1>3, Begins DEF Ledger!LedgerNext
<1>4. ASSUME NEW w \in Worker, RecordReceived(w) PROVE maps
  <2>1. /\ w \in Busy /\ Others(w) /\ tx[w].pc = "record"
        /\ tx'[w].pc \in {"commit", "resolve"} /\ tx'[w].event = tx[w].event
    BY <1>4, RecordFacts DEF DecidesTo, SameWork
  <2>2. rawEvents' = rawEvents
    BY <1>4 DEF RecordReceived, tables
  <2>3. QED
    BY <1>2, <2>1, <2>2 DEF Closed
<1>5. ASSUME NEW w \in Worker, ResolveKnownProfile(w) PROVE maps
  <2>1. /\ w \in Busy /\ Others(w) /\ tx[w].pc = "resolve"
        /\ tx'[w].pc \in {"commit", "load", AfterProfile(tx[w].event)}
        /\ tx'[w].event = tx[w].event
    BY <1>5, ResolveFacts DEF DecidesTo, SameWork
  <2>2. rawEvents' = rawEvents
    BY <1>5 DEF ResolveKnownProfile, tables
  <2>3. QED
    BY <1>2, <2>1, <2>2 DEF Closed, AfterProfile
<1>6. ASSUME NEW w \in Worker, LoadProfile(w) PROVE maps
  <2>1. /\ w \in Busy /\ Others(w) /\ tx[w].pc = "load"
        /\ tx'[w].pc \in {"commit", AfterProfile(tx[w].event)}
        /\ tx'[w].event = tx[w].event
    BY <1>6, LoadFacts DEF DecidesTo, SameWork
  <2>2. rawEvents' = rawEvents
    BY <1>6 DEF LoadProfile, tables
  <2>3. QED
    BY <1>2, <2>1, <2>2 DEF Closed, AfterProfile
<1>7. ASSUME NEW w \in Worker, SelectPurchase(w) PROVE maps
  <2>1. /\ w \in Busy /\ Others(w) /\ tx[w].pc = "select_purchase"
        /\ tx'[w].pc \in {"commit", "insert_purchase"} /\ tx'[w].event = tx[w].event
    BY <1>7, SelectFacts DEF DecidesTo, SameWork
  <2>2. rawEvents' = rawEvents
    BY <1>7 DEF SelectPurchase, tables
  <2>3. QED
    BY <1>2, <2>1, <2>2 DEF Closed
<1>8. ASSUME NEW w \in Worker, InsertPurchase(w) PROVE maps
  <2>1. w \in Busy /\ Others(w) /\ tx[w].pc = "insert_purchase"
    BY <1>8, InsertFacts
  <2>2. rawEvents' = rawEvents
    BY <1>8 DEF InsertPurchase, tables
  <2>3. CASE Ended(tx[w], tx'[w]) /\ tx'[w].pc = "mark_failed"
    BY <1>1, <2>1, <2>2, <2>3 DEF Closed
  <2>4. CASE tx'[w].pc = "evaluate" /\ tx'[w].event = tx[w].event
    BY <1>2, <2>1, <2>2, <2>4 DEF Closed
  <2>5. QED
    BY <1>8, <2>3, <2>4, InsertFacts DEF SameWork
<1>9. ASSUME NEW w \in Worker, EvaluateSegments(w) PROVE maps
  <2>1. /\ w \in Busy /\ Others(w) /\ tx[w].pc = "evaluate"
        /\ tx'[w].pc = "save_profile" /\ tx'[w].event = tx[w].event
    BY <1>9, EvaluateFacts
  <2>2. rawEvents' = rawEvents
    BY <1>9 DEF EvaluateSegments, tables
  <2>3. QED
    BY <1>2, <2>1, <2>2 DEF Closed
<1>10. ASSUME NEW w \in Worker, SaveProfile(w) PROVE maps
  <2>1. /\ w \in Busy /\ Others(w) /\ tx[w].pc = "save_profile"
        /\ tx'[w].pc = AfterLink(tx[w].todo) /\ tx'[w].event = tx[w].event
    BY <1>10, SaveProfileFacts
  <2>2. rawEvents' = rawEvents
    BY <1>10 DEF SaveProfile, tables
  <2>3. QED
    BY <1>2, <2>1, <2>2 DEF Closed, AfterLink
<1>11. ASSUME NEW w \in Worker, SaveLink(w) PROVE maps
  <2>1. /\ w \in Busy /\ Others(w) /\ tx[w].pc = "save_link"
        /\ tx'[w].pc = AfterLink(tx'[w].todo) /\ tx'[w].event = tx[w].event
    BY <1>11, SaveLinkFacts
  <2>2. rawEvents' = rawEvents
    BY <1>11 DEF SaveLink, tables
  <2>3. QED
    BY <1>2, <2>1, <2>2 DEF Closed, AfterLink
<1>12. ASSUME NEW w \in Worker, Commit(w) PROVE maps
  <2>1. /\ w \in Busy /\ Others(w) /\ tx[w].pc = "commit" /\ ApplyWrites(w)
        /\ tx'[w].event = tx[w].event /\ tx'[w].pc = "reply"
        /\ tx'[w].outcome = tx[w].outcome
    BY <1>12, EndedFacts DEF Commit, At, Ended
  <2>2. tx[w].outcome \in Ledger!Status
    BY <2>1 DEF TypeOK, Busy, Transaction, Status, Ledger!Status
  <2>3. Ledger!Answer(w, tx[w].outcome)
    BY <2>1, Answers
  <2>4. CASE Ledger!Enter(w, tx[w].outcome)
    BY <2>2, <2>3, <2>4 DEF Ledger!Record, Ledger!LedgerNext
  <2>5. CASE /\ tx[w].outcome = "processed" /\ tx[w].event \in DOMAIN rawEvents
             /\ rawEvents' = rawEvents
    <3>1. Ledger!Repeat(w)
      BY <2>1, <2>3, <2>5, Stages DEF Ledger!Repeat, Closed
    <3>2. QED
      BY <3>1 DEF Ledger!LedgerNext
  <2>6. QED
    BY <2>1, <2>4, <2>5, CommitEnters
<1>13. ASSUME NEW w \in Worker, CommitAnswerLost(w) PROVE maps
  <2>1. /\ w \in Busy /\ Others(w) /\ tx[w].pc = "commit" /\ ApplyWrites(w)
        /\ Ended(tx[w], tx'[w]) /\ tx'[w].pc = "mark_failed"
    BY <1>13, EndedFacts DEF CommitAnswerLost, At
  <2>2. tx[w].outcome \in Ledger!Status
    BY <2>1 DEF TypeOK, Busy, Transaction, Status, Ledger!Status
  <2>3. Ledger!LoseTransaction(w)
    BY <2>1, Loses DEF Ended, Closed
  <2>4. CASE Ledger!Enter(w, tx[w].outcome)
    BY <2>2, <2>3, <2>4 DEF Ledger!RecordUnanswered, Ledger!LedgerNext
  <2>5. CASE rawEvents' = rawEvents
    BY <1>1, <2>1, <2>5 DEF Closed
  <2>6. QED
    BY <2>1, <2>4, <2>5, CommitEnters
<1>14. ASSUME NEW w \in Worker, StatementFails(w) \/ StatementRefused(w) \/ DeadlockVictim(w)
       PROVE  maps
  <2>1. /\ w \in Busy /\ Others(w) /\ Ended(tx[w], tx'[w]) /\ tx'[w].pc = "mark_failed"
        /\ rawEvents' = rawEvents
    BY <1>14, RollbackFacts DEF tables
  <2>2. tx[w].pc \notin Closed
    BY <1>14, WhoRollsBack
  <2>3. QED
    BY <1>1, <2>1, <2>2
<1>15. ASSUME NEW w \in Worker, MarkFailed(w) PROVE maps
  BY <1>15, MarksMap DEF Ledger!LedgerNext
<1>16. ASSUME NEW w \in Worker, MarkFailedFails(w) PROVE maps
  <2>1. /\ w \in Busy /\ Others(w) /\ tx[w].pc = "mark_failed" /\ tx'[w].pc = "reply"
        /\ tx'[w].event = tx[w].event /\ tx'[w].outcome = tx[w].outcome
    BY <1>16, MarkFailedFacts DEF Ended
  <2>2. rawEvents' = rawEvents
    BY <1>16 DEF MarkFailedFails, tables
  <2>3. Ledger!Answer(w, "failed")
    BY <2>1, Answers DEF LedgerInv, DecisionOK
  <2>4. Ledger!AnswerFailed(w)
    BY <2>1, <2>2, <2>3, Stages DEF Ledger!AnswerFailed
  <2>5. QED
    BY <2>4 DEF Ledger!LedgerNext
<1>17. ASSUME NEW w \in Worker, Reply(w) \/ Crash(w) \/ RaiseTypeError(w) PROVE maps
  BY <1>17, Leaves DEF Ledger!LedgerNext
<1>18. CASE Tick \/ CollectSession \/ UNCHANGED vars
  BY <1>18 DEF Tick, CollectSession, vars, tables, OpenCalls, Busy
<1>19. QED
  BY <1>3, <1>4, <1>5, <1>6, <1>7, <1>8, <1>9, <1>10, <1>11, <1>12, <1>13, <1>14, <1>15,
     <1>16, <1>17, <1>18 DEF Next, Progress, Failure, Finished

\* The callers of process_event see one ledger, for every number of workers and
\* failures: an event enters raw_events once, in the commit that answers for it
\* or whose answer is lost, with a status its content allows; a repeated event is
\* answered processed; a broken attempt leaves nothing or everything.
THEOREM LedgerImplemented == Spec => ImplementsLedger
BY LedgerAlways, LedgerInitMaps, LedgerNextMaps, PTL DEF Spec, ImplementsLedger, Ledger!LedgerSpec
=============================================================================
