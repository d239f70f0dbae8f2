----------------------- MODULE EventProcessingProofs -----------------------
(***************************************************************************)
(* Theorems about EventProcessing for every set of workers, events and     *)
(* customers and every bound, with the inductive invariants they rest on.  *)
(***************************************************************************)
EXTENDS EventProcessing, TLAPS

-----------------------------------------------------------------------------
(* Lemmas about the rules *)

\* A rounded amount is a natural number.
LEMMA MoneyType == ASSUME NEW a \in Nat PROVE Money(a) \in Nat
<1> DEFINE q == (2 * a + Cent) \div (2 * Cent)
<1>1. Cent \in Nat /\ Cent > 0
  BY Thresholds
<1>2. q \in Nat
  BY <1>1, SMTT(30)
<1>3. Cent * q \in Nat
  BY <1>1, <1>2
<1>4. QED
  BY <1>3 DEF Money

LEMMA NewProfileType == ASSUME NEW e \in Event PROVE NewProfile(e) \in Profile
BY EventAttributes DEF NewProfile, Profile, Never

\* update_profile_from_event keeps a profile well formed.
LEMMA UpdateType ==
  ASSUME NEW p \in Profile, NEW e \in Event
  PROVE  UpdateProfileFromEvent(p, e) \in Profile
<1>1. OccurredAt[e] \in Nat /\ PurchaseOf[e].amount \in Nat
  BY EventAttributes DEF Payload
<1>2. [p.recent EXCEPT ![e] = @ + 1] \in [Event -> Nat]
  BY DEF Profile
<1>3. QED
  BY <1>1, <1>2 DEF UpdateProfileFromEvent, Profile, Earlier, Later, OneIf

LEMMA RowType == ASSUME NEW p \in Profile PROVE Row(p) \in Profile
<1>1. Money(p.revenue) \in Nat
  BY MoneyType DEF Profile
<1>2. QED
  BY <1>1 DEF Row, Profile

LEMMA MergedRowType ==
  ASSUME NEW p \in Profile, NEW q \in Profile PROVE MergedRow(p, q) \in Profile
BY RowType DEF MergedRow, Profile, Earlier, Later, Never

\* A saved row has the recent_events of the profile in memory.
LEMMA SavedRecent ==
  ASSUME NEW p \in Profile, NEW q \in Profile
  PROVE  Row(q).recent = q.recent /\ MergedRow(p, q).recent = q.recent
BY DEF Row, MergedRow, Profile

-----------------------------------------------------------------------------
(* How an action changes the open transactions *)

LEMMA SteppedTx ==
  ASSUME NEW w \in Busy, NEW t, Step(w, t)
  PROVE  /\ Busy' = Busy
         /\ tx'[w] = t
         /\ \A v \in Busy : v # w => tx'[v] = tx[v]
BY DEF Step, Busy

LEMMA BegunTx ==
  ASSUME NEW w, NEW t, tx' = Put(tx, w, t)
  PROVE  /\ Busy' = Busy \cup {w}
         /\ tx'[w] = t
         /\ \A v \in Busy : v # w => tx'[v] = tx[v]
BY DEF Put, Busy

LEMMA DroppedTx ==
  ASSUME NEW w, tx' = Drop(tx, w)
  PROVE  /\ Busy' = Busy \ {w}
         /\ \A v \in Busy' : tx'[v] = tx[v]
BY DEF Drop, Busy

-----------------------------------------------------------------------------
(* Type correctness *)

TxTypes == DOMAIN tx \subseteq Worker /\ \A w \in DOMAIN tx : tx[w] \in Transaction

LEMMA NewTransactionType ==
  ASSUME NEW e \in Event PROVE NewTransaction(e) \in Transaction
BY NewProfileType DEF NewTransaction, Transaction, Pc, Statement, Status

LEMMA TransactionFields ==
  ASSUME NEW t \in Transaction
  PROVE  /\ t.event \in Event
         /\ t.profile \in Profile
         /\ RolledBack(t) \in Transaction
         /\ Replied(t) \in Transaction
         /\ \A s \in Status : Decided(t, s) \in Transaction
<1>1. t.event \in Event /\ t.profile \in Profile /\ t.outcome \in Status
  BY DEF Transaction
<1>2. NewTransaction(t.event) \in Transaction
  BY <1>1, NewTransactionType
<1>3. RolledBack(t) \in Transaction /\ Replied(t) \in Transaction
  BY <1>1, <1>2 DEF RolledBack, Replied, Transaction, Pc, Statement
<1>4. ASSUME NEW s \in Status PROVE Decided(t, s) \in Transaction
  BY DEF Decided, Transaction, Pc, Statement
<1>5. QED
  BY <1>1, <1>3, <1>4

\* What one transaction becomes stays a transaction, and the others are the same.
LEMMA SteppedTypes ==
  ASSUME TypeOK, NEW w \in Busy, NEW t \in Transaction, Step(w, t)
  PROVE  TxTypes'
BY SteppedTx DEF TypeOK, TxTypes, Busy

LEMMA ApplyWritesTypes ==
  ASSUME TypeOK, NEW w \in Busy, ApplyWrites(w),
         "customer_profiles" \in tx[w].writes => tx[w].customer \in Customer,
         "processed_purchases" \in tx[w].writes => tx[w].customer \in Customer,
         tx[w].claimed # {} => tx[w].customer \in Customer
  PROVE  /\ DOMAIN rawEvents' \subseteq Event
         /\ \A e \in DOMAIN rawEvents' : rawEvents'[e] \in Status
         /\ DOMAIN links' \subseteq Identifier
         /\ \A i \in DOMAIN links' : links'[i] \in Customer
         /\ DOMAIN profiles' \subseteq Customer
         /\ \A c \in DOMAIN profiles' : profiles'[c] \in Profile
         /\ DOMAIN purchases' \subseteq Order
         /\ \A o \in DOMAIN purchases' : purchases'[o] \in PurchaseRow
         /\ DOMAIN memberships' = DOMAIN profiles'
         /\ \A c \in DOMAIN memberships' : memberships'[c] \subseteq Segment
<1> DEFINE t == tx[w]
<1>1. t \in Transaction
  BY DEF TypeOK, Busy
<1>2. /\ DOMAIN rawEvents' \subseteq Event
      /\ \A e \in DOMAIN rawEvents' : rawEvents'[e] \in Status
  BY <1>1 DEF TypeOK, ApplyWrites, Put, Transaction
<1>3. /\ DOMAIN links' \subseteq Identifier
      /\ \A i \in DOMAIN links' : links'[i] \in Customer
  BY <1>1 DEF TypeOK, ApplyWrites, Transaction
<1>4. /\ DOMAIN profiles' \subseteq Customer
      /\ \A c \in DOMAIN profiles' : profiles'[c] \in Profile
  <2>1. t.profile \in Profile /\ Row(t.profile) \in Profile
    BY <1>1, RowType DEF Transaction
  <2>2. \A c \in DOMAIN profiles : MergedRow(profiles[c], t.profile) \in Profile
    BY <2>1, MergedRowType DEF TypeOK
  <2>3. QED
    BY <2>1, <2>2 DEF TypeOK, ApplyWrites, Put
<1>5. /\ DOMAIN purchases' \subseteq Order
      /\ \A o \in DOMAIN purchases' : purchases'[o] \in PurchaseRow
  <2>1. t.event \in Event
    BY <1>1 DEF Transaction
  <2>2. PurchaseOf[t.event].order \in Order /\ Money(PurchaseOf[t.event].amount) \in Nat
    BY <2>1, EventAttributes, MoneyType DEF Payload
  <2>3. QED
    BY <2>1, <2>2 DEF TypeOK, ApplyWrites, Put, PurchaseRow
<1>6. /\ DOMAIN memberships' = DOMAIN profiles'
      /\ \A c \in DOMAIN memberships' : memberships'[c] \subseteq Segment
  BY <1>1 DEF TypeOK, ApplyWrites, Put, Transaction
<1>7. QED
  BY <1>2, <1>3, <1>4, <1>5, <1>6

-----------------------------------------------------------------------------
(* What is known of a transaction at each statement *)

Recorded == {"resolve", "load", "select_purchase", "insert_purchase",
             "evaluate", "save_profile", "save_link"}
Resolved == Recorded \ {"resolve"}

\* An open transaction has inserted its event before anything else, knows its
\* customer before it writes for one, and has read no profile before load.
StageOK(t) ==
  /\ t.pc \in {"record", "mark_failed", "reply"} => t.writes = {}
  /\ t.pc \in Recorded => "raw_events" \in t.writes
  /\ t.writes # {} => "raw_events" \in t.writes
  /\ t.pc \in Resolved => t.customer \in Customer
  /\ t.writes \cap {"processed_purchases", "customer_profiles"} # {} =>
       t.customer \in Customer
  /\ "customer_profiles" \in t.writes =>
       t.pc \in {"save_link", "commit"} /\ t.outcome = "processed"
  /\ t.pc = "save_link" => "customer_profiles" \in t.writes
  /\ t.claimed # {} => "customer_profiles" \in t.writes
  /\ t.pc \in {"record", "resolve", "load", "mark_failed", "reply"} =>
       \A e \in Event : t.profile.recent[e] = 0

StageInv == \A w \in Busy : StageOK(tx[w])

LEMMA NewTransactionStage ==
  ASSUME NEW e \in Event
  PROVE  /\ StageOK(NewTransaction(e))
         /\ StageOK([NewTransaction(e) EXCEPT !.pc = "mark_failed"])
         /\ \A s : StageOK([NewTransaction(e) EXCEPT !.pc = "reply", !.outcome = s])
BY DEF StageOK, NewTransaction, NewProfile, Recorded, Resolved

LEMMA EndedStage ==
  ASSUME NEW t \in Transaction
  PROVE  StageOK(RolledBack(t)) /\ StageOK(Replied(t))
BY NewTransactionStage, TransactionFields DEF RolledBack, Replied

\* A step of one transaction that writes no table.
LEMMA LocalStep ==
  ASSUME TypeOK, StageInv, NEW w \in Busy, NEW t \in Transaction, StageOK(t),
         Step(w, t), UNCHANGED <<tables, now, deliveries, orphans>>,
         faults' \in 0 .. MaxFaults
  PROVE  TypeOK' /\ StageInv'
<1>1. TxTypes'
  BY SteppedTypes
<1>2. TypeOK'
  BY <1>1 DEF TypeOK, TxTypes, tables
<1>3. StageInv'
  BY SteppedTx DEF StageInv
<1>4. QED
  BY <1>2, <1>3

LEMMA FaultType ==
  ASSUME TypeOK, OneFault PROVE faults' \in 0 .. MaxFaults
BY Bounds DEF TypeOK, OneFault

LEMMA StageInit == Init => TypeOK /\ StageInv
<1> SUFFICES ASSUME Init PROVE TypeOK /\ StageInv
  OBVIOUS
<1>1. DOMAIN << >> = {}
  OBVIOUS
<1>2. QED
  BY <1>1, Bounds DEF Init, TypeOK, StageInv, Busy

LEMMA StageNext == TypeOK /\ StageInv /\ [Next]_vars => TypeOK' /\ StageInv'
<1> SUFFICES ASSUME TypeOK, StageInv, [Next]_vars PROVE TypeOK' /\ StageInv'
  OBVIOUS
<1>0. ASSUME NEW w \in Busy
      PROVE  /\ w \in Worker /\ tx[w] \in Transaction /\ StageOK(tx[w])
             /\ tx[w].event \in Event /\ tx[w].profile \in Profile
             /\ faults \in 0 .. MaxFaults
  BY TransactionFields DEF TypeOK, StageInv, Busy
<1>1. ASSUME NEW w \in Worker, NEW e \in Event, Begin(w, e) PROVE TypeOK' /\ StageInv'
  <2>1. NewTransaction(e) \in Transaction /\ StageOK(NewTransaction(e))
    BY NewTransactionType, NewTransactionStage
  <2>2. /\ Busy' = Busy \cup {w}
        /\ tx'[w] = NewTransaction(e)
        /\ \A v \in Busy : v # w => tx'[v] = tx[v]
    BY <1>1, BegunTx DEF Begin
  <2>3. TxTypes' /\ StageInv'
    BY <2>1, <2>2 DEF TypeOK, TxTypes, StageInv, Busy
  <2>4. deliveries' \in [Event -> Nat]
    BY <1>1 DEF Begin, TypeOK
  <2>5. QED
    BY <1>1, <2>3, <2>4 DEF Begin, TypeOK, TxTypes, tables
<1>2. ASSUME NEW w \in Worker, RecordReceived(w) PROVE TypeOK' /\ StageInv'
  <2> DEFINE t == tx[w]
             created == [t EXCEPT !.writes = {"raw_events"}]
             u == IF t.event \in DOMAIN rawEvents THEN Decided(t, "processed")
                  ELSE IF TypeOf[t.event] = "unsupported"
                       THEN Decided(created, "sent_to_dlq")
                  ELSE IF KnownIdentifiers(t.event) = {}
                       THEN Decided(created, "ignored_anonymous")
                  ELSE [created EXCEPT !.pc = "resolve"]
  <2>1. w \in Busy /\ t.pc = "record" /\ Step(w, u) /\ UNCHANGED <<tables, env>>
    BY <1>2 DEF RecordReceived, At
  <2>2. t \in Transaction /\ StageOK(t) /\ faults \in 0 .. MaxFaults
    BY <1>0, <2>1
  <2>3. created \in Transaction
    BY <2>2 DEF Transaction, Table
  <2>4. u \in Transaction
    <3>1. [created EXCEPT !.pc = "resolve"] \in Transaction
      BY <2>3 DEF Transaction, Pc, Statement
    <3>2. \A s \in Status : Decided(t, s) \in Transaction /\ Decided(created, s) \in Transaction
      BY <2>2, <2>3, TransactionFields
    <3>3. QED
      BY <3>1, <3>2 DEF Status
  <2>5. StageOK(u)
    BY <2>1, <2>2 DEF StageOK, Decided, Transaction, Recorded, Resolved
  <2>6. QED
    BY <2>1, <2>2, <2>4, <2>5, LocalStep DEF env
<1>3. ASSUME NEW w \in Worker, ResolveKnownProfile(w) PROVE TypeOK' /\ StageInv'
  <2> DEFINE t == tx[w]
             todo == KnownIdentifiers(t.event) \ Linked(t)
  <2>1. w \in Busy /\ t.pc = "resolve" /\ UNCHANGED <<tables, env>>
    BY <1>3 DEF ResolveKnownProfile, At
  <2>2. t \in Transaction /\ StageOK(t) /\ t.event \in Event /\ faults \in 0 .. MaxFaults
    BY <1>0, <2>1
  <2>3. todo \in SUBSET Identifier
    BY <2>2, EventAttributes DEF KnownIdentifiers
  <2>4. CASE \E c \in Customer :
               Step(w, [t EXCEPT !.pc = AfterProfile(t.event), !.customer = c, !.todo = todo])
    <3>1. PICK c \in Customer :
            Step(w, [t EXCEPT !.pc = AfterProfile(t.event), !.customer = c, !.todo = todo])
      BY <2>4
    <3> DEFINE u == [t EXCEPT !.pc = AfterProfile(t.event), !.customer = c, !.todo = todo]
    <3>2. u \in Transaction
      BY <2>2, <2>3 DEF AfterProfile, Transaction, Pc, Statement
    <3>3. StageOK(u)
      BY <2>1, <2>2, <3>2 DEF StageOK, AfterProfile, Transaction, Recorded, Resolved
    <3>4. QED
      BY <2>1, <2>2, <3>1, <3>2, <3>3, LocalStep DEF env
  <2>5. CASE \E c \in Customer :
               Step(w, [t EXCEPT !.pc = "load", !.customer = c, !.todo = todo])
    <3>1. PICK c \in Customer :
            Step(w, [t EXCEPT !.pc = "load", !.customer = c, !.todo = todo])
      BY <2>5
    <3> DEFINE u == [t EXCEPT !.pc = "load", !.customer = c, !.todo = todo]
    <3>2. u \in Transaction
      BY <2>2, <2>3 DEF Transaction, Pc, Statement
    <3>3. StageOK(u)
      BY <2>1, <2>2, <3>2 DEF StageOK, Transaction, Recorded, Resolved
    <3>4. QED
      BY <2>1, <2>2, <3>1, <3>2, <3>3, LocalStep DEF env
  <2>6. CASE Step(w, Decided(t, "sent_to_dlq"))
    <3>1. Decided(t, "sent_to_dlq") \in Transaction
      BY <2>2, TransactionFields DEF Status
    <3>2. StageOK(Decided(t, "sent_to_dlq"))
      BY <2>1, <2>2 DEF StageOK, Decided, Transaction, Recorded, Resolved
    <3>3. QED
      BY <2>1, <2>2, <2>6, <3>1, <3>2, LocalStep DEF env
  <2>7. QED
    BY <1>3, <2>4, <2>5, <2>6 DEF ResolveKnownProfile
<1>4. ASSUME NEW w \in Worker, LoadProfile(w) PROVE TypeOK' /\ StageInv'
  <2> DEFINE t == tx[w]
             u == IF t.customer \in DOMAIN profiles
                  THEN [t EXCEPT !.pc = AfterProfile(t.event),
                                 !.profile = profiles[t.customer]]
                  ELSE Decided(t, "failed")
  <2>1. w \in Busy /\ t.pc = "load" /\ Step(w, u) /\ UNCHANGED <<tables, env>>
    BY <1>4 DEF LoadProfile, At
  <2>2. t \in Transaction /\ StageOK(t) /\ faults \in 0 .. MaxFaults
    BY <1>0, <2>1
  <2>3. u \in Transaction
    <3>1. ASSUME NEW p \in Profile
          PROVE  [t EXCEPT !.pc = AfterProfile(t.event), !.profile = p] \in Transaction
      BY <2>2 DEF AfterProfile, Transaction, Pc, Statement
    <3>2. Decided(t, "failed") \in Transaction
      BY <2>2, TransactionFields DEF Status
    <3>3. QED
      BY <3>1, <3>2 DEF TypeOK
  <2>4. StageOK(u)
    BY <2>1, <2>2 DEF StageOK, Decided, AfterProfile, Transaction, Recorded, Resolved
  <2>5. QED
    BY <2>1, <2>2, <2>3, <2>4, LocalStep DEF env
<1>5. ASSUME NEW w \in Worker, SelectPurchase(w) PROVE TypeOK' /\ StageInv'
  <2> DEFINE t == tx[w]
  <2>1. w \in Busy /\ t.pc = "select_purchase" /\ UNCHANGED <<tables, env>>
    BY <1>5 DEF SelectPurchase, At
  <2>2. t \in Transaction /\ StageOK(t) /\ faults \in 0 .. MaxFaults
    BY <1>0, <2>1
  <2>3. PICK u \in {Decided(t, "sent_to_dlq"), Decided(t, "processed"),
                    [t EXCEPT !.pc = "insert_purchase"]} : Step(w, u)
    BY <1>5 DEF SelectPurchase
  <2>4. u \in Transaction
    <3>1. [t EXCEPT !.pc = "insert_purchase"] \in Transaction
      BY <2>2 DEF Transaction, Pc, Statement
    <3>2. \A s \in Status : Decided(t, s) \in Transaction
      BY <2>2, TransactionFields
    <3>3. QED
      BY <3>1, <3>2 DEF Status
  <2>5. StageOK(u)
    BY <2>1, <2>2 DEF StageOK, Decided, Transaction, Recorded, Resolved
  <2>6. QED
    BY <2>1, <2>2, <2>3, <2>4, <2>5, LocalStep DEF env
<1>6. ASSUME NEW w \in Worker, InsertPurchase(w) PROVE TypeOK' /\ StageInv'
  <2> DEFINE t == tx[w]
             inserted == [t EXCEPT !.pc = "evaluate",
                                   !.writes = @ \cup {"processed_purchases"}]
  <2>1. w \in Busy /\ t.pc = "insert_purchase" /\ UNCHANGED <<tables, env>>
    BY <1>6 DEF InsertPurchase, At
  <2>2. t \in Transaction /\ StageOK(t) /\ faults \in 0 .. MaxFaults
    BY <1>0, <2>1
  <2>3. PICK u \in {RolledBack(t), inserted} : Step(w, u)
    BY <1>6 DEF InsertPurchase
  <2>4. inserted \in Transaction
    BY <2>2 DEF Transaction, Pc, Statement, Table
  <2>5. StageOK(inserted)
    BY <2>1, <2>2 DEF StageOK, Transaction, Recorded, Resolved
  <2>6. u \in Transaction /\ StageOK(u)
    BY <2>2, <2>4, <2>5, TransactionFields, EndedStage
  <2>7. QED
    BY <2>1, <2>2, <2>3, <2>6, LocalStep DEF env
<1>6a. ASSUME NEW w \in Worker, EvaluateSegments(w) PROVE TypeOK' /\ StageInv'
  <2> DEFINE t == tx[w]
             S == EvaluateStaticSegments(UpdateProfileFromEvent(t.profile, t.event), now)
             u == [t EXCEPT !.pc = "save_profile", !.segments = S]
  <2>1. w \in Busy /\ t.pc = "evaluate" /\ Step(w, u) /\ UNCHANGED <<tables, env>>
    BY <1>6a DEF EvaluateSegments, At
  <2>2. t \in Transaction /\ StageOK(t) /\ faults \in 0 .. MaxFaults
    BY <1>0, <2>1
  <2>3. S \in SUBSET Segment
    BY DEF EvaluateStaticSegments
  <2> HIDE DEF S
  <2>4. u \in Transaction
    BY <2>2, <2>3 DEF Transaction, Pc, Statement
  <2>5. StageOK(u)
    BY <2>1, <2>2 DEF StageOK, Transaction, Recorded, Resolved
  <2>6. QED
    BY <2>1, <2>2, <2>4, <2>5, LocalStep DEF env
<1>7. ASSUME NEW w \in Worker, SaveProfile(w) PROVE TypeOK' /\ StageInv'
  <2> DEFINE t == tx[w]
             updated == UpdateProfileFromEvent(t.profile, t.event)
             u == [t EXCEPT !.pc = AfterLink(t.todo),
                            !.profile = updated,
                            !.writes = @ \cup {"customer_profiles"},
                            !.outcome = "processed"]
  <2>1. w \in Busy /\ t.pc = "save_profile" /\ Step(w, u) /\ UNCHANGED <<tables, env>>
    BY <1>7 DEF SaveProfile, At
  <2>2. t \in Transaction /\ StageOK(t) /\ faults \in 0 .. MaxFaults
    BY <1>0, <2>1
  <2>3. updated \in Profile
    BY <1>0, <2>1, UpdateType
  <2> HIDE DEF updated
  <2>4. u \in Transaction
    BY <2>2, <2>3 DEF AfterLink, Transaction, Pc, Statement, Table, Status
  <2>5. StageOK(u)
    BY <2>1, <2>2 DEF StageOK, AfterLink, Transaction, Recorded, Resolved
  <2>6. QED
    BY <2>1, <2>2, <2>4, <2>5, LocalStep DEF env
<1>8. ASSUME NEW w \in Worker, SaveLink(w) PROVE TypeOK' /\ StageInv'
  <2> DEFINE t == tx[w]
             saved(i) == [t EXCEPT !.pc = AfterLink(t.todo \ {i}),
                                   !.todo = @ \ {i},
                                   !.claimed = @ \cup ({i} \ DOMAIN links)]
  <2>1. w \in Busy /\ t.pc = "save_link" /\ UNCHANGED <<tables, env>>
    BY <1>8 DEF SaveLink, At
  <2>2. t \in Transaction /\ StageOK(t) /\ faults \in 0 .. MaxFaults
    BY <1>0, <2>1
  <2>3. PICK i \in t.todo : Step(w, saved(i))
    BY <1>8 DEF SaveLink
  <2>4. i \in Identifier
    BY <2>2 DEF Transaction
  <2>5. saved(i) \in Transaction
    BY <2>2, <2>4 DEF AfterLink, Transaction, Pc, Statement
  <2>6. StageOK(saved(i))
    BY <2>1, <2>2 DEF StageOK, AfterLink, Transaction, Recorded, Resolved
  <2>7. QED
    BY <2>1, <2>2, <2>3, <2>5, <2>6, LocalStep DEF env
<1>9. ASSUME NEW w \in Worker, NEW u \in {Replied(tx[w]), RolledBack(tx[w])},
             At(w, "commit"), ApplyWrites(w), Step(w, u),
             UNCHANGED <<now, deliveries, orphans>>, faults' \in 0 .. MaxFaults
      PROVE  TypeOK' /\ StageInv'
  <2>1. w \in Busy /\ tx[w] \in Transaction /\ StageOK(tx[w])
    BY <1>0, <1>9 DEF At
  <2>2. u \in Transaction /\ StageOK(u)
    BY <2>1, TransactionFields, EndedStage
  <2>3. TxTypes'
    BY <1>9, <2>1, <2>2, SteppedTypes
  <2>4. StageInv'
    BY <1>9, <2>1, <2>2, SteppedTx DEF StageInv
  <2>5. tx[w].claimed # {} \/ tx[w].writes \cap {"processed_purchases", "customer_profiles"} # {}
          => tx[w].customer \in Customer
    BY <2>1 DEF StageOK
  <2>6. now' \in Nat \ {0} /\ deliveries' \in [Event -> Nat]
    BY <1>9 DEF TypeOK
  <2>7. TypeOK'
    BY <1>9, <2>1, <2>3, <2>5, <2>6, ApplyWritesTypes DEF TypeOK, TxTypes
  <2>8. QED
    BY <2>4, <2>7
<1>10. ASSUME NEW w \in Worker, Commit(w) PROVE TypeOK' /\ StageInv'
  BY <1>9, <1>10, TypeOK DEF Commit, env, TypeOK
<1>11. ASSUME NEW w \in Worker, CommitAnswerLost(w) PROVE TypeOK' /\ StageInv'
  BY <1>9, <1>11, FaultType DEF CommitAnswerLost
<1>12. ASSUME NEW w \in Worker, StatementFails(w) PROVE TypeOK' /\ StageInv'
  <2>1. w \in Busy /\ RolledBack(tx[w]) \in Transaction /\ StageOK(RolledBack(tx[w]))
    BY <1>0, <1>12, TransactionFields, EndedStage DEF StatementFails
  <2>2. QED
    BY <1>12, <2>1, LocalStep, FaultType DEF StatementFails
<1>13. ASSUME NEW w \in Worker, DeadlockVictim(w) PROVE TypeOK' /\ StageInv'
  <2>1. w \in Busy /\ RolledBack(tx[w]) \in Transaction /\ StageOK(RolledBack(tx[w]))
    BY <1>0, <1>13, TransactionFields, EndedStage DEF DeadlockVictim
  <2>2. QED
    BY <1>0, <1>13, <2>1, LocalStep DEF DeadlockVictim, env
<1>13a. ASSUME NEW w \in Worker, StatementRefused(w) PROVE TypeOK' /\ StageInv'
  <2>1. w \in Busy /\ RolledBack(tx[w]) \in Transaction /\ StageOK(RolledBack(tx[w]))
    BY <1>0, <1>13a, TransactionFields, EndedStage DEF StatementRefused
  <2>2. QED
    BY <1>0, <1>13a, <2>1, LocalStep DEF StatementRefused, env
<1>14. ASSUME NEW w \in Worker, MarkFailed(w) PROVE TypeOK' /\ StageInv'
  <2>1. w \in Busy /\ Replied(tx[w]) \in Transaction /\ StageOK(Replied(tx[w]))
    BY <1>0, <1>14, TransactionFields, EndedStage DEF MarkFailed, At
  <2>2. TxTypes' /\ StageInv'
    BY <1>14, <2>1, SteppedTypes, SteppedTx DEF MarkFailed, StageInv
  <2>3. DOMAIN rawEvents' = DOMAIN rawEvents /\ \A e \in DOMAIN rawEvents' : rawEvents'[e] \in Status
    BY <1>14 DEF MarkFailed, TypeOK, Status
  <2>4. QED
    BY <1>14, <2>2, <2>3 DEF MarkFailed, TypeOK, TxTypes, env
<1>15. ASSUME NEW w \in Worker, MarkFailedFails(w) PROVE TypeOK' /\ StageInv'
  <2>1. w \in Busy /\ Replied(tx[w]) \in Transaction /\ StageOK(Replied(tx[w]))
    BY <1>0, <1>15, TransactionFields, EndedStage DEF MarkFailedFails, At
  <2>2. QED
    BY <1>15, <2>1, LocalStep, FaultType DEF MarkFailedFails
<1>16. ASSUME NEW w \in Worker, Reply(w) \/ Crash(w) \/ RaiseTypeError(w)
       PROVE  TypeOK' /\ StageInv'
  <2>1. tx' = Drop(tx, w) /\ UNCHANGED <<tables, now, deliveries>> /\ faults' \in 0 .. MaxFaults
    BY <1>16, FaultType DEF Reply, Crash, RaiseTypeError, env, TypeOK
  <2>1a. orphans' \subseteq Transaction
    BY <1>0, <1>16 DEF Reply, Crash, RaiseTypeError, At, env, TypeOK
  <2>2. TxTypes' /\ StageInv'
    BY <2>1, DroppedTx DEF TypeOK, TxTypes, StageInv, Busy
  <2>3. QED
    BY <2>1, <2>1a, <2>2 DEF TypeOK, TxTypes, tables
<1>17. CASE Tick \/ CollectSession
  BY <1>17 DEF Tick, CollectSession, TypeOK, StageInv, Busy, tables
<1>18. CASE UNCHANGED vars
  BY <1>18 DEF vars, tables, env, TypeOK, StageInv, Busy
<1>19. QED
  BY <1>1, <1>2, <1>3, <1>4, <1>5, <1>6, <1>6a, <1>7, <1>8, <1>10, <1>11, <1>12, <1>13,
     <1>13a, <1>14, <1>15, <1>16, <1>17, <1>18 DEF Next, Progress, Failure, Finished

\* Every reachable state has the shape the tables and the code give it.
THEOREM TypeCorrect == Spec => []TypeOK
BY StageInit, StageNext, PTL DEF Spec

-----------------------------------------------------------------------------
(* No event is applied twice *)

\* At most one open transaction has inserted an event, and none an event that
\* is committed: the unique key of raw_events.
UniqueRaw ==
  /\ \A w \in Busy : "raw_events" \in tx[w].writes => tx[w].event \notin DOMAIN rawEvents
  /\ \A v, w \in Busy :
       /\ "raw_events" \in tx[v].writes
       /\ "raw_events" \in tx[w].writes
       /\ tx[v].event = tx[w].event
       => v = w

\* The profile in memory of w has event e in its recent_events.
Carries(w, e) == tx[w].profile.recent[e] > 0

\* An event in memory is there once, is committed or is the one being applied,
\* and is in no other customer's profile, stored or in memory.
MemoryInv ==
  \A w \in Busy : \A e \in Event : Carries(w, e) =>
    /\ tx[w].profile.recent[e] = 1
    /\ \/ e \in DOMAIN rawEvents /\ rawEvents[e] \in {"processed", "failed"}
       \/ e = tx[w].event /\ "customer_profiles" \in tx[w].writes
    /\ \A d \in DOMAIN profiles : Applied(e, d) => d = tx[w].customer
    /\ \A v \in Busy : Carries(v, e) => tx[v].customer = tx[w].customer

OnceInv == UniqueRaw /\ AppliedAtMostOnce /\ AppliedIsRecorded /\ MemoryInv

LEMMA OnceInit == Init => OnceInv
<1> SUFFICES ASSUME Init PROVE OnceInv
  OBVIOUS
<1>1. DOMAIN << >> = {}
  OBVIOUS
<1>2. QED
  BY <1>1 DEF Init, OnceInv, UniqueRaw, AppliedAtMostOnce, AppliedIsRecorded, MemoryInv,
     Applied, Busy

\* The tables these invariants look at keep what they have.
TablesKept ==
  /\ DOMAIN rawEvents' = DOMAIN rawEvents
  /\ \A e \in DOMAIN rawEvents : rawEvents'[e] \in {rawEvents[e], "failed"}
  /\ profiles' = profiles

\* A decision sets the outcome and goes to the commit.
LEMMA DecidedFields ==
  ASSUME NEW t \in Transaction, NEW s
  PROVE  /\ Decided(t, s).event = t.event /\ Decided(t, s).customer = t.customer
         /\ Decided(t, s).profile = t.profile /\ Decided(t, s).writes = t.writes
         /\ Decided(t, s).claimed = t.claimed /\ Decided(t, s).todo = t.todo
         /\ Decided(t, s).pc = "commit" /\ Decided(t, s).outcome = s
BY DEF Decided, Transaction

\* A step that brings no event into memory and inserts no event.
LEMMA QuietStep ==
  ASSUME OnceInv, NEW w \in Busy, NEW t, Step(w, t), TablesKept,
         "raw_events" \in t.writes =>
           "raw_events" \in tx[w].writes /\ t.event = tx[w].event,
         \/ \A e \in Event : t.profile.recent[e] = 0
         \/ /\ t.profile = tx[w].profile
            /\ t.customer = tx[w].customer
            /\ t.event = tx[w].event
            /\ "customer_profiles" \in tx[w].writes => "customer_profiles" \in t.writes
  PROVE  OnceInv'
<1>1. Busy' = Busy /\ tx'[w] = t /\ \A v \in Busy : v # w => tx'[v] = tx[v]
  BY SteppedTx
<1>2. UniqueRaw'
  BY <1>1 DEF OnceInv, UniqueRaw, TablesKept
<1>3. AppliedAtMostOnce' /\ AppliedIsRecorded'
  BY DEF OnceInv, AppliedAtMostOnce, AppliedIsRecorded, Applied, TablesKept
<1>4. \A v \in Busy, e \in Event :
        Carries(v, e)' => /\ Carries(v, e)
                          /\ tx'[v].profile = tx[v].profile
                          /\ tx'[v].customer = tx[v].customer
                          /\ tx'[v].event = tx[v].event
                          /\ "customer_profiles" \in tx[v].writes =>
                               "customer_profiles" \in tx'[v].writes
  BY <1>1 DEF Carries
<1>5. \A e \in Event, d \in DOMAIN profiles : Applied(e, d)' <=> Applied(e, d)
  BY DEF Applied, TablesKept
<1>6. MemoryInv'
  BY <1>1, <1>4, <1>5 DEF OnceInv, MemoryInv, TablesKept
<1>7. QED
  BY <1>2, <1>3, <1>6 DEF OnceInv

\* update_profile_from_event adds the event itself and no other.
LEMMA UpdateRecent ==
  ASSUME NEW p \in Profile, NEW e \in Event
  PROVE  \/ UpdateProfileFromEvent(p, e).recent = p.recent
         \/ UpdateProfileFromEvent(p, e).recent = [p.recent EXCEPT ![e] = @ + 1]
BY DEF UpdateProfileFromEvent

\* A commit stores the profile in memory: the history of one customer grows by
\* the event of the transaction, which no other profile has.
LEMMA CommitOnce ==
  ASSUME TypeOK, StageInv, OnceInv, NEW w \in Busy,
         NEW u \in {Replied(tx[w]), RolledBack(tx[w])}, ApplyWrites(w), Step(w, u)
  PROVE  OnceInv'
<1> DEFINE t == tx[w]
           c == t.customer
           wrote == "customer_profiles" \in t.writes
<1>1. t \in Transaction /\ StageOK(t) /\ t.event \in Event
  BY TransactionFields DEF TypeOK, StageInv, Busy
<1>2. Busy' = Busy /\ tx'[w] = u /\ \A v \in Busy : v # w => tx'[v] = tx[v]
  BY SteppedTx
<1>3. u.writes = {} /\ \A e \in Event : u.profile.recent[e] = 0
  <2>1. CASE u = Replied(tx[w])
    BY <2>1 DEF Replied, NewTransaction, NewProfile
  <2>2. CASE u = RolledBack(tx[w])
    BY <2>2 DEF RolledBack, NewTransaction, NewProfile
  <2>3. QED
    BY <2>1, <2>2
<1>4. /\ DOMAIN rawEvents \subseteq DOMAIN rawEvents'
      /\ \A e \in DOMAIN rawEvents : rawEvents'[e] = rawEvents[e]
      /\ \A e \in DOMAIN rawEvents' : e \in DOMAIN rawEvents \/ e = t.event
      /\ "raw_events" \notin t.writes => rawEvents' = rawEvents
      /\ "raw_events" \in t.writes =>
           t.event \in DOMAIN rawEvents' /\ rawEvents'[t.event] = t.outcome
  BY DEF ApplyWrites, Put, OnceInv, UniqueRaw
<1>5. UniqueRaw'
  <2>1. \A v \in Busy : "raw_events" \in tx'[v].writes =>
          v # w /\ tx'[v] = tx[v] /\ tx[v].event \notin DOMAIN rawEvents'
    BY <1>2, <1>3, <1>4 DEF OnceInv, UniqueRaw
  <2>2. QED
    BY <1>2, <2>1 DEF OnceInv, UniqueRaw
<1>6. /\ wrote => DOMAIN profiles' = DOMAIN profiles \cup {c}
      /\ ~wrote => profiles' = profiles
      /\ wrote => \A d \in DOMAIN profiles' : d # c => profiles'[d] = profiles[d]
      /\ wrote => profiles'[c].recent = t.profile.recent
  <2>1. t.profile \in Profile /\ \A d \in DOMAIN profiles : profiles[d] \in Profile
    BY <1>1, TransactionFields DEF TypeOK
  <2>2. /\ c \in DOMAIN profiles => MergedRow(profiles[c], t.profile).recent = t.profile.recent
        /\ Row(t.profile).recent = t.profile.recent
    BY <2>1, SavedRecent
  <2>3. QED
    BY <2>2 DEF ApplyWrites, Put
<1>7. \A e \in Event : \A d \in DOMAIN profiles' : Applied(e, d)' =>
        \/ wrote /\ d = c /\ Carries(w, e)
        \/ (wrote => d # c) /\ d \in DOMAIN profiles /\ Applied(e, d)
             /\ profiles'[d] = profiles[d]
  BY <1>6 DEF Applied, Carries
<1>8. wrote => "raw_events" \in t.writes /\ t.outcome = "processed"
  BY <1>1 DEF StageOK
<1>9. AppliedAtMostOnce'
  <2> SUFFICES ASSUME NEW e \in Event, NEW d \in DOMAIN profiles', Applied(e, d)'
               PROVE  /\ profiles'[d].recent[e] = 1
                      /\ \A b \in DOMAIN profiles' : Applied(e, b)' => b = d
    BY DEF AppliedAtMostOnce
  <2>1. CASE wrote /\ d = c /\ Carries(w, e)
    BY <1>6, <1>7, <2>1 DEF OnceInv, MemoryInv
  <2>2. CASE (wrote => d # c) /\ d \in DOMAIN profiles /\ Applied(e, d)
               /\ profiles'[d] = profiles[d]
    BY <1>7, <2>2 DEF OnceInv, MemoryInv, AppliedAtMostOnce
  <2>3. QED
    BY <1>7, <2>1, <2>2
<1>10. AppliedIsRecorded'
  <2> SUFFICES ASSUME NEW e \in Event, NEW d \in DOMAIN profiles', Applied(e, d)'
               PROVE  e \in DOMAIN rawEvents' /\ rawEvents'[e] \in {"processed", "failed"}
    BY DEF AppliedIsRecorded
  <2>1. CASE wrote /\ d = c /\ Carries(w, e)
    BY <1>4, <1>8, <2>1 DEF OnceInv, MemoryInv
  <2>2. CASE d \in DOMAIN profiles /\ Applied(e, d)
    BY <1>4, <2>2 DEF OnceInv, AppliedIsRecorded
  <2>3. QED
    BY <1>7, <2>1, <2>2
<1>11. MemoryInv'
  <2> SUFFICES ASSUME NEW v \in Busy, NEW e \in Event, Carries(v, e)'
               PROVE  /\ tx'[v].profile.recent[e] = 1
                      /\ \/ e \in DOMAIN rawEvents' /\ rawEvents'[e] \in {"processed", "failed"}
                         \/ e = tx'[v].event /\ "customer_profiles" \in tx'[v].writes
                      /\ \A d \in DOMAIN profiles' : Applied(e, d)' => d = tx'[v].customer
                      /\ \A x \in Busy : Carries(x, e)' => tx'[x].customer = tx'[v].customer
    BY <1>2 DEF MemoryInv
  <2>1. \A x \in Busy : Carries(x, e)' => x # w /\ tx'[x] = tx[x] /\ Carries(x, e)
    BY <1>2, <1>3 DEF Carries
  <2>2. v # w /\ tx'[v] = tx[v] /\ Carries(v, e)
    BY <2>1
  <2>3. \/ e \in DOMAIN rawEvents' /\ rawEvents'[e] \in {"processed", "failed"}
        \/ e = tx[v].event /\ "customer_profiles" \in tx[v].writes
    BY <1>4, <2>2 DEF OnceInv, MemoryInv
  <2>4. \A d \in DOMAIN profiles' : Applied(e, d)' => d = tx[v].customer
    BY <1>7, <2>2 DEF OnceInv, MemoryInv
  <2>5. QED
    BY <2>1, <2>2, <2>3, <2>4 DEF OnceInv, MemoryInv
<1>12. QED
  BY <1>5, <1>9, <1>10, <1>11 DEF OnceInv

LEMMA OnceNext == TypeOK /\ StageInv /\ OnceInv /\ [Next]_vars => OnceInv'
<1> SUFFICES ASSUME TypeOK, StageInv, OnceInv, [Next]_vars PROVE OnceInv'
  OBVIOUS
<1>0. ASSUME NEW w \in Busy
      PROVE  /\ tx[w] \in Transaction /\ StageOK(tx[w])
             /\ tx[w].event \in Event /\ tx[w].profile \in Profile
  BY TransactionFields DEF TypeOK, StageInv, Busy
<1>1. ASSUME UNCHANGED tables PROVE TablesKept
  BY <1>1 DEF TablesKept, tables
<1>2. ASSUME NEW e \in Event
      PROVE  /\ NewTransaction(e).writes = {}
             /\ \A f \in Event : NewTransaction(e).profile.recent[f] = 0
  BY DEF NewTransaction, NewProfile
<1>3. ASSUME NEW w \in Busy, NEW t \in {RolledBack(tx[w]), Replied(tx[w])},
             Step(w, t), TablesKept
      PROVE  OnceInv'
  <2>1. t.writes = {} /\ \A f \in Event : t.profile.recent[f] = 0
    <3>1. CASE t = RolledBack(tx[w])
      BY <3>1 DEF RolledBack, NewTransaction, NewProfile
    <3>2. CASE t = Replied(tx[w])
      BY <3>2 DEF Replied, NewTransaction, NewProfile
    <3>3. QED
      BY <3>1, <3>2
  <2>2. QED
    BY <1>3, <2>1, QuietStep
<1>4. ASSUME NEW w \in Worker, NEW e \in Event, Begin(w, e) PROVE OnceInv'
  <2>1. /\ Busy' = Busy \cup {w}
        /\ tx'[w] = NewTransaction(e)
        /\ \A v \in Busy : v # w => tx'[v] = tx[v]
    BY <1>4, BegunTx DEF Begin
  <2>2. rawEvents' = rawEvents /\ profiles' = profiles /\ w \notin Busy
    BY <1>4 DEF Begin, tables
  <2>3. UniqueRaw'
    BY <1>2, <2>1, <2>2 DEF OnceInv, UniqueRaw
  <2>4. AppliedAtMostOnce' /\ AppliedIsRecorded'
    BY <2>2 DEF OnceInv, AppliedAtMostOnce, AppliedIsRecorded, Applied
  <2>5. \A v \in Busy', f \in Event : Carries(v, f)' =>
          v \in Busy /\ tx'[v] = tx[v] /\ Carries(v, f)
    BY <1>2, <2>1, <2>2 DEF Carries
  <2>6. \A f \in Event, d \in DOMAIN profiles : Applied(f, d)' <=> Applied(f, d)
    BY <2>2 DEF Applied
  <2>7. MemoryInv'
    BY <2>2, <2>5, <2>6 DEF OnceInv, MemoryInv
  <2>8. QED
    BY <2>3, <2>4, <2>7 DEF OnceInv
<1>5. ASSUME NEW w \in Worker, RecordReceived(w) PROVE OnceInv'
  <2> DEFINE t == tx[w]
             created == [t EXCEPT !.writes = {"raw_events"}]
  <2>1. /\ w \in Busy /\ t.pc = "record" /\ Executes(w)
        /\ rawEvents' = rawEvents /\ profiles' = profiles
    BY <1>5 DEF RecordReceived, At, tables
  <2>2. /\ t \in Transaction
        /\ \A f \in Event : t.profile.recent[f] = 0
    BY <1>0, <2>1 DEF StageOK
  <2>3. PICK u : /\ Step(w, u)
                 /\ u \in {Decided(t, "processed"), Decided(created, "sent_to_dlq"),
                           Decided(created, "ignored_anonymous"),
                           [created EXCEPT !.pc = "resolve"]}
                 /\ t.event \in DOMAIN rawEvents => u = Decided(t, "processed")
    BY <1>5 DEF RecordReceived
  <2>4. /\ u.event = t.event /\ u.profile = t.profile
        /\ t.event \in DOMAIN rawEvents => u.writes = t.writes
    <3>1. created \in Transaction /\ created.event = t.event /\ created.profile = t.profile
      BY <2>2 DEF Transaction, Table
    <3>2. [created EXCEPT !.pc = "resolve"].event = t.event
          /\ [created EXCEPT !.pc = "resolve"].profile = t.profile
      BY <2>2 DEF Transaction
    <3>3. /\ Decided(t, "processed").event = t.event
          /\ Decided(t, "processed").profile = t.profile
          /\ Decided(t, "processed").writes = t.writes
      BY <2>2, DecidedFields
    <3>4. \A s : /\ Decided(created, s).event = t.event
                 /\ Decided(created, s).profile = t.profile
      <4> HIDE DEF t, created
      <4>1. \A s : /\ Decided(created, s).event = created.event
                   /\ Decided(created, s).profile = created.profile
        BY <3>1, DecidedFields
      <4>2. QED
        BY <4>1, <3>1
    <3>5. u.event = t.event /\ u.profile = t.profile
      <4> HIDE DEF t, created
      <4>1. CASE u = Decided(t, "processed")
        BY <4>1, <3>3
      <4>2. CASE u = Decided(created, "sent_to_dlq")
        BY <4>2, <3>4
      <4>3. CASE u = Decided(created, "ignored_anonymous")
        BY <4>3, <3>4
      <4>4. CASE u = [created EXCEPT !.pc = "resolve"]
        BY <4>4, <3>2
      <4>5. QED
        BY <2>3, <4>1, <4>2, <4>3, <4>4
    <3>6. QED
      BY <2>3, <3>3, <3>5
  <2>5. CASE t.event \in DOMAIN rawEvents
    <3>1. t.writes = {}
      BY <1>0, <2>1 DEF StageOK
    <3>2. QED
      BY <2>1, <2>2, <2>3, <2>4, <2>5, <3>1, QuietStep DEF TablesKept
  <2>6. CASE t.event \notin DOMAIN rawEvents
    <3>1. Busy' = Busy /\ tx'[w] = u /\ \A v \in Busy : v # w => tx'[v] = tx[v]
      BY <2>1, <2>3, SteppedTx
    <3>2. \A v \in Busy : v # w /\ "raw_events" \in tx[v].writes => tx[v].event # t.event
      BY <2>1 DEF Executes, Holders, Blocks
    <3>3. UniqueRaw'
      BY <2>1, <2>4, <2>6, <3>1, <3>2 DEF OnceInv, UniqueRaw
    <3>4. AppliedAtMostOnce' /\ AppliedIsRecorded'
      BY <2>1 DEF OnceInv, AppliedAtMostOnce, AppliedIsRecorded, Applied
    <3>5. \A v \in Busy, f \in Event : Carries(v, f)' =>
            tx'[v] = tx[v] /\ Carries(v, f)
      BY <2>2, <2>4, <3>1 DEF Carries
    <3>6. \A f \in Event, d \in DOMAIN profiles : Applied(f, d)' <=> Applied(f, d)
      BY <2>1 DEF Applied
    <3>7. MemoryInv'
      BY <2>1, <3>1, <3>5, <3>6 DEF OnceInv, MemoryInv
    <3>8. QED
      BY <3>3, <3>4, <3>7 DEF OnceInv
  <2>7. QED
    BY <2>5, <2>6
<1>6. ASSUME NEW w \in Worker, ResolveKnownProfile(w) PROVE OnceInv'
  <2> DEFINE t == tx[w]
  <2>1. w \in Busy /\ t.pc = "resolve" /\ TablesKept
    BY <1>1, <1>6 DEF ResolveKnownProfile, At
  <2>2. t \in Transaction /\ \A f \in Event : t.profile.recent[f] = 0
    BY <1>0, <2>1 DEF StageOK
  <2> DEFINE found(pc, c) == [t EXCEPT !.pc = pc, !.customer = c,
                                       !.todo = KnownIdentifiers(t.event) \ Linked(t)]
  <2>3. \A pc, c : /\ found(pc, c).event = t.event
                   /\ found(pc, c).profile = t.profile
                   /\ found(pc, c).writes = t.writes
    BY <2>2 DEF Transaction
  <2>4. \/ \E c \in Customer : Step(w, found(AfterProfile(t.event), c))
        \/ \E c \in Customer : Step(w, found("load", c))
        \/ Step(w, Decided(t, "sent_to_dlq"))
    BY <1>6 DEF ResolveKnownProfile
  <2> HIDE DEF found
  <2>5. PICK u : Step(w, u) /\ u.event = t.event /\ u.profile = t.profile /\ u.writes = t.writes
    BY <2>2, <2>3, <2>4, DecidedFields
  <2>6. QED
    BY <2>1, <2>2, <2>5, QuietStep
<1>7. ASSUME NEW w \in Worker, LoadProfile(w) PROVE OnceInv'
  <2> DEFINE t == tx[w]
             c == t.customer
             u == [t EXCEPT !.pc = AfterProfile(t.event), !.profile = profiles[c]]
  <2>1. w \in Busy /\ t.pc = "load" /\ rawEvents' = rawEvents /\ profiles' = profiles
    BY <1>7 DEF LoadProfile, At, tables
  <2>2. t \in Transaction /\ \A f \in Event : t.profile.recent[f] = 0
    BY <1>0, <2>1 DEF StageOK
  <2>3. CASE c \notin DOMAIN profiles
    <3>1. Step(w, Decided(t, "failed"))
      BY <1>7, <2>3 DEF LoadProfile
    <3>2. /\ Decided(t, "failed").event = t.event
          /\ Decided(t, "failed").profile = t.profile
          /\ Decided(t, "failed").writes = t.writes
      BY <2>2, DecidedFields
    <3>3. QED
      BY <2>1, <2>2, <3>1, <3>2, QuietStep DEF TablesKept
  <2>4. CASE c \in DOMAIN profiles
    <3>1. Step(w, u)
      BY <1>7, <2>4 DEF LoadProfile
    <3>2. /\ u.event = t.event /\ u.customer = c /\ u.writes = t.writes
          /\ u.profile = profiles[c]
      BY <2>2 DEF Transaction
    <3> HIDE DEF u
    <3>3. Busy' = Busy /\ tx'[w] = u /\ \A v \in Busy : v # w => tx'[v] = tx[v]
      BY <2>1, <3>1, SteppedTx
    <3>4. UniqueRaw'
      BY <2>1, <3>2, <3>3 DEF OnceInv, UniqueRaw
    <3>5. AppliedAtMostOnce' /\ AppliedIsRecorded'
      BY <2>1 DEF OnceInv, AppliedAtMostOnce, AppliedIsRecorded, Applied
    <3>6. \A v \in Busy, f \in Event : Carries(v, f)' =>
            \/ v # w /\ tx'[v] = tx[v] /\ Carries(v, f)
            \/ v = w /\ Applied(f, c)
      BY <2>1, <2>4, <3>2, <3>3 DEF Carries, Applied
    <3>7. \A f \in Event, d \in DOMAIN profiles : Applied(f, d)' <=> Applied(f, d)
      BY <2>1 DEF Applied
    <3>8. ASSUME NEW f \in Event, Carries(w, f)'
          PROVE  /\ tx'[w].profile.recent[f] = 1
                 /\ f \in DOMAIN rawEvents /\ rawEvents[f] \in {"processed", "failed"}
                 /\ \A d \in DOMAIN profiles : Applied(f, d) => d = c
                 /\ \A v \in Busy : Carries(v, f)' => tx'[v].customer = c
      <4>1. Applied(f, c)
        BY <2>1, <2>4, <3>2, <3>3, <3>8 DEF Carries, Applied
      <4>2. QED
        BY <2>4, <3>2, <3>3, <3>6, <4>1
        DEF OnceInv, AppliedAtMostOnce, AppliedIsRecorded, MemoryInv
    <3>9. ASSUME NEW v \in Busy, NEW f \in Event, v # w, Carries(v, f)'
          PROVE  /\ tx'[v] = tx[v] /\ Carries(v, f)
                 /\ \A x \in Busy : Carries(x, f)' => tx'[x].customer = tx[v].customer
      <4>1. tx'[v] = tx[v] /\ Carries(v, f)
        BY <3>6, <3>9
      <4>2. ASSUME NEW x \in Busy, Carries(x, f)' PROVE tx'[x].customer = tx[v].customer
        <5>1. CASE x = w
          BY <2>4, <3>2, <3>3, <3>6, <4>1, <4>2, <5>1 DEF OnceInv, MemoryInv
        <5>2. CASE x # w
          BY <3>6, <4>1, <4>2, <5>2 DEF OnceInv, MemoryInv
        <5>3. QED
          BY <5>1, <5>2
      <4>3. QED
        BY <4>1, <4>2
    <3>10. MemoryInv'
      <4> SUFFICES ASSUME NEW v \in Busy, NEW f \in Event, Carries(v, f)'
                   PROVE  /\ tx'[v].profile.recent[f] = 1
                          /\ \/ f \in DOMAIN rawEvents /\ rawEvents[f] \in {"processed", "failed"}
                             \/ f = tx'[v].event /\ "customer_profiles" \in tx'[v].writes
                          /\ \A d \in DOMAIN profiles : Applied(f, d) => d = tx'[v].customer
                          /\ \A x \in Busy : Carries(x, f)' => tx'[x].customer = tx'[v].customer
        BY <2>1, <3>3, <3>7 DEF MemoryInv
      <4>1. CASE v = w
        BY <3>2, <3>3, <3>8, <4>1
      <4>2. CASE v # w
        BY <3>9, <4>2 DEF OnceInv, MemoryInv
      <4>3. QED
        BY <4>1, <4>2
    <3>11. QED
      BY <3>4, <3>5, <3>10 DEF OnceInv
  <2>5. QED
    BY <2>3, <2>4
<1>8. ASSUME NEW w \in Worker, SelectPurchase(w) PROVE OnceInv'
  <2> DEFINE t == tx[w]
  <2>1. w \in Busy /\ t \in Transaction /\ TablesKept
    BY <1>0, <1>1, <1>8 DEF SelectPurchase, At
  <2>2. PICK u : /\ Step(w, u) /\ u.event = t.event /\ u.profile = t.profile
                 /\ u.writes = t.writes /\ u.customer = t.customer
    <3>1. PICK v \in {Decided(t, "sent_to_dlq"), Decided(t, "processed"),
                      [t EXCEPT !.pc = "insert_purchase"]} : Step(w, v)
      BY <1>8 DEF SelectPurchase
    <3>2. /\ [t EXCEPT !.pc = "insert_purchase"].event = t.event
          /\ [t EXCEPT !.pc = "insert_purchase"].profile = t.profile
          /\ [t EXCEPT !.pc = "insert_purchase"].writes = t.writes
          /\ [t EXCEPT !.pc = "insert_purchase"].customer = t.customer
      BY <2>1 DEF Transaction
    <3>3. \A s : /\ Decided(t, s).event = t.event
                 /\ Decided(t, s).profile = t.profile
                 /\ Decided(t, s).writes = t.writes
                 /\ Decided(t, s).customer = t.customer
      BY <2>1, DecidedFields
    <3>4. CASE v = [t EXCEPT !.pc = "insert_purchase"]
      BY <3>1, <3>2, <3>4
    <3>5. CASE v \in {Decided(t, "sent_to_dlq"), Decided(t, "processed")}
      BY <3>1, <3>3, <3>5
    <3>6. QED
      BY <3>1, <3>4, <3>5
  <2>3. QED
    BY <2>1, <2>2, QuietStep
<1>9. ASSUME NEW w \in Worker, InsertPurchase(w) PROVE OnceInv'
  <2> DEFINE t == tx[w]
             u == [t EXCEPT !.pc = "evaluate",
                            !.writes = @ \cup {"processed_purchases"}]
  <2>1. w \in Busy /\ t \in Transaction /\ TablesKept
    BY <1>0, <1>1, <1>9 DEF InsertPurchase, At
  <2>2. /\ u.event = t.event /\ u.profile = t.profile /\ u.customer = t.customer
        /\ u.writes = t.writes \cup {"processed_purchases"}
    BY <2>1 DEF Transaction
  <2>3. Step(w, RolledBack(t)) \/ Step(w, u)
    BY <1>9 DEF InsertPurchase
  <2> HIDE DEF u
  <2>4. CASE Step(w, RolledBack(t))
    BY <1>3, <2>1, <2>4
  <2>5. CASE Step(w, u)
    BY <2>1, <2>2, <2>5, QuietStep
  <2>6. QED
    BY <2>3, <2>4, <2>5
<1>9a. ASSUME NEW w \in Worker, EvaluateSegments(w) PROVE OnceInv'
  <2> DEFINE t == tx[w]
             S == EvaluateStaticSegments(UpdateProfileFromEvent(t.profile, t.event), now)
             u == [t EXCEPT !.pc = "save_profile", !.segments = S]
  <2>1. w \in Busy /\ t \in Transaction /\ Step(w, u) /\ TablesKept
    BY <1>0, <1>1, <1>9a DEF EvaluateSegments, At
  <2> HIDE DEF S
  <2>2. /\ u.event = t.event /\ u.profile = t.profile /\ u.customer = t.customer
        /\ u.writes = t.writes
    BY <2>1 DEF Transaction
  <2>3. QED
    BY <2>1, <2>2, QuietStep
<1>10. ASSUME NEW w \in Worker, SaveProfile(w) PROVE OnceInv'
  <2> DEFINE t == tx[w]
             own == t.event
             updated == UpdateProfileFromEvent(t.profile, own)
             u == [t EXCEPT !.pc = AfterLink(t.todo),
                            !.profile = updated,
                            !.writes = @ \cup {"customer_profiles"},
                            !.outcome = "processed"]
  <2>1. /\ w \in Busy /\ t.pc = "save_profile" /\ Step(w, u)
        /\ rawEvents' = rawEvents /\ profiles' = profiles
    BY <1>10 DEF SaveProfile, At, tables
  <2>2. /\ t \in Transaction /\ own \in Event /\ t.profile \in Profile
        /\ "raw_events" \in t.writes /\ "customer_profiles" \notin t.writes
    BY <1>0, <2>1 DEF StageOK, Recorded
  <2>3. /\ u.event = own /\ u.customer = t.customer /\ u.profile = updated
        /\ u.writes = t.writes \cup {"customer_profiles"}
    BY <2>2 DEF Transaction
  <2>4. Busy' = Busy /\ tx'[w] = u /\ \A v \in Busy : v # w => tx'[v] = tx[v]
    BY <2>1, SteppedTx
  <2>5. updated.recent = t.profile.recent \/ updated.recent = [t.profile.recent EXCEPT ![own] = @ + 1]
    BY <2>2, UpdateRecent
  <2> HIDE DEF u, updated
  <2>6. own \notin DOMAIN rawEvents
    BY <2>1, <2>2 DEF OnceInv, UniqueRaw
  <2>7. \A v \in Busy : ~Carries(v, own)
    <3>1. ASSUME NEW v \in Busy, Carries(v, own) PROVE FALSE
      <4>1. own = tx[v].event /\ "customer_profiles" \in tx[v].writes
        BY <2>2, <2>6, <3>1 DEF OnceInv, MemoryInv
      <4>2. "raw_events" \in tx[v].writes
        BY <1>0, <4>1 DEF StageOK
      <4>3. QED
        BY <2>1, <2>2, <4>1, <4>2 DEF OnceInv, UniqueRaw
    <3>2. QED
      BY <3>1
  <2>8. \A d \in DOMAIN profiles : ~Applied(own, d)
    BY <2>2, <2>6 DEF OnceInv, AppliedIsRecorded
  <2>9. t.profile.recent \in [Event -> Nat] /\ t.profile.recent[own] = 0
    BY <2>1, <2>2, <2>7 DEF Carries, Profile
  <2>10. /\ \A f \in Event : f # own => updated.recent[f] = t.profile.recent[f]
         /\ updated.recent[own] \in {0, 1}
    BY <2>2, <2>5, <2>9
  <2>11. \A v \in Busy, f \in Event :
           Carries(v, f)' => \/ f = own /\ v = w
                             \/ f # own /\ Carries(v, f)
    BY <2>3, <2>4, <2>7, <2>10 DEF Carries
  <2>12. \A v \in Busy : tx'[v].customer = tx[v].customer /\ tx'[v].event = tx[v].event
    BY <2>3, <2>4
  <2>13. UniqueRaw'
    BY <2>1, <2>2, <2>3, <2>4 DEF OnceInv, UniqueRaw
  <2>14. AppliedAtMostOnce' /\ AppliedIsRecorded'
    BY <2>1 DEF OnceInv, AppliedAtMostOnce, AppliedIsRecorded, Applied
  <2>15. \A f \in Event, d \in DOMAIN profiles : Applied(f, d)' <=> Applied(f, d)
    BY <2>1 DEF Applied
  <2>16. MemoryInv'
    <3> SUFFICES ASSUME NEW v \in Busy, NEW f \in Event, Carries(v, f)'
                 PROVE  /\ tx'[v].profile.recent[f] = 1
                        /\ \/ f \in DOMAIN rawEvents /\ rawEvents[f] \in {"processed", "failed"}
                           \/ f = tx'[v].event /\ "customer_profiles" \in tx'[v].writes
                        /\ \A d \in DOMAIN profiles : Applied(f, d) => d = tx[v].customer
                        /\ \A x \in Busy : Carries(x, f)' => tx[x].customer = tx[v].customer
      BY <2>1, <2>4, <2>12, <2>15 DEF MemoryInv
    <3>1. CASE f = own
      <4>1. v = w /\ \A x \in Busy : Carries(x, f)' => x = w
        BY <2>11, <3>1
      <4>2. tx'[v].profile.recent[f] = 1
        BY <2>3, <2>4, <2>10, <3>1, <4>1 DEF Carries
      <4>3. QED
        BY <2>3, <2>4, <2>8, <3>1, <4>1, <4>2
    <3>2. CASE f # own
      <4>1. Carries(v, f) /\ \A x \in Busy : Carries(x, f)' => Carries(x, f)
        BY <2>11, <3>2
      <4>2. tx'[v].profile.recent[f] = tx[v].profile.recent[f]
        BY <2>3, <2>4, <2>10, <3>2
      <4>3. "customer_profiles" \in tx[v].writes => "customer_profiles" \in tx'[v].writes
        BY <2>3, <2>4
      <4>4. QED
        BY <2>12, <4>1, <4>2, <4>3 DEF OnceInv, MemoryInv
    <3>3. QED
      BY <3>1, <3>2
  <2>17. QED
    BY <2>13, <2>14, <2>16 DEF OnceInv
<1>11. ASSUME NEW w \in Worker, SaveLink(w) PROVE OnceInv'
  <2> DEFINE t == tx[w]
             saved(i) == [t EXCEPT !.pc = AfterLink(t.todo \ {i}),
                                   !.todo = @ \ {i},
                                   !.claimed = @ \cup ({i} \ DOMAIN links)]
  <2>1. w \in Busy /\ t \in Transaction /\ TablesKept
    BY <1>0, <1>1, <1>11 DEF SaveLink, At
  <2>2. PICK i \in t.todo : Step(w, saved(i))
    BY <1>11 DEF SaveLink
  <2>3. /\ saved(i).event = t.event /\ saved(i).profile = t.profile
        /\ saved(i).customer = t.customer /\ saved(i).writes = t.writes
    BY <2>1 DEF Transaction
  <2> HIDE DEF saved
  <2>4. QED
    BY <2>1, <2>2, <2>3, QuietStep
<1>12. ASSUME NEW w \in Worker, Commit(w) \/ CommitAnswerLost(w) PROVE OnceInv'
  BY <1>12, CommitOnce DEF Commit, CommitAnswerLost, At
<1>13. ASSUME NEW w \in Worker, StatementFails(w) \/ StatementRefused(w) \/ DeadlockVictim(w)
       PROVE  OnceInv'
  BY <1>1, <1>3, <1>13 DEF StatementFails, StatementRefused, DeadlockVictim
<1>14. ASSUME NEW w \in Worker, MarkFailed(w) PROVE OnceInv'
  <2>1. w \in Busy /\ Step(w, Replied(tx[w])) /\ TablesKept
    BY <1>14 DEF MarkFailed, At, TablesKept
  <2>2. QED
    BY <1>3, <2>1
<1>15. ASSUME NEW w \in Worker, MarkFailedFails(w) PROVE OnceInv'
  BY <1>1, <1>3, <1>15 DEF MarkFailedFails, At
<1>16. ASSUME NEW w \in Worker, Reply(w) \/ Crash(w) \/ RaiseTypeError(w)
       PROVE  OnceInv'
  <2>1. /\ Busy' \subseteq Busy /\ \A v \in Busy' : tx'[v] = tx[v]
        /\ rawEvents' = rawEvents /\ profiles' = profiles
    BY <1>16, DroppedTx DEF Reply, Crash, RaiseTypeError, tables
  <2>2. UniqueRaw'
    BY <2>1 DEF OnceInv, UniqueRaw
  <2>3. AppliedAtMostOnce' /\ AppliedIsRecorded'
    BY <2>1 DEF OnceInv, AppliedAtMostOnce, AppliedIsRecorded, Applied
  <2>4. /\ \A v \in Busy', f \in Event : Carries(v, f)' => Carries(v, f)
        /\ \A f \in Event, d \in DOMAIN profiles : Applied(f, d)' <=> Applied(f, d)
    BY <2>1 DEF Carries, Applied
  <2>5. MemoryInv'
    BY <2>1, <2>4 DEF OnceInv, MemoryInv
  <2>6. QED
    BY <2>2, <2>3, <2>5 DEF OnceInv
<1>17. CASE Tick \/ CollectSession \/ UNCHANGED vars
  BY <1>17 DEF Tick, CollectSession, vars, tables, OnceInv, UniqueRaw, AppliedAtMostOnce, AppliedIsRecorded,
     Applied, MemoryInv, Carries, Busy
<1>18. QED
  BY <1>4, <1>5, <1>6, <1>7, <1>8, <1>9, <1>9a, <1>10, <1>11, <1>12, <1>13, <1>14, <1>15,
     <1>16, <1>17 DEF Next, Progress, Failure, Finished

\* For any number of workers and failures an event counts in one profile at
\* most, once.
THEOREM AtMostOnce == Spec => []AppliedAtMostOnce
<1>1. Spec => [](TypeOK /\ StageInv)
  BY StageInit, StageNext, PTL DEF Spec
<1>2. Spec => []OnceInv
  BY <1>1, OnceInit, OnceNext, PTL DEF Spec
<1>3. OnceInv => AppliedAtMostOnce
  BY DEF OnceInv
<1>4. QED
  BY <1>2, <1>3, PTL

\* A profile has an event only if the row of the event was committed with it.
THEOREM RecordedWithEffect == Spec => []AppliedIsRecorded
<1>1. Spec => [](TypeOK /\ StageInv)
  BY StageInit, StageNext, PTL DEF Spec
<1>2. Spec => []OnceInv
  BY <1>1, OnceInit, OnceNext, PTL DEF Spec
<1>3. OnceInv => AppliedIsRecorded
  BY DEF OnceInv
<1>4. QED
  BY <1>2, <1>3, PTL
=============================================================================
