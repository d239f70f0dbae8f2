---------------------------- MODULE ProfileProofs ----------------------------
(***************************************************************************)
(* What the commits of concurrent transactions put into a profile, for     *)
(* every number of workers and failures: a purchase only with its row, an  *)
(* event only with the links of its identifiers, and times that only widen *)
(* the range the row had.                                                  *)
(***************************************************************************)
EXTENDS CommitProofs

-----------------------------------------------------------------------------
(* What each statement does to its transaction, field by field *)

Others(w) == Busy' = Busy /\ \A v \in Busy : v # w => tx'[v] = tx[v]

\* u has everything of t but perhaps its place, its writes and its outcome.
SameWork(t, u) ==
  /\ u.event = t.event /\ u.customer = t.customer /\ u.profile = t.profile
  /\ u.segments = t.segments /\ u.todo = t.todo /\ u.claimed = t.claimed

DecidesTo(t, u, s) ==
  SameWork(t, u) /\ u.pc = "commit" /\ u.outcome = s /\ u.writes = t.writes

LEMMA RecordFacts ==
  ASSUME TypeOK, NEW w \in Worker, RecordReceived(w)
  PROVE  /\ w \in Busy /\ tx[w].pc = "record" /\ Executes(w)
         /\ Others(w) /\ SameWork(tx[w], tx'[w])
         /\ \/ /\ tx[w].event \in DOMAIN rawEvents
               /\ DecidesTo(tx[w], tx'[w], "processed")
            \/ /\ tx[w].event \notin DOMAIN rawEvents
               /\ tx'[w].writes = {"raw_events"}
               /\ \/ /\ TypeOf[tx[w].event] = "unsupported"
                     /\ tx'[w].pc = "commit" /\ tx'[w].outcome = "sent_to_dlq"
                  \/ /\ TypeOf[tx[w].event] # "unsupported"
                     /\ KnownIdentifiers(tx[w].event) = {}
                     /\ tx'[w].pc = "commit" /\ tx'[w].outcome = "ignored_anonymous"
                  \/ /\ TypeOf[tx[w].event] # "unsupported"
                     /\ KnownIdentifiers(tx[w].event) # {}
                     /\ tx'[w].pc = "resolve"
<1> DEFINE t == tx[w]
           created == [t EXCEPT !.writes = {"raw_events"}]
           u == IF t.event \in DOMAIN rawEvents THEN Decided(t, "processed")
                ELSE IF TypeOf[t.event] = "unsupported"
                     THEN Decided(created, "sent_to_dlq")
                ELSE IF KnownIdentifiers(t.event) = {}
                     THEN Decided(created, "ignored_anonymous")
                ELSE [created EXCEPT !.pc = "resolve"]
<1>1. w \in Busy /\ t.pc = "record" /\ Executes(w) /\ Step(w, u)
  BY DEF RecordReceived, At
<1>2. t \in Transaction
  BY <1>1 DEF TypeOK, Busy
<1>3. Others(w) /\ tx'[w] = u
  BY <1>1, SteppedTx DEF Others
<1>4. QED
  BY <1>1, <1>2, <1>3 DEF Decided, DecidesTo, SameWork, Transaction

LEMMA ResolveFacts ==
  ASSUME TypeOK, NEW w \in Worker, ResolveKnownProfile(w)
  PROVE  /\ w \in Busy /\ tx[w].pc = "resolve" /\ Others(w)
         /\ \/ DecidesTo(tx[w], tx'[w], "sent_to_dlq")
            \/ /\ tx'[w].event = tx[w].event /\ tx'[w].profile = tx[w].profile
               /\ tx'[w].segments = tx[w].segments /\ tx'[w].claimed = tx[w].claimed
               /\ tx'[w].writes = tx[w].writes /\ tx'[w].outcome = tx[w].outcome
               /\ tx'[w].customer \in Customer
               /\ tx'[w].todo = KnownIdentifiers(tx[w].event) \ Linked(tx[w])
               /\ \/ /\ Linked(tx[w]) = {} /\ Fresh(tx'[w].customer)
                     /\ tx'[w].pc = AfterProfile(tx[w].event)
                  \/ /\ {links[i] : i \in Linked(tx[w])} = {tx'[w].customer}
                     /\ tx'[w].pc = "load"
<1> DEFINE t == tx[w]
           owners == {links[i] : i \in Linked(t)}
           found(pc, c) == [t EXCEPT !.pc = pc, !.customer = c,
                                     !.todo = KnownIdentifiers(t.event) \ Linked(t)]
<1>1. w \in Busy /\ t.pc = "resolve"
  BY DEF ResolveKnownProfile, At
<1>2. t \in Transaction
  BY <1>1 DEF TypeOK, Busy
<1>3. \/ \E c \in Customer : /\ owners = {} /\ Fresh(c)
                             /\ Step(w, found(AfterProfile(t.event), c))
      \/ \E c \in Customer : owners = {c} /\ Step(w, found("load", c))
      \/ Step(w, Decided(t, "sent_to_dlq"))
  BY DEF ResolveKnownProfile
<1>4. \A pc, c : /\ found(pc, c).event = t.event /\ found(pc, c).profile = t.profile
                 /\ found(pc, c).segments = t.segments /\ found(pc, c).claimed = t.claimed
                 /\ found(pc, c).writes = t.writes /\ found(pc, c).outcome = t.outcome
                 /\ found(pc, c).customer = c /\ found(pc, c).pc = pc
                 /\ found(pc, c).todo = KnownIdentifiers(t.event) \ Linked(t)
  BY <1>2 DEF Transaction
<1> HIDE DEF found
<1> DEFINE goal ==
             \/ DecidesTo(tx[w], tx'[w], "sent_to_dlq")
             \/ /\ tx'[w].event = tx[w].event /\ tx'[w].profile = tx[w].profile
                /\ tx'[w].segments = tx[w].segments /\ tx'[w].claimed = tx[w].claimed
                /\ tx'[w].writes = tx[w].writes /\ tx'[w].outcome = tx[w].outcome
                /\ tx'[w].customer \in Customer
                /\ tx'[w].todo = KnownIdentifiers(tx[w].event) \ Linked(tx[w])
                /\ \/ /\ Linked(tx[w]) = {} /\ Fresh(tx'[w].customer)
                      /\ tx'[w].pc = AfterProfile(tx[w].event)
                   \/ /\ {links[i] : i \in Linked(tx[w])} = {tx'[w].customer}
                      /\ tx'[w].pc = "load"
<1>5. ASSUME NEW c \in Customer, owners = {}, Fresh(c),
             Step(w, found(AfterProfile(t.event), c))
      PROVE  Others(w) /\ goal
  <2>1. Others(w) /\ tx'[w] = found(AfterProfile(t.event), c)
    BY <1>1, <1>5, SteppedTx DEF Others
  <2>2. Linked(t) = {}
    BY <1>5
  <2>3. QED
    BY <1>4, <1>5, <2>1, <2>2
<1>6. ASSUME NEW c \in Customer, owners = {c}, Step(w, found("load", c))
      PROVE  Others(w) /\ goal
  <2>1. Others(w) /\ tx'[w] = found("load", c)
    BY <1>1, <1>6, SteppedTx DEF Others
  <2>2. QED
    BY <1>4, <1>6, <2>1
<1>7. ASSUME Step(w, Decided(t, "sent_to_dlq")) PROVE Others(w) /\ goal
  <2>1. Others(w) /\ tx'[w] = Decided(t, "sent_to_dlq")
    BY <1>1, <1>7, SteppedTx DEF Others
  <2>2. QED
    BY <1>2, <2>1 DEF Decided, DecidesTo, SameWork, Transaction
<1>8. Others(w) /\ goal
  <2> HIDE DEF goal, owners
  <2>1. QED
    BY <1>3, <1>5, <1>6, <1>7
<1>9. QED
  BY <1>1, <1>8

LEMMA LoadFacts ==
  ASSUME TypeOK, NEW w \in Worker, LoadProfile(w)
  PROVE  /\ w \in Busy /\ tx[w].pc = "load" /\ Others(w)
         /\ \/ /\ tx[w].customer \notin DOMAIN profiles
               /\ DecidesTo(tx[w], tx'[w], "failed")
            \/ /\ tx[w].customer \in DOMAIN profiles
               /\ tx'[w].pc = AfterProfile(tx[w].event)
               /\ tx'[w].profile = profiles[tx[w].customer]
               /\ tx'[w].event = tx[w].event /\ tx'[w].customer = tx[w].customer
               /\ tx'[w].segments = tx[w].segments /\ tx'[w].todo = tx[w].todo
               /\ tx'[w].writes = tx[w].writes /\ tx'[w].claimed = tx[w].claimed
               /\ tx'[w].outcome = tx[w].outcome
<1> DEFINE t == tx[w]
           u == IF t.customer \in DOMAIN profiles
                THEN [t EXCEPT !.pc = AfterProfile(t.event),
                               !.profile = profiles[t.customer]]
                ELSE Decided(t, "failed")
<1>1. w \in Busy /\ t.pc = "load" /\ Step(w, u)
  BY DEF LoadProfile, At
<1>2. t \in Transaction
  BY <1>1 DEF TypeOK, Busy
<1>3. Others(w) /\ tx'[w] = u
  BY <1>1, SteppedTx DEF Others
<1>4. QED
  BY <1>1, <1>2, <1>3 DEF Decided, DecidesTo, SameWork, Transaction

LEMMA SelectFacts ==
  ASSUME TypeOK, NEW w \in Worker, SelectPurchase(w)
  PROVE  /\ w \in Busy /\ tx[w].pc = "select_purchase" /\ Others(w)
         /\ SameWork(tx[w], tx'[w]) /\ tx'[w].writes = tx[w].writes
         /\ \/ /\ tx'[w].pc = "insert_purchase" /\ tx'[w].outcome = tx[w].outcome
               /\ PurchaseOf[tx[w].event].order \notin DOMAIN purchases
            \/ DecidesTo(tx[w], tx'[w], "sent_to_dlq")
            \/ /\ DecidesTo(tx[w], tx'[w], "processed")
               /\ PurchaseOf[tx[w].event].order \in DOMAIN purchases
<1> DEFINE t == tx[w]
           o == PurchaseOf[t.event].order
<1>1. w \in Busy /\ t.pc = "select_purchase"
  BY DEF SelectPurchase, At
<1>2. t \in Transaction
  BY <1>1 DEF TypeOK, Busy
<1>3. PICK u : /\ Step(w, u)
               /\ \/ u = [t EXCEPT !.pc = "insert_purchase"] /\ o \notin DOMAIN purchases
                  \/ u = Decided(t, "sent_to_dlq")
                  \/ u = Decided(t, "processed") /\ o \in DOMAIN purchases
  BY DEF SelectPurchase
<1>4. Others(w) /\ tx'[w] = u
  BY <1>1, <1>3, SteppedTx DEF Others
<1>5. QED
  BY <1>1, <1>2, <1>3, <1>4 DEF Decided, DecidesTo, SameWork, Transaction

\* What a transaction that ended has become.
Ended(t, u) ==
  /\ u.event = t.event /\ u.customer = NoCustomer /\ u.profile = NewProfile(t.event)
  /\ u.segments = {} /\ u.todo = {} /\ u.writes = {} /\ u.claimed = {}

LEMMA EndedFacts ==
  ASSUME NEW w \in Busy, NEW u \in {Replied(tx[w]), RolledBack(tx[w])}, Step(w, u)
  PROVE  /\ Others(w) /\ Ended(tx[w], tx'[w])
         /\ u = Replied(tx[w]) => tx'[w].pc = "reply" /\ tx'[w].outcome = tx[w].outcome
         /\ u = RolledBack(tx[w]) => tx'[w].pc = "mark_failed" /\ tx'[w].outcome = "failed"
<1>1. Others(w) /\ tx'[w] = u
  BY SteppedTx DEF Others
<1>2. QED
  BY <1>1 DEF Ended, Replied, RolledBack, NewTransaction

LEMMA InsertFacts ==
  ASSUME TypeOK, NEW w \in Worker, InsertPurchase(w)
  PROVE  /\ w \in Busy /\ tx[w].pc = "insert_purchase" /\ Executes(w) /\ Others(w)
         /\ \/ Ended(tx[w], tx'[w]) /\ tx'[w].pc = "mark_failed"
            \/ /\ PurchaseOf[tx[w].event].order \notin DOMAIN purchases
               /\ tx[w].customer \in DOMAIN profiles
               /\ SameWork(tx[w], tx'[w]) /\ tx'[w].outcome = tx[w].outcome
               /\ tx'[w].pc = "evaluate"
               /\ tx'[w].writes = tx[w].writes \cup {"processed_purchases"}
<1> DEFINE t == tx[w]
           u == [t EXCEPT !.pc = "evaluate", !.writes = @ \cup {"processed_purchases"}]
<1>1. w \in Busy /\ t.pc = "insert_purchase" /\ Executes(w)
  BY DEF InsertPurchase, At
<1>2. t \in Transaction
  BY <1>1 DEF TypeOK, Busy
<1>3. \/ Step(w, RolledBack(t))
      \/ /\ Step(w, u) /\ PurchaseOf[t.event].order \notin DOMAIN purchases
         /\ t.customer \in DOMAIN profiles
  BY DEF InsertPurchase
<1>4. SameWork(t, u) /\ u.outcome = t.outcome /\ u.pc = "evaluate"
      /\ u.writes = t.writes \cup {"processed_purchases"}
  BY <1>2 DEF SameWork, Transaction
<1> HIDE DEF u
<1>5. CASE Step(w, RolledBack(t))
  BY <1>1, <1>5, EndedFacts
<1>6. CASE /\ Step(w, u) /\ PurchaseOf[t.event].order \notin DOMAIN purchases
           /\ t.customer \in DOMAIN profiles
  <2>1. Others(w) /\ tx'[w] = u
    BY <1>1, <1>6, SteppedTx DEF Others
  <2>2. QED
    BY <1>1, <1>4, <1>6, <2>1
<1>7. QED
  BY <1>3, <1>5, <1>6

LEMMA EvaluateFacts ==
  ASSUME TypeOK, NEW w \in Worker, EvaluateSegments(w)
  PROVE  /\ w \in Busy /\ tx[w].pc = "evaluate" /\ Others(w) /\ Zoned[tx[w].event]
         /\ tx'[w].event = tx[w].event /\ tx'[w].customer = tx[w].customer
         /\ tx'[w].profile = tx[w].profile /\ tx'[w].todo = tx[w].todo
         /\ tx'[w].claimed = tx[w].claimed /\ tx'[w].writes = tx[w].writes
         /\ tx'[w].outcome = tx[w].outcome /\ tx'[w].pc = "save_profile"
         /\ tx'[w].segments =
              EvaluateStaticSegments(UpdateProfileFromEvent(tx[w].profile, tx[w].event), now)
<1> DEFINE t == tx[w]
           S == EvaluateStaticSegments(UpdateProfileFromEvent(t.profile, t.event), now)
           u == [t EXCEPT !.pc = "save_profile", !.segments = S]
<1>1. w \in Busy /\ t.pc = "evaluate" /\ Step(w, u) /\ Zoned[t.event]
  BY DEF EvaluateSegments, At
<1>2. t \in Transaction
  BY <1>1 DEF TypeOK, Busy
<1> HIDE DEF S
<1>3. Others(w) /\ tx'[w] = u
  BY <1>1, SteppedTx DEF Others
<1>4. /\ u.event = t.event /\ u.customer = t.customer /\ u.profile = t.profile
      /\ u.todo = t.todo /\ u.claimed = t.claimed /\ u.writes = t.writes
      /\ u.outcome = t.outcome /\ u.pc = "save_profile" /\ u.segments = S
  BY <1>2 DEF Transaction
<1>5. QED
  BY <1>1, <1>3, <1>4 DEF S

LEMMA SaveProfileFacts ==
  ASSUME TypeOK, NEW w \in Worker, SaveProfile(w)
  PROVE  /\ w \in Busy /\ tx[w].pc = "save_profile" /\ Executes(w) /\ Others(w)
         /\ tx'[w].event = tx[w].event /\ tx'[w].customer = tx[w].customer
         /\ tx'[w].segments = tx[w].segments /\ tx'[w].todo = tx[w].todo
         /\ tx'[w].claimed = tx[w].claimed
         /\ tx'[w].profile = UpdateProfileFromEvent(tx[w].profile, tx[w].event)
         /\ tx'[w].writes = tx[w].writes \cup {"customer_profiles"}
         /\ tx'[w].outcome = "processed" /\ tx'[w].pc = AfterLink(tx[w].todo)
<1> DEFINE t == tx[w]
           updated == UpdateProfileFromEvent(t.profile, t.event)
           u == [t EXCEPT !.pc = AfterLink(t.todo), !.profile = updated,
                          !.writes = @ \cup {"customer_profiles"},
                          !.outcome = "processed"]
<1>1. w \in Busy /\ t.pc = "save_profile" /\ Executes(w) /\ Step(w, u)
  BY DEF SaveProfile, At
<1>2. t \in Transaction
  BY <1>1 DEF TypeOK, Busy
<1> HIDE DEF updated
<1>3. Others(w) /\ tx'[w] = u
  BY <1>1, SteppedTx DEF Others
<1>4. /\ u.event = t.event /\ u.customer = t.customer /\ u.segments = t.segments
      /\ u.todo = t.todo /\ u.claimed = t.claimed /\ u.profile = updated
      /\ u.writes = t.writes \cup {"customer_profiles"}
      /\ u.outcome = "processed" /\ u.pc = AfterLink(t.todo)
  BY <1>2 DEF Transaction
<1>5. QED
  BY <1>1, <1>3, <1>4 DEF updated

LEMMA SaveLinkFacts ==
  ASSUME TypeOK, NEW w \in Worker, SaveLink(w)
  PROVE  /\ w \in Busy /\ tx[w].pc = "save_link" /\ Executes(w) /\ Others(w)
         /\ tx'[w].event = tx[w].event /\ tx'[w].customer = tx[w].customer
         /\ tx'[w].segments = tx[w].segments /\ tx'[w].profile = tx[w].profile
         /\ tx'[w].writes = tx[w].writes /\ tx'[w].outcome = tx[w].outcome
         /\ tx'[w].pc = AfterLink(tx'[w].todo)
         /\ \E i \in tx[w].todo :
              /\ IsNextLink(tx[w], i)
              /\ tx'[w].todo = tx[w].todo \ {i}
              /\ tx'[w].claimed = tx[w].claimed \cup ({i} \ DOMAIN links)
<1> DEFINE t == tx[w]
           saved(i) == [t EXCEPT !.pc = AfterLink(t.todo \ {i}),
                                 !.todo = @ \ {i},
                                 !.claimed = @ \cup ({i} \ DOMAIN links)]
<1>1. w \in Busy /\ t.pc = "save_link" /\ Executes(w)
  BY DEF SaveLink, At
<1>2. t \in Transaction
  BY <1>1 DEF TypeOK, Busy
<1>3. PICK i \in t.todo : IsNextLink(t, i) /\ Step(w, saved(i))
  BY DEF SaveLink
<1> DEFINE u == saved(i)
<1>4. /\ u.event = t.event /\ u.customer = t.customer /\ u.segments = t.segments
      /\ u.profile = t.profile /\ u.writes = t.writes /\ u.outcome = t.outcome
      /\ u.pc = AfterLink(t.todo \ {i}) /\ u.todo = t.todo \ {i}
      /\ u.claimed = t.claimed \cup ({i} \ DOMAIN links)
  BY <1>2 DEF Transaction
<1>5. Others(w) /\ tx'[w] = u
  BY <1>1, <1>3, SteppedTx DEF Others
<1> HIDE DEF u
<1>6. QED
  BY <1>1, <1>3, <1>4, <1>5

LEMMA CommitFacts ==
  ASSUME NEW w \in Worker, Commit(w) \/ CommitAnswerLost(w)
  PROVE  /\ w \in Busy /\ tx[w].pc = "commit" /\ ApplyWrites(w)
         /\ Others(w) /\ Ended(tx[w], tx'[w])
BY EndedFacts DEF Commit, CommitAnswerLost, At

\* The ways a transaction ends without a commit.
LEMMA RollbackFacts ==
  ASSUME NEW w \in Worker, StatementFails(w) \/ StatementRefused(w) \/ DeadlockVictim(w)
  PROVE  /\ w \in Busy /\ Others(w) /\ Ended(tx[w], tx'[w])
         /\ tx'[w].pc = "mark_failed" /\ UNCHANGED tables
BY EndedFacts DEF StatementFails, StatementRefused, DeadlockVictim

LEMMA MarkFailedFacts ==
  ASSUME NEW w \in Worker, MarkFailed(w) \/ MarkFailedFails(w)
  PROVE  /\ w \in Busy /\ tx[w].pc = "mark_failed" /\ Others(w) /\ Ended(tx[w], tx'[w])
         /\ tx'[w].pc = "reply" /\ tx'[w].outcome = tx[w].outcome
         /\ UNCHANGED <<links, profiles, purchases, memberships>>
BY EndedFacts DEF MarkFailed, MarkFailedFails, At, tables

LEMMA BeginFacts ==
  ASSUME NEW w \in Worker, NEW e \in Event, Begin(w, e)
  PROVE  /\ w \notin Busy /\ Busy' = Busy \cup {w}
         /\ \A v \in Busy : v # w /\ tx'[v] = tx[v]
         /\ tx'[w].pc = "record" /\ tx'[w].event = e /\ tx'[w].customer = NoCustomer
         /\ tx'[w].profile = NewProfile(e) /\ tx'[w].segments = {} /\ tx'[w].todo = {}
         /\ tx'[w].writes = {} /\ tx'[w].claimed = {} /\ UNCHANGED tables
<1>1. w \notin Busy /\ tx' = Put(tx, w, NewTransaction(e)) /\ UNCHANGED tables
  BY DEF Begin
<1>2. /\ Busy' = Busy \cup {w} /\ tx'[w] = NewTransaction(e)
      /\ \A v \in Busy : v # w => tx'[v] = tx[v]
  BY <1>1, BegunTx
<1>3. \A v \in Busy : v # w /\ tx'[v] = tx[v]
  BY <1>1, <1>2
<1>4. /\ tx'[w].pc = "record" /\ tx'[w].event = e /\ tx'[w].customer = NoCustomer
      /\ tx'[w].profile = NewProfile(e) /\ tx'[w].segments = {} /\ tx'[w].todo = {}
      /\ tx'[w].writes = {} /\ tx'[w].claimed = {}
  BY <1>2 DEF NewTransaction
<1>5. QED
  BY <1>1, <1>2, <1>3, <1>4

LEMMA LeaveFacts ==
  ASSUME NEW w \in Worker, Reply(w) \/ Crash(w) \/ RaiseTypeError(w)
  PROVE  Busy' = Busy \ {w} /\ (\A v \in Busy' : tx'[v] = tx[v]) /\ UNCHANGED tables
BY DroppedTx DEF Reply, Crash, RaiseTypeError

-----------------------------------------------------------------------------
(* A profile has only what is backed by the other tables *)

Buys(t) == "processed_purchases" \in t.writes
Saves(t) == "customer_profiles" \in t.writes
OrderOf(e) == PurchaseOf[e].order

\* An order is inserted by one open transaction at most, and by none when its
\* row is committed: the unique key of processed_purchases.
UniqueOrder ==
  \A w \in Busy : Buys(tx[w]) =>
    /\ OrderOf(tx[w].event) \notin DOMAIN purchases
    /\ \A v \in Busy : v # w /\ Buys(tx[v]) => OrderOf(tx[v].event) # OrderOf(tx[w].event)

\* A purchase is inserted before the profile counts it.
BoughtFirst(t) ==
  TypeOf[t.event] = "purchase" /\ (Saves(t) \/ t.pc \in {"evaluate", "save_profile"}) => Buys(t)

\* An identifier of the event is linked, claimed or still to be inserted, and
\* none is left to insert at the commit.
LinksAhead(t) ==
  /\ Saves(t) \/ t.pc \in Resolved =>
       KnownIdentifiers(t.event) \subseteq DOMAIN links \cup t.todo \cup t.claimed
  /\ Saves(t) /\ t.pc = "commit" => t.todo = {}

\* The order of e was bought by customer c with this event.
BackedBy(e, c) ==
  /\ OrderOf(e) \in DOMAIN purchases
  /\ purchases[OrderOf(e)].event = e
  /\ purchases[OrderOf(e)].customer = c

\* The same of a profile in memory, but for the event that is being applied.
MemoryBacked ==
  \A w \in Busy : \A e \in Event : Carries(w, e) =>
    \/ e = tx[w].event /\ Saves(tx[w])
    \/ /\ TypeOf[e] = "purchase" => BackedBy(e, tx[w].customer)
       /\ KnownIdentifiers(e) \subseteq DOMAIN links

BackInv ==
  /\ UniqueOrder
  /\ \A w \in Busy : BoughtFirst(tx[w]) /\ LinksAhead(tx[w])
  /\ MemoryBacked
  /\ PurchaseIsBacked
  /\ AppliedIdentifiersLinked

LEMMA BackInit == Init => BackInv
<1> SUFFICES ASSUME Init PROVE BackInv
  OBVIOUS
<1>1. DOMAIN << >> = {}
  OBVIOUS
<1>2. QED
  BY <1>1 DEF Init, BackInv, UniqueOrder, MemoryBacked, PurchaseIsBacked,
     AppliedIdentifiersLinked, Applied, Busy

\* What a step of w that changes no table must keep.
LEMMA LocalBack ==
  ASSUME BackInv, NEW w \in Busy, Others(w), UNCHANGED <<links, profiles, purchases>>,
         UniqueOrder', BoughtFirst(tx'[w]), LinksAhead(tx'[w]),
         \A e \in Event : tx'[w].profile.recent[e] > 0 =>
           \/ e = tx'[w].event /\ Saves(tx'[w])
           \/ /\ TypeOf[e] = "purchase" => BackedBy(e, tx'[w].customer)
              /\ KnownIdentifiers(e) \subseteq DOMAIN links
  PROVE  BackInv'
<1>1. \A v \in Busy' : (BoughtFirst(tx[v]) /\ LinksAhead(tx[v]))'
  <2>1. \A v \in Busy : BoughtFirst(tx'[v]) /\ LinksAhead(tx'[v])
    BY DEF BackInv, Others
  <2>2. QED
    BY <2>1 DEF Others, BoughtFirst, LinksAhead
<1>2. \A e, c : BackedBy(e, c)' <=> BackedBy(e, c)
  BY DEF BackedBy
<1>3. MemoryBacked'
  BY <1>2 DEF BackInv, MemoryBacked, Carries, Others
<1>4. PurchaseIsBacked' /\ AppliedIdentifiersLinked'
  BY DEF BackInv, PurchaseIsBacked, AppliedIdentifiersLinked, Applied
<1>5. QED
  BY <1>1, <1>3, <1>4 DEF BackInv

\* No order is inserted by the step.
LEMMA KeepsOrders ==
  ASSUME UniqueOrder, NEW w \in Busy, Others(w), purchases' = purchases,
         Buys(tx'[w]) => Buys(tx[w]) /\ tx'[w].event = tx[w].event
  PROVE  UniqueOrder'
BY DEF UniqueOrder, Others

\* A transaction whose profile, event and customer stay keeps what backs them.
LEMMA KeepsMemory ==
  ASSUME BackInv, NEW w \in Busy, tx'[w].profile = tx[w].profile,
         tx'[w].event = tx[w].event, tx'[w].customer = tx[w].customer,
         Saves(tx[w]) => Saves(tx'[w])
  PROVE  \A e \in Event : tx'[w].profile.recent[e] > 0 =>
           \/ e = tx'[w].event /\ Saves(tx'[w])
           \/ /\ TypeOf[e] = "purchase" => BackedBy(e, tx'[w].customer)
              /\ KnownIdentifiers(e) \subseteq DOMAIN links
BY DEF BackInv, MemoryBacked, Carries

\* A transaction that ended has nothing that needs backing.
LEMMA EndedBack ==
  ASSUME BackInv, NEW w \in Busy, Others(w), UNCHANGED <<links, profiles, purchases>>,
         Ended(tx[w], tx'[w]), tx'[w].pc \in {"mark_failed", "reply"}
  PROVE  BackInv'
<1>1. UniqueOrder'
  BY KeepsOrders DEF BackInv, Ended, Buys
<1>2. BoughtFirst(tx'[w]) /\ LinksAhead(tx'[w])
  BY DEF Ended, BoughtFirst, LinksAhead, Saves, Resolved, Recorded
<1>3. \A e \in Event : ~(tx'[w].profile.recent[e] > 0)
  BY DEF Ended, NewProfile
<1>4. QED
  BY <1>1, <1>2, <1>3, LocalBack

\* Nothing is in memory before the profile is loaded.
LEMMA EmptyMemory ==
  ASSUME NEW w \in Busy, StageOK(tx[w]), tx'[w].profile = tx[w].profile,
         tx[w].pc \in {"record", "resolve", "load"}
  PROVE  \A e \in Event : ~(tx'[w].profile.recent[e] > 0)
BY DEF StageOK

-----------------------------------------------------------------------------
(* The commit *)

LEMMA CommitBack ==
  ASSUME TypeOK, StageInv, SafeInv, BackInv, NEW w \in Busy, tx[w].pc = "commit",
         ApplyWrites(w), Others(w), Ended(tx[w], tx'[w]), tx'[w].pc \in {"mark_failed", "reply"}
  PROVE  BackInv'
<1> DEFINE t == tx[w]
           c == t.customer
           o == OrderOf(t.event)
<1>1. t \in Transaction /\ StageOK(t) /\ t.event \in Event /\ t.profile \in Profile
  BY TransactionFields DEF TypeOK, StageInv, Busy
<1>2. ~Buys(tx'[w]) /\ ~Saves(tx'[w]) /\ \A e \in Event : ~(tx'[w].profile.recent[e] > 0)
  BY DEF Ended, Buys, Saves, NewProfile
<1>3. /\ Buys(t) => /\ DOMAIN purchases' = DOMAIN purchases \cup {o}
                    /\ purchases'[o].event = t.event /\ purchases'[o].customer = c
                    /\ \A x \in DOMAIN purchases : x # o => purchases'[x] = purchases[x]
      /\ ~Buys(t) => purchases' = purchases
  BY DEF ApplyWrites, Put, Buys, OrderOf
<1>4. \A x \in DOMAIN purchases : x \in DOMAIN purchases' /\ purchases'[x] = purchases[x]
  BY <1>3 DEF BackInv, UniqueOrder
<1>5. /\ DOMAIN links' = DOMAIN links \cup t.claimed
      /\ DOMAIN profiles \subseteq DOMAIN profiles'
  BY <1>1, CommittedTables
<1>6. /\ Saves(t) => DOMAIN profiles' = DOMAIN profiles \cup {c}
      /\ ~Saves(t) => profiles' = profiles
      /\ Saves(t) => \A d \in DOMAIN profiles' : d # c => profiles'[d] = profiles[d]
      /\ Saves(t) => profiles'[c].recent = t.profile.recent
  <2>1. /\ c \in DOMAIN profiles => MergedRow(profiles[c], t.profile).recent = t.profile.recent
        /\ Row(t.profile).recent = t.profile.recent
    BY <1>1, SavedRecent DEF TypeOK
  <2>2. QED
    BY <2>1 DEF ApplyWrites, Put, Saves
<1>7. UniqueOrder'
  <2>1. \A v \in Busy' : Buys(tx'[v]) => v # w /\ v \in Busy /\ tx'[v] = tx[v]
    BY <1>2 DEF Others
  <2>2. QED
    BY <1>3, <2>1 DEF BackInv, UniqueOrder
<1>8. \A v \in Busy' : (BoughtFirst(tx[v]) /\ LinksAhead(tx[v]))'
  <2> SUFFICES ASSUME NEW v \in Busy PROVE (BoughtFirst(tx[v]) /\ LinksAhead(tx[v]))'
    BY DEF Others
  <2>1. CASE v = w
    BY <1>2, <2>1 DEF BoughtFirst, LinksAhead, Resolved, Recorded
  <2>2. CASE v # w
    BY <1>5, <2>2 DEF Others, BackInv, BoughtFirst, LinksAhead
  <2>3. QED
    BY <2>1, <2>2
<1>9. \A e, d : BackedBy(e, d) => BackedBy(e, d)'
  BY <1>4 DEF BackedBy
<1>10. MemoryBacked'
  <2> SUFFICES ASSUME NEW v \in Busy, NEW e \in Event, Carries(v, e)'
               PROVE  \/ e = tx'[v].event /\ Saves(tx'[v])
                      \/ /\ TypeOf[e] = "purchase" => BackedBy(e, tx[v].customer)'
                         /\ KnownIdentifiers(e) \subseteq DOMAIN links'
    BY DEF MemoryBacked, Others
  <2>1. v # w /\ tx'[v] = tx[v] /\ Carries(v, e)
    BY <1>2 DEF Carries, Others
  <2>2. QED
    BY <1>5, <1>9, <2>1 DEF BackInv, MemoryBacked, BackedBy
<1>11. ASSUME NEW e \in Event, NEW d \in DOMAIN profiles', Applied(e, d)'
       PROVE  /\ TypeOf[e] = "purchase" => BackedBy(e, d)'
              /\ KnownIdentifiers(e) \subseteq DOMAIN links'
  <2>1. \/ Saves(t) /\ d = c /\ Carries(w, e)
        \/ d \in DOMAIN profiles /\ Applied(e, d)
    BY <1>6, <1>11 DEF Applied, Carries
  <2>2. CASE d \in DOMAIN profiles /\ Applied(e, d)
    <3>1. /\ TypeOf[e] = "purchase" => BackedBy(e, d)
          /\ KnownIdentifiers(e) \subseteq DOMAIN links
      BY <2>2 DEF BackInv, PurchaseIsBacked, AppliedIdentifiersLinked, BackedBy, OrderOf
    <3>2. QED
      BY <1>5, <1>9, <3>1
  <2>3. CASE Saves(t) /\ d = c /\ Carries(w, e)
    <3>1. CASE e = t.event
      <4>1. TypeOf[e] = "purchase" => Buys(t)
        BY <2>3, <3>1 DEF BackInv, BoughtFirst
      <4>2. KnownIdentifiers(e) \subseteq DOMAIN links \cup t.todo \cup t.claimed /\ t.todo = {}
        BY <2>3, <3>1 DEF BackInv, LinksAhead
      <4>3. QED
        BY <1>3, <1>5, <2>3, <3>1, <4>1, <4>2 DEF BackedBy
    <3>2. CASE e # t.event
      <4>1. /\ TypeOf[e] = "purchase" => BackedBy(e, c)
            /\ KnownIdentifiers(e) \subseteq DOMAIN links
        BY <2>3, <3>2 DEF BackInv, MemoryBacked
      <4>2. QED
        BY <1>5, <1>9, <2>3, <4>1
    <3>3. QED
      BY <3>1, <3>2
  <2>4. QED
    BY <2>1, <2>2, <2>3
<1>12. PurchaseIsBacked'
  BY <1>11 DEF PurchaseIsBacked, BackedBy, OrderOf
<1>13. AppliedIdentifiersLinked'
  BY <1>11 DEF AppliedIdentifiersLinked
<1>14. QED
  BY <1>7, <1>8, <1>10, <1>12, <1>13 DEF BackInv

-----------------------------------------------------------------------------
(* Every step *)

LEMMA BackNext == TypeOK /\ StageInv /\ SafeInv /\ BackInv /\ [Next]_vars => BackInv'
<1> SUFFICES ASSUME TypeOK, StageInv, SafeInv, BackInv, [Next]_vars PROVE BackInv'
  OBVIOUS
<1>0. \A w \in Busy :
        /\ tx[w] \in Transaction /\ tx[w].event \in Event /\ tx[w].profile \in Profile
        /\ StageOK(tx[w]) /\ BoughtFirst(tx[w]) /\ LinksAhead(tx[w])
  BY TransactionFields DEF TypeOK, StageInv, BackInv, Busy
\* A statement after which the profile in memory is the same.
<1>1. ASSUME NEW w \in Busy, Others(w), UNCHANGED <<links, profiles, purchases>>,
             tx'[w].profile = tx[w].profile, tx'[w].event = tx[w].event,
             tx'[w].customer = tx[w].customer, Saves(tx[w]) => Saves(tx'[w]),
             UniqueOrder', BoughtFirst(tx'[w]), LinksAhead(tx'[w])
      PROVE  BackInv'
  BY <1>1, KeepsMemory, LocalBack
<1>2. ASSUME NEW w \in Worker, NEW e \in Event, Begin(w, e) PROVE BackInv'
  <2>1. /\ w \notin Busy /\ Busy' = Busy \cup {w}
        /\ \A v \in Busy : v # w /\ tx'[v] = tx[v]
        /\ tx'[w].pc = "record" /\ tx'[w].profile = NewProfile(e) /\ tx'[w].writes = {}
    BY <1>2, BeginFacts
  <2>2. UNCHANGED <<links, profiles, purchases>>
    BY <1>2, BeginFacts DEF tables
  <2>3. UniqueOrder'
    BY <2>1, <2>2 DEF BackInv, UniqueOrder, Buys
  <2>4. \A v \in Busy' : (BoughtFirst(tx[v]) /\ LinksAhead(tx[v]))'
    BY <1>0, <2>1, <2>2 DEF BoughtFirst, LinksAhead, Saves, Resolved, Recorded
  <2>5. \A f \in Event : ~(tx'[w].profile.recent[f] > 0)
    BY <2>1 DEF NewProfile
  <2>6. MemoryBacked'
    BY <2>1, <2>2, <2>5 DEF BackInv, MemoryBacked, Carries, BackedBy
  <2>7. PurchaseIsBacked' /\ AppliedIdentifiersLinked'
    BY <2>2 DEF BackInv, PurchaseIsBacked, AppliedIdentifiersLinked, Applied
  <2>8. QED
    BY <2>3, <2>4, <2>6, <2>7 DEF BackInv
<1>3. ASSUME NEW w \in Worker, RecordReceived(w) PROVE BackInv'
  <2>1. /\ w \in Busy /\ tx[w].pc = "record" /\ Others(w) /\ SameWork(tx[w], tx'[w])
        /\ tx'[w].pc \in {"commit", "resolve"} /\ tx'[w].writes \in {tx[w].writes, {"raw_events"}}
    BY <1>3, RecordFacts DEF DecidesTo
  <2>2. UNCHANGED <<links, profiles, purchases>>
    BY <1>3 DEF RecordReceived, tables
  <2>3. tx[w].writes = {}
    BY <1>0, <2>1 DEF StageOK
  <2>4. ~Buys(tx'[w]) /\ ~Saves(tx'[w])
    BY <2>1, <2>3 DEF Buys, Saves
  <2>5. UniqueOrder'
    BY <2>1, <2>2, <2>4, KeepsOrders DEF BackInv
  <2>6. BoughtFirst(tx'[w]) /\ LinksAhead(tx'[w])
    BY <2>1, <2>4 DEF BoughtFirst, LinksAhead, Resolved, Recorded
  <2>7. \A e \in Event : ~(tx'[w].profile.recent[e] > 0)
    BY <1>0, <2>1, EmptyMemory DEF SameWork
  <2>8. QED
    BY <2>1, <2>2, <2>5, <2>6, <2>7, LocalBack
<1>4. ASSUME NEW w \in Worker, ResolveKnownProfile(w) PROVE BackInv'
  <2>1. /\ w \in Busy /\ tx[w].pc = "resolve" /\ Others(w)
        /\ tx'[w].profile = tx[w].profile /\ tx'[w].event = tx[w].event
        /\ tx'[w].writes = tx[w].writes
        /\ \/ tx'[w].pc = "commit"
           \/ /\ tx'[w].pc \in {AfterProfile(tx[w].event), "load"}
              /\ tx'[w].todo = KnownIdentifiers(tx[w].event) \ Linked(tx[w])
    BY <1>4, ResolveFacts DEF DecidesTo, SameWork
  <2>2. UNCHANGED <<links, profiles, purchases>>
    BY <1>4 DEF ResolveKnownProfile, tables
  <2>3. ~Buys(tx[w]) /\ ~Saves(tx[w])
    BY <1>0, <2>1, <2>2 DEF StageOK, Buys, Saves, SafeInv, BuyerOK
  <2>4. UniqueOrder'
    BY <2>1, <2>2, KeepsOrders DEF BackInv, Buys
  <2>5. BoughtFirst(tx'[w]) /\ LinksAhead(tx'[w])
    BY <2>1, <2>3 DEF BoughtFirst, LinksAhead, Saves, Buys, AfterProfile, Resolved, Recorded, Linked
  <2>6. \A e \in Event : ~(tx'[w].profile.recent[e] > 0)
    BY <1>0, <2>1, EmptyMemory
  <2>7. QED
    BY <2>1, <2>2, <2>4, <2>5, <2>6, LocalBack
<1>5. ASSUME NEW w \in Worker, LoadProfile(w) PROVE BackInv'
  <2> DEFINE c == tx[w].customer
  <2>1. /\ w \in Busy /\ tx[w].pc = "load" /\ Others(w)
        /\ tx'[w].event = tx[w].event /\ tx'[w].customer = c /\ tx'[w].todo = tx[w].todo
        /\ tx'[w].writes = tx[w].writes /\ tx'[w].claimed = tx[w].claimed
        /\ \/ tx'[w].profile = tx[w].profile /\ tx'[w].pc = "commit"
           \/ /\ c \in DOMAIN profiles /\ tx'[w].profile = profiles[c]
              /\ tx'[w].pc = AfterProfile(tx[w].event)
    BY <1>5, LoadFacts DEF DecidesTo, SameWork
  <2>2. UNCHANGED <<links, profiles, purchases>>
    BY <1>5 DEF LoadProfile, tables
  <2>3. ~Buys(tx[w]) /\ ~Saves(tx[w])
    BY <1>0, <2>1 DEF StageOK, Buys, Saves, SafeInv, BuyerOK
  <2>4. UniqueOrder'
    BY <2>1, <2>2, KeepsOrders DEF BackInv, Buys
  <2>5. BoughtFirst(tx'[w]) /\ LinksAhead(tx'[w])
    BY <1>0, <2>1, <2>3 DEF BoughtFirst, LinksAhead, Saves, Buys, AfterProfile, Resolved, Recorded
  <2>6. ASSUME NEW e \in Event, tx'[w].profile.recent[e] > 0
        PROVE  /\ TypeOf[e] = "purchase" => BackedBy(e, c)
               /\ KnownIdentifiers(e) \subseteq DOMAIN links
    <3>1. c \in DOMAIN profiles /\ Applied(e, c)
      BY <1>0, <2>1, <2>6, EmptyMemory DEF Applied
    <3>2. QED
      BY <3>1 DEF BackInv, PurchaseIsBacked, AppliedIdentifiersLinked, BackedBy, OrderOf
  <2>7. QED
    BY <2>1, <2>2, <2>4, <2>5, <2>6, LocalBack
<1>6. ASSUME NEW w \in Worker, SelectPurchase(w) PROVE BackInv'
  <2>1. /\ w \in Busy /\ tx[w].pc = "select_purchase" /\ Others(w)
        /\ SameWork(tx[w], tx'[w]) /\ tx'[w].writes = tx[w].writes
        /\ tx'[w].pc \in {"insert_purchase", "commit"}
    BY <1>6, SelectFacts DEF DecidesTo
  <2>2. UNCHANGED <<links, profiles, purchases>>
    BY <1>6 DEF SelectPurchase, tables
  <2>3. ~Saves(tx[w])
    BY <1>0, <2>1 DEF StageOK, Saves
  <2>4. UniqueOrder'
    BY <2>1, <2>2, KeepsOrders DEF BackInv, Buys, SameWork
  <2>5. BoughtFirst(tx'[w]) /\ LinksAhead(tx'[w])
    BY <1>0, <2>1, <2>3 DEF BoughtFirst, LinksAhead, Saves, Resolved, Recorded, SameWork
  <2>6. QED
    BY <1>1, <2>1, <2>2, <2>3, <2>4, <2>5 DEF SameWork
<1>7. ASSUME NEW w \in Worker, InsertPurchase(w) PROVE BackInv'
  <2>1. /\ w \in Busy /\ tx[w].pc = "insert_purchase" /\ Executes(w) /\ Others(w)
    BY <1>7, InsertFacts
  <2>2. UNCHANGED <<links, profiles, purchases>>
    BY <1>7 DEF InsertPurchase, tables
  <2>3. CASE Ended(tx[w], tx'[w]) /\ tx'[w].pc = "mark_failed"
    BY <2>1, <2>2, <2>3, EndedBack
  <2>4. CASE /\ OrderOf(tx[w].event) \notin DOMAIN purchases
             /\ SameWork(tx[w], tx'[w]) /\ tx'[w].pc = "evaluate"
             /\ tx'[w].writes = tx[w].writes \cup {"processed_purchases"}
    <3>1. \A v \in Busy : v # w /\ Buys(tx[v]) => OrderOf(tx[v].event) # OrderOf(tx[w].event)
      BY <2>1 DEF Executes, Holders, Blocks, Buys, OrderOf
    <3>2. UniqueOrder'
      BY <2>1, <2>2, <2>4, <3>1 DEF BackInv, UniqueOrder, Others, SameWork
    <3>3. BoughtFirst(tx'[w]) /\ LinksAhead(tx'[w])
      BY <1>0, <2>1, <2>4 DEF BoughtFirst, LinksAhead, Buys, Saves, Resolved, Recorded, SameWork
    <3>4. QED
      BY <1>1, <2>1, <2>2, <2>4, <3>2, <3>3 DEF SameWork, Saves
  <2>5. QED
    BY <1>7, <2>3, <2>4, InsertFacts DEF OrderOf
<1>8. ASSUME NEW w \in Worker, EvaluateSegments(w) PROVE BackInv'
  <2>1. /\ w \in Busy /\ tx[w].pc = "evaluate" /\ Others(w)
        /\ tx'[w].event = tx[w].event /\ tx'[w].customer = tx[w].customer
        /\ tx'[w].profile = tx[w].profile /\ tx'[w].todo = tx[w].todo
        /\ tx'[w].claimed = tx[w].claimed /\ tx'[w].writes = tx[w].writes
        /\ tx'[w].pc = "save_profile"
    BY <1>8, EvaluateFacts
  <2>2. UNCHANGED <<links, profiles, purchases>>
    BY <1>8 DEF EvaluateSegments, tables
  <2>3. UniqueOrder'
    BY <2>1, <2>2, KeepsOrders DEF BackInv, Buys
  <2>4. BoughtFirst(tx'[w]) /\ LinksAhead(tx'[w])
    BY <1>0, <2>1 DEF BoughtFirst, LinksAhead, Buys, Saves, Resolved, Recorded
  <2>5. QED
    BY <1>1, <2>1, <2>2, <2>3, <2>4 DEF Saves
<1>9. ASSUME NEW w \in Worker, SaveProfile(w) PROVE BackInv'
  <2> DEFINE t == tx[w]
  <2>1. /\ w \in Busy /\ t.pc = "save_profile" /\ Others(w)
        /\ tx'[w].event = t.event /\ tx'[w].customer = t.customer
        /\ tx'[w].todo = t.todo /\ tx'[w].claimed = t.claimed
        /\ tx'[w].profile = UpdateProfileFromEvent(t.profile, t.event)
        /\ tx'[w].writes = t.writes \cup {"customer_profiles"}
        /\ tx'[w].pc = AfterLink(t.todo)
    BY <1>9, SaveProfileFacts
  <2>2. UNCHANGED <<links, profiles, purchases>>
    BY <1>9 DEF SaveProfile, tables
  <2>3. UniqueOrder'
    BY <2>1, <2>2, KeepsOrders DEF BackInv, Buys
  <2>4. BoughtFirst(tx'[w]) /\ LinksAhead(tx'[w])
    BY <1>0, <2>1 DEF BoughtFirst, LinksAhead, Buys, Saves, AfterLink, Resolved, Recorded
  <2>5. t.event \in Event /\ t.profile \in Profile
    BY <1>0, <2>1
  <2>6. \A e \in Event : e # t.event => tx'[w].profile.recent[e] = t.profile.recent[e]
    <3>1. t.profile.recent \in [Event -> Nat]
      BY <2>5 DEF Profile
    <3>2. \/ tx'[w].profile.recent = t.profile.recent
          \/ tx'[w].profile.recent = [t.profile.recent EXCEPT ![t.event] = @ + 1]
      BY <2>1, <2>5, UpdateRecent
    <3>3. QED
      BY <2>5, <3>1, <3>2
  <2>7. Saves(tx'[w]) /\ tx'[w].event = t.event /\ tx'[w].customer = t.customer
    BY <2>1 DEF Saves
  <2>8. \A e \in Event : tx'[w].profile.recent[e] > 0 =>
           \/ e = tx'[w].event /\ Saves(tx'[w])
           \/ /\ TypeOf[e] = "purchase" => BackedBy(e, tx'[w].customer)
              /\ KnownIdentifiers(e) \subseteq DOMAIN links
    BY <2>1, <2>6, <2>7 DEF BackInv, MemoryBacked, Carries
  <2>9. QED
    BY <2>1, <2>2, <2>3, <2>4, <2>8, LocalBack
<1>10. ASSUME NEW w \in Worker, SaveLink(w) PROVE BackInv'
  <2>1. /\ w \in Busy /\ tx[w].pc = "save_link" /\ Others(w)
        /\ tx'[w].event = tx[w].event /\ tx'[w].customer = tx[w].customer
        /\ tx'[w].profile = tx[w].profile /\ tx'[w].writes = tx[w].writes
        /\ tx'[w].pc = AfterLink(tx'[w].todo)
        /\ \E i \in tx[w].todo : /\ tx'[w].todo = tx[w].todo \ {i}
                                 /\ tx'[w].claimed = tx[w].claimed \cup ({i} \ DOMAIN links)
    BY <1>10, SaveLinkFacts
  <2>2. UNCHANGED <<links, profiles, purchases>>
    BY <1>10 DEF SaveLink, tables
  <2>3. UniqueOrder'
    BY <2>1, <2>2, KeepsOrders DEF BackInv, Buys
  <2>4. Saves(tx[w]) /\ Saves(tx'[w])
    BY <1>0, <2>1 DEF StageOK, Saves
  <2>5. BoughtFirst(tx'[w]) /\ LinksAhead(tx'[w])
    BY <1>0, <2>1, <2>4 DEF BoughtFirst, LinksAhead, Buys, AfterLink
  <2>6. QED
    BY <1>1, <2>1, <2>2, <2>3, <2>4, <2>5
<1>11. ASSUME NEW w \in Worker, Commit(w) \/ CommitAnswerLost(w) PROVE BackInv'
  <2>1. /\ w \in Busy /\ tx[w].pc = "commit" /\ ApplyWrites(w)
        /\ Others(w) /\ Ended(tx[w], tx'[w])
    BY <1>11, CommitFacts
  <2>2. tx'[w].pc \in {"mark_failed", "reply"}
    BY <1>11, <2>1, EndedFacts DEF Commit, CommitAnswerLost
  <2>3. QED
    BY <2>1, <2>2, CommitBack
<1>12. ASSUME NEW w \in Worker, StatementFails(w) \/ StatementRefused(w) \/ DeadlockVictim(w)
       PROVE  BackInv'
  BY <1>12, RollbackFacts, EndedBack DEF tables
<1>13. ASSUME NEW w \in Worker, MarkFailed(w) \/ MarkFailedFails(w) PROVE BackInv'
  BY <1>13, MarkFailedFacts, EndedBack
<1>14. ASSUME NEW w \in Worker, Reply(w) \/ Crash(w) \/ RaiseTypeError(w)
       PROVE  BackInv'
  <2>1. /\ Busy' \subseteq Busy /\ \A v \in Busy' : tx'[v] = tx[v]
        /\ UNCHANGED <<links, profiles, purchases>>
    BY <1>14, LeaveFacts DEF tables
  <2>2. QED
    BY <2>1 DEF BackInv, UniqueOrder, BoughtFirst, LinksAhead, MemoryBacked, Carries, BackedBy,
       PurchaseIsBacked, AppliedIdentifiersLinked, Applied
<1>15. CASE Tick \/ CollectSession \/ UNCHANGED vars
  <2>1. UNCHANGED <<links, profiles, purchases, tx>>
    BY <1>15 DEF Tick, CollectSession, vars, tables
  <2>2. QED
    BY <2>1 DEF BackInv, UniqueOrder, BoughtFirst, LinksAhead, MemoryBacked, Carries, BackedBy,
       PurchaseIsBacked, AppliedIdentifiersLinked, Applied, Busy
<1>16. QED
  BY <1>2, <1>3, <1>4, <1>5, <1>6, <1>7, <1>8, <1>9, <1>10, <1>11, <1>12, <1>13, <1>14,
     <1>15 DEF Next, Progress, Failure, Finished

LEMMA BackAlways == Spec => [](TypeOK /\ StageInv /\ SafeInv /\ BackInv)
<1>1. Spec => [](TypeOK /\ StageInv)
  BY StageInit, StageNext, PTL DEF Spec
<1>2. Spec => []SafeInv
  BY <1>1, SafeInit, SafeNext, PTL DEF Spec
<1>3. Spec => []BackInv
  BY <1>1, <1>2, BackInit, BackNext, PTL DEF Spec
<1>4. QED
  BY <1>1, <1>2, <1>3, PTL

\* Two events with one order are never both counted in revenue, whatever
\* statements of their transactions interleave: a purchase in a profile owns the
\* committed row of its order.
THEOREM PurchasesBacked == Spec => []PurchaseIsBacked
BY BackAlways, PTL DEF BackInv

\* No commit counts an event and forgets an identifier of it, also when another
\* transaction linked the identifier in between.
THEOREM IdentifiersLinked == Spec => []AppliedIdentifiersLinked
BY BackAlways, PTL DEF BackInv

-----------------------------------------------------------------------------
(* Times *)

\* Only a commit changes the profiles.
LEMMA WhoSaves ==
  ASSUME [Next]_vars PROVE UNCHANGED profiles \/ \E w \in Busy : ApplyWrites(w)
BY DEF Next, Progress, Failure, Finished, vars, tables, Begin, RecordReceived,
   ResolveKnownProfile, LoadProfile, SelectPurchase, InsertPurchase, EvaluateSegments,
   RaiseTypeError, SaveProfile, SaveLink, Commit, CommitAnswerLost, StatementFails,
   StatementRefused, DeadlockVictim, CollectSession, MarkFailed, MarkFailedFails, Reply, Crash, Tick, At

\* The row a save leaves covers the times of the row that was there.
LEMMA MergeWidens ==
  ASSUME NEW p \in Profile, NEW q \in Profile
  PROVE  /\ MergedRow(p, q).firstSeen <= p.firstSeen
         /\ MergedRow(p, q).lastSeen >= p.lastSeen
         /\ MergedRow(p, q).lastPurchase >= p.lastPurchase
<1>1. Row(q) \in Profile
  BY RowType
<1>2. QED
  BY <1>1 DEF MergedRow, Profile, Earlier, Later, Never

\* A worker that saves a profile it loaded long ago takes no time back that
\* another one saved meanwhile.
THEOREM SeenTimesWiden == Spec => SeenRangeGrows
<1> DEFINE Widens == \A c \in DOMAIN profiles :
                       /\ c \in DOMAIN profiles'
                       /\ profiles'[c].firstSeen <= profiles[c].firstSeen
                       /\ profiles'[c].lastSeen >= profiles[c].lastSeen
                       /\ profiles'[c].lastPurchase >= profiles[c].lastPurchase
<1>1. TypeOK /\ [Next]_vars => Widens
  <2> SUFFICES ASSUME TypeOK, [Next]_vars, NEW c \in DOMAIN profiles
               PROVE  /\ c \in DOMAIN profiles'
                      /\ profiles'[c].firstSeen <= profiles[c].firstSeen
                      /\ profiles'[c].lastSeen >= profiles[c].lastSeen
                      /\ profiles'[c].lastPurchase >= profiles[c].lastPurchase
    OBVIOUS
  <2>1. profiles[c] \in Profile
    BY DEF TypeOK
  <2>2. CASE profiles' = profiles
    BY <2>1, <2>2 DEF Profile
  <2>3. ASSUME NEW w \in Busy, ApplyWrites(w)
        PROVE  /\ c \in DOMAIN profiles'
               /\ profiles'[c] \in {profiles[c], MergedRow(profiles[c], tx[w].profile)}
    BY <2>3 DEF ApplyWrites, Put
  <2>4. \A w \in Busy : tx[w].profile \in Profile
    BY TransactionFields DEF TypeOK, Busy
  <2>5. ASSUME NEW w \in Busy, ApplyWrites(w)
        PROVE  /\ c \in DOMAIN profiles'
               /\ profiles'[c].firstSeen <= profiles[c].firstSeen
               /\ profiles'[c].lastSeen >= profiles[c].lastSeen
               /\ profiles'[c].lastPurchase >= profiles[c].lastPurchase
    <3>1. CASE profiles'[c] = profiles[c]
      BY <2>1, <2>3, <2>5, <3>1 DEF Profile
    <3>2. CASE profiles'[c] = MergedRow(profiles[c], tx[w].profile)
      BY <2>1, <2>3, <2>4, <2>5, <3>2, MergeWidens
    <3>3. QED
      BY <2>3, <2>5, <3>1, <3>2
  <2>6. QED
    BY <2>2, <2>5, WhoSaves
<1>2. Spec => []TypeOK
  BY TypeCorrect
<1>3. QED
  BY <1>1, <1>2, PTL DEF Spec, SeenRangeGrows
=============================================================================
