-------------------------- MODULE EventProcessing --------------------------
(***************************************************************************)
(* EventProcessingService.process_event on its PostgreSQL database, run by *)
(* any number of Kafka workers.  The committed tables are variables, an    *)
(* open unit of work is a record in tx, and each action is one statement   *)
(* of the transaction together with the code up to the next statement.     *)
(*                                                                         *)
(* The database runs at READ COMMITTED: a statement reads the tables as    *)
(* they are committed when it runs, and a statement that meets another     *)
(* transaction's uncommitted row with the same unique key waits until that *)
(* transaction ends.  Uncommitted rows are the marks in tx[w].writes and   *)
(* tx[w].claimed; the commit applies them.                                 *)
(*                                                                         *)
(* Events come from the message broker in any order and more than once.    *)
(* A statement, a commit or a process may fail at any step.                *)
(*                                                                         *)
(* An operator whose name starts with Faulty is the one below it with a    *)
(* mistake: a property is shown to notice the mistake when it is put in.   *)
(***************************************************************************)
EXTENDS ProfileRules, Tables, Sequences

CONSTANTS
  Worker,         \* worker processes
  Customer,       \* ids the customer id generator can return
  NoCustomer,     \* no customer chosen yet
  MaxDeliveries,  \* bound: how often each event is delivered
  MaxFaults,      \* bound: failures of the database and of processes
  MaxNow          \* bound: the last value of the clock

ASSUME NoCustomerAssumption == NoCustomer \notin Customer
ASSUME Bounds == MaxDeliveries \in [Event -> Nat] /\ MaxFaults \in Nat /\ MaxNow \in Nat \ {0}

VARIABLES
  rawEvents,    \* raw_events: processing_status by event_id
  links,        \* identity_links: customer_id by identifier
  profiles,     \* customer_profiles by customer_id
  purchases,    \* processed_purchases by (source, order_id)
  memberships,  \* segment_memberships: the segments of each customer
  tx,           \* the unit of work of each worker that is handling an event
  now,          \* what now_provider returns
  deliveries,   \* how often each event was delivered
  faults,       \* how many failures happened
  orphans       \* open transactions of attempts that are not running any more

tables == <<rawEvents, links, profiles, purchases, memberships>>
env == <<now, deliveries, faults, orphans>>
vars == <<tables, tx, env>>

Status == {"processed", "ignored_anonymous", "sent_to_dlq", "failed"}
Statement == {"record", "resolve", "load", "select_purchase", "insert_purchase",
              "save_profile", "save_link", "commit"}
Pc == Statement \cup {"evaluate", "mark_failed", "reply"}
Table == {"raw_events", "processed_purchases", "customer_profiles"}

PurchaseRow == [customer: Customer, event: Event, amount: Nat]
Transaction ==
  [pc: Pc, event: Event, customer: Customer \cup {NoCustomer}, profile: Profile,
   segments: SUBSET Segment, todo: SUBSET Identifier, writes: SUBSET Table,
   claimed: SUBSET Identifier, outcome: Status]

\* The workers that are handling an event.
Busy == DOMAIN tx

NewTransaction(e) ==
  [pc |-> "record", event |-> e, customer |-> NoCustomer, profile |-> NewProfile(e),
   segments |-> {}, todo |-> {}, writes |-> {}, claimed |-> {}, outcome |-> "failed"]

\* The row is never given its final status.
FaultyDecided(t, status) == [t EXCEPT !.pc = "commit", !.outcome = "received"]
Decided(t, status) == [t EXCEPT !.pc = "commit", !.outcome = status]
\* After a commit or a rollback nothing is left of the transaction but its event.
RolledBack(t) == [NewTransaction(t.event) EXCEPT !.pc = "mark_failed"]
Replied(t) == [NewTransaction(t.event) EXCEPT !.pc = "reply", !.outcome = t.outcome]

At(w, pc) == w \in Busy /\ tx[w].pc = pc
Step(w, t) == tx' = [tx EXCEPT ![w] = t]

-----------------------------------------------------------------------------
(* Waiting for rows of other transactions *)

\* The identifier the executemany of save_links inserts next: the identifiers
\* go in the order of the event.
IsNextLink(t, i) == i \in t.todo /\ \A j \in t.todo : Precedes(t.event, i, j)

\* The database refuses the values of the next statement: a text no text or
\* jsonb column holds, an amount beyond the precision of its column.
Refused(t) ==
  \/ t.pc = "record" /\ ~Storable[t.event]
  \/ t.pc = "insert_purchase" /\ Money(PurchaseOf[t.event].amount) > MaxMoney
  \/ /\ t.pc = "save_profile"
     /\ Money(UpdateProfileFromEvent(t.profile, t.event).revenue) > MaxMoney

\* Transaction u has written a row that the next statement of t must wait for.
Blocks(u, t) ==
  /\ ~Refused(t)
  /\ \/ t.pc = "record" /\ "raw_events" \in u.writes /\ u.event = t.event
     \/ /\ t.pc = "insert_purchase" /\ "processed_purchases" \in u.writes
        /\ PurchaseOf[u.event].order = PurchaseOf[t.event].order
     \/ /\ t.pc = "save_profile" /\ "customer_profiles" \in u.writes
        /\ u.customer = t.customer
     \/ t.pc = "save_link" /\ \E i \in u.claimed : IsNextLink(t, i)

Holders(w) == {v \in Busy \ {w} : Blocks(tx[v], tx[w])}

\* The next statement of w is executed: it neither waits nor is it refused.
Executes(w) ==
  /\ ~Refused(tx[w])
  /\ Holders(w) = {}
  /\ \A o \in orphans : ~Blocks(o, tx[w])

\* A cycle of transactions that wait for one another, w among them.
InDeadlock(w) ==
  \E S \in SUBSET Busy : w \in S /\ \A v \in S : Holders(v) \cap S # {}

-----------------------------------------------------------------------------
(* The steps of one unit of work *)

\* A message reaches the service: unit_of_work.begin opens a session.
Begin(w, e) ==
  /\ w \notin Busy
  /\ deliveries[e] < MaxDeliveries[e]
  /\ deliveries' = [deliveries EXCEPT ![e] = @ + 1]
  /\ tx' = Put(tx, w, NewTransaction(e))
  /\ UNCHANGED <<tables, now, faults, orphans>>

\* A failed event is taken up again when it is delivered again.
FaultyRecordReceived(w) ==
  /\ At(w, "record")
  /\ Executes(w)
  /\ LET t == tx[w]
         created == [t EXCEPT !.writes = {"raw_events"}]
     IN Step(w, IF t.event \in DOMAIN rawEvents /\ rawEvents[t.event] # "failed"
                THEN Decided(t, "processed")
                ELSE IF TypeOf[t.event] = "unsupported" THEN Decided(created, "sent_to_dlq")
                ELSE IF KnownIdentifiers(t.event) = {}
                     THEN Decided(created, "ignored_anonymous")
                ELSE [created EXCEPT !.pc = "resolve"])
  /\ UNCHANGED <<tables, env>>

\* The event is handled before its row is inserted, which then is forgotten.
FaultyUnrecorded(w) ==
  /\ At(w, "record")
  /\ Step(w, IF tx[w].event \in DOMAIN rawEvents THEN Decided(tx[w], "processed")
             ELSE [tx[w] EXCEPT !.pc = "resolve"])
  /\ UNCHANGED <<tables, env>>

\* record_received, and the decisions that need no further statement: a
\* duplicate, an unsupported type, an event with an anonymous id only.
RecordReceived(w) ==
  /\ At(w, "record")
  /\ Executes(w)
  /\ LET t == tx[w]
         created == [t EXCEPT !.writes = {"raw_events"}]
     IN Step(w, IF t.event \in DOMAIN rawEvents THEN Decided(t, "processed")
                ELSE IF TypeOf[t.event] = "unsupported" THEN Decided(created, "sent_to_dlq")
                ELSE IF KnownIdentifiers(t.event) = {}
                     THEN Decided(created, "ignored_anonymous")
                ELSE [created EXCEPT !.pc = "resolve"])
  /\ UNCHANGED <<tables, env>>

AfterProfile(e) ==
  IF TypeOf[e] = "purchase" THEN "select_purchase" ELSE "evaluate"

\* A generated customer id is one nobody has.
Fresh(c) == c \notin DOMAIN profiles /\ \A v \in Busy : tx[v].customer # c

Linked(t) == KnownIdentifiers(t.event) \cap DOMAIN links

\* Only a new customer gets links.
FaultyResolveKnownProfile(w) ==
  /\ At(w, "resolve")
  /\ LET t == tx[w]
         unlinked == KnownIdentifiers(t.event) \ Linked(t)
         owners == {links[i] : i \in Linked(t)}
     IN \E c \in Customer :
          \/ /\ owners = {} /\ Fresh(c)
             /\ Step(w, [t EXCEPT !.pc = AfterProfile(t.event), !.customer = c,
                                  !.todo = unlinked])
          \/ /\ owners = {c}
             /\ Step(w, [t EXCEPT !.pc = "load", !.customer = c])
  /\ UNCHANGED <<tables, env>>

\* find_links and the choice of the customer: none linked, a new one is
\* generated; one linked, its profile is loaded next; several, a conflict.
ResolveKnownProfile(w) ==
  /\ At(w, "resolve")
  /\ LET t == tx[w]
         unlinked == KnownIdentifiers(t.event) \ Linked(t)
         owners == {links[i] : i \in Linked(t)}
     IN \/ /\ owners = {}
           /\ \E c \in Customer :
                /\ Fresh(c)
                /\ Step(w, [t EXCEPT !.pc = AfterProfile(t.event), !.customer = c,
                                     !.todo = unlinked])
        \/ \E c \in Customer :
             /\ owners = {c}
             /\ Step(w, [t EXCEPT !.pc = "load", !.customer = c, !.todo = unlinked])
        \/ /\ \E c, d \in owners : c # d
           /\ Step(w, Decided(t, "sent_to_dlq"))
  /\ UNCHANGED <<tables, env>>

\* The stored profile is not read before it is written.
FaultyLoadProfile(w) ==
  /\ At(w, "load")
  /\ Step(w, [tx[w] EXCEPT !.pc = AfterProfile(tx[w].event)])
  /\ UNCHANGED <<tables, env>>

\* get_by_customer_id; a linked customer without a profile fails the event.
LoadProfile(w) ==
  /\ At(w, "load")
  /\ LET t == tx[w]
     IN Step(w, IF t.customer \in DOMAIN profiles
                THEN [t EXCEPT !.pc = AfterProfile(t.event),
                               !.profile = profiles[t.customer]]
                ELSE Decided(t, "failed"))
  /\ UNCHANGED <<tables, env>>

\* validate_purchase_payload and the lookup of the order; _is_duplicate
\* compares the stored amount with the amount of the event.
SelectPurchase(w) ==
  /\ At(w, "select_purchase")
  /\ LET t == tx[w]
         bought == PurchaseOf[t.event]
         same == /\ purchases[bought.order].amount = bought.amount
                 /\ purchases[bought.order].customer = t.customer
     IN Step(w, IF ~bought.valid THEN Decided(t, "sent_to_dlq")
                ELSE IF bought.order \notin DOMAIN purchases
                     THEN [t EXCEPT !.pc = "insert_purchase"]
                ELSE Decided(t, IF same THEN "processed" ELSE "sent_to_dlq"))
  /\ UNCHANGED <<tables, env>>

\* The insert replaces the row another event left for the order.
FaultyInsertPurchase(w) ==
  /\ At(w, "insert_purchase")
  /\ Executes(w)
  /\ Step(w, IF tx[w].customer \notin DOMAIN profiles
             THEN RolledBack(tx[w])
             ELSE [tx[w] EXCEPT !.pc = "evaluate",
                                !.writes = @ \cup {"processed_purchases"}])
  /\ UNCHANGED <<tables, env>>

\* The plain insert into processed_purchases: the unique order and the foreign
\* key to customer_profiles turn it into a dependency error.
InsertPurchase(w) ==
  /\ At(w, "insert_purchase")
  /\ Executes(w)
  /\ LET t == tx[w]
     IN Step(w, IF \/ PurchaseOf[t.event].order \in DOMAIN purchases
                   \/ t.customer \notin DOMAIN profiles
                THEN RolledBack(t)
                ELSE [t EXCEPT !.pc = "evaluate",
                               !.writes = @ \cup {"processed_purchases"}])
  /\ UNCHANGED <<tables, env>>

AfterLink(todo) == IF todo = {} THEN "commit" ELSE "save_link"

\* The segments are evaluated before the event is counted.
FaultyEvaluateSegments(w) ==
  /\ At(w, "evaluate")
  /\ Step(w, [tx[w] EXCEPT !.pc = "save_profile",
                           !.segments = EvaluateStaticSegments(tx[w].profile, now)])
  /\ UNCHANGED <<tables, env>>

\* update_profile_segments: the clock is read and the segments are known before
\* the next statement may have to wait for the profile row.
EvaluateSegments(w) ==
  /\ At(w, "evaluate")
  /\ Zoned[tx[w].event]
  /\ LET t == tx[w]
         updated == UpdateProfileFromEvent(t.profile, t.event)
     IN Step(w, [t EXCEPT !.pc = "save_profile",
                          !.segments = EvaluateStaticSegments(updated, now)])
  /\ UNCHANGED <<tables, env>>

\* A time without a zone cannot be compared with the times of the profile or
\* the clock.  The TypeError is no UseCaseDependencyError: it leaves
\* process_event and the transaction, neither committed nor rolled back.
RaiseTypeError(w) ==
  /\ At(w, "evaluate")
  /\ ~Zoned[tx[w].event]
  /\ tx' = Drop(tx, w)
  /\ orphans' = orphans \cup {tx[w]}
  /\ UNCHANGED <<tables, now, deliveries, faults>>

\* The links are saved without the profile they refer to.
FaultyUnsavedProfile(w) ==
  /\ At(w, "save_profile")
  /\ Step(w, [tx[w] EXCEPT !.pc = AfterLink(tx[w].todo), !.outcome = "processed"])
  /\ UNCHANGED <<tables, env>>

\* save_profile of the profile with the event, and replace_profile_memberships:
\* the upsert takes the lock of the profile row, under which the memberships
\* are replaced.
SaveProfile(w) ==
  /\ At(w, "save_profile")
  /\ Executes(w)
  /\ LET t == tx[w]
     IN Step(w, [t EXCEPT !.pc = AfterLink(t.todo),
                          !.profile = UpdateProfileFromEvent(@, t.event),
                          !.writes = @ \cup {"customer_profiles"},
                          !.outcome = "processed"])
  /\ UNCHANGED <<tables, env>>

\* An identifier that is already linked is linked to the new customer.
FaultySaveLink(w) ==
  /\ At(w, "save_link")
  /\ Executes(w)
  /\ LET t == tx[w]
     IN \E i \in t.todo :
          /\ IsNextLink(t, i)
          /\ Step(w, [t EXCEPT !.pc = AfterLink(t.todo \ {i}),
                               !.todo = @ \ {i},
                               !.claimed = @ \cup {i}])
  /\ UNCHANGED <<tables, env>>

\* One insert of save_links, ON CONFLICT DO NOTHING.
SaveLink(w) ==
  /\ At(w, "save_link")
  /\ Executes(w)
  /\ LET t == tx[w]
     IN \E i \in t.todo :
          /\ IsNextLink(t, i)
          /\ Step(w, [t EXCEPT !.pc = AfterLink(t.todo \ {i}),
                               !.todo = @ \ {i},
                               !.claimed = @ \cup ({i} \ DOMAIN links)])
  /\ UNCHANGED <<tables, env>>

-----------------------------------------------------------------------------
(* Commit, failure and reply *)

\* What the database does when the transaction of w commits.  The merge of a
\* profile row can be taken at the commit: the row was locked by the upsert.
ApplyWrites(w) ==
  LET t == tx[w]
      c == t.customer
      bought == PurchaseOf[t.event]
      wrote(table) == table \in t.writes
  IN /\ rawEvents' = IF wrote("raw_events")
                     THEN Put(rawEvents, t.event, t.outcome) ELSE rawEvents
     /\ purchases' = IF wrote("processed_purchases")
                     THEN Put(purchases, bought.order,
                              [customer |-> c, event |-> t.event,
                               amount |-> Money(bought.amount)])
                     ELSE purchases
     /\ profiles' = IF wrote("customer_profiles")
                    THEN Put(profiles, c, IF c \in DOMAIN profiles
                                          THEN MergedRow(profiles[c], t.profile)
                                          ELSE Row(t.profile))
                    ELSE profiles
     /\ memberships' = IF wrote("customer_profiles")
                       THEN Put(memberships, c, t.segments) ELSE memberships
     /\ links' = [i \in DOMAIN links \cup t.claimed |->
                    IF i \in t.claimed THEN c ELSE links[i]]

Commit(w) ==
  /\ At(w, "commit")
  /\ ApplyWrites(w)
  /\ Step(w, Replied(tx[w]))
  /\ UNCHANGED env

\* One more of the failures the bound allows.
OneFault == faults < MaxFaults /\ faults' = faults + 1

\* The commit raises although the database has committed: the answer was lost.
CommitAnswerLost(w) ==
  /\ At(w, "commit")
  /\ OneFault
  /\ ApplyWrites(w)
  /\ Step(w, RolledBack(tx[w]))
  /\ UNCHANGED <<now, deliveries, orphans>>

\* A statement or the commit raises UseCaseDependencyError and nothing stays.
StatementFails(w) ==
  /\ w \in Busy /\ tx[w].pc \in Statement
  /\ OneFault
  /\ Step(w, RolledBack(tx[w]))
  /\ UNCHANGED <<tables, now, deliveries, orphans>>

\* The database refuses the values of a statement, whenever it is tried.
StatementRefused(w) ==
  /\ w \in Busy /\ Refused(tx[w])
  /\ Step(w, RolledBack(tx[w]))
  /\ UNCHANGED <<tables, env>>

\* PostgreSQL breaks a cycle of waiting transactions by aborting one of them.
DeadlockVictim(w) ==
  /\ w \in Busy /\ InDeadlock(w)
  /\ Step(w, RolledBack(tx[w]))
  /\ UNCHANGED <<tables, env>>

\* The attempt is repeated instead.
FaultyMarkFailed(w) ==
  /\ At(w, "mark_failed")
  /\ Step(w, NewTransaction(tx[w].event))
  /\ UNCHANGED <<tables, env>>

\* _mark_failed_after_dependency_error: an UPDATE in a transaction of its own,
\* of the row with this event id if there is one.
MarkFailed(w) ==
  /\ At(w, "mark_failed")
  /\ LET e == tx[w].event
     IN rawEvents' = IF e \in DOMAIN rawEvents
                     THEN [rawEvents EXCEPT ![e] = "failed"] ELSE rawEvents
  /\ Step(w, Replied(tx[w]))
  /\ UNCHANGED <<links, profiles, purchases, memberships, env>>

\* The second transaction fails too; its error is swallowed.
MarkFailedFails(w) ==
  /\ At(w, "mark_failed")
  /\ OneFault
  /\ Step(w, Replied(tx[w]))
  /\ UNCHANGED <<tables, now, deliveries, orphans>>

\* process_event returns to the router.
Reply(w) ==
  /\ At(w, "reply")
  /\ tx' = Drop(tx, w)
  /\ UNCHANGED <<tables, env>>

\* The process dies: its connection closes and the database rolls back.
Crash(w) ==
  /\ w \in Busy
  /\ OneFault
  /\ tx' = Drop(tx, w)
  /\ UNCHANGED <<tables, now, deliveries, orphans>>

\* Nobody closes the session of an orphan.  The connection pool terminates its
\* connection once the session is garbage, or the process ends, and the
\* database rolls back.
CollectSession ==
  /\ \E o \in orphans : orphans' = orphans \ {o}
  /\ UNCHANGED <<tables, tx, now, deliveries, faults>>

Tick ==
  /\ now < MaxNow
  /\ now' = now + 1
  /\ UNCHANGED <<tables, tx, deliveries, faults, orphans>>

\* All deliveries of the bound are used and answered.
Finished ==
  /\ Busy = {}
  /\ deliveries = MaxDeliveries
  /\ UNCHANGED vars

-----------------------------------------------------------------------------
Init ==
  /\ rawEvents = << >>
  /\ links = << >>
  /\ profiles = << >>
  /\ purchases = << >>
  /\ memberships = << >>
  /\ tx = << >>
  /\ now = 1
  /\ deliveries = [e \in Event |-> 0]
  /\ faults = 0
  /\ orphans = {}

\* The steps the code and the database take on their own.
Progress(w) ==
  \/ RecordReceived(w)
  \/ ResolveKnownProfile(w)
  \/ LoadProfile(w)
  \/ SelectPurchase(w)
  \/ InsertPurchase(w)
  \/ EvaluateSegments(w)
  \/ RaiseTypeError(w)
  \/ SaveProfile(w)
  \/ SaveLink(w)
  \/ Commit(w)
  \/ StatementRefused(w)
  \/ DeadlockVictim(w)
  \/ MarkFailed(w)
  \/ Reply(w)

Failure(w) ==
  \/ CommitAnswerLost(w)
  \/ StatementFails(w)
  \/ MarkFailedFails(w)
  \/ Crash(w)

Next ==
  \/ \E w \in Worker : (\E e \in Event : Begin(w, e)) \/ Progress(w) \/ Failure(w)
  \/ CollectSession
  \/ Tick
  \/ Finished

Spec == Init /\ [][Next]_vars

\* An open unit of work goes on: the event loop runs it and PostgreSQL
\* answers each statement.  A session nobody refers to is collected.
FairSpec == Spec /\ (\A w \in Worker : WF_vars(Progress(w))) /\ WF_vars(CollectSession)

-----------------------------------------------------------------------------
(* Properties that hold for any number of workers *)

\* Rows, transactions and budgets have the shape the code gives them.
TypeOK ==
  /\ DOMAIN rawEvents \subseteq Event
  /\ \A e \in DOMAIN rawEvents : rawEvents[e] \in Status
  /\ DOMAIN links \subseteq Identifier
  /\ \A i \in DOMAIN links : links[i] \in Customer
  /\ DOMAIN profiles \subseteq Customer
  /\ \A c \in DOMAIN profiles : profiles[c] \in Profile
  /\ DOMAIN purchases \subseteq Order
  /\ \A o \in DOMAIN purchases : purchases[o] \in PurchaseRow
  /\ DOMAIN memberships = DOMAIN profiles
  /\ \A c \in DOMAIN memberships : memberships[c] \subseteq Segment
  /\ DOMAIN tx \subseteq Worker
  /\ \A w \in DOMAIN tx : tx[w] \in Transaction
  /\ now \in Nat \ {0}
  /\ deliveries \in [Event -> Nat]
  /\ faults \in 0 .. MaxFaults
  /\ orphans \subseteq Transaction

\* Event e is in the recent_events of customer c, so c's counters include it.
Applied(e, c) == c \in DOMAIN profiles /\ profiles[c].recent[e] > 0

\* Redelivery, concurrent workers, lost commit answers and crashes never make
\* an event count twice: it is in one customer's recent_events at most, once.
AppliedAtMostOnce ==
  \A e \in Event : \A c \in DOMAIN profiles :
    Applied(e, c) => /\ profiles[c].recent[e] = 1
                     /\ \A d \in DOMAIN profiles : Applied(e, d) => d = c

\* A profile only contains events whose raw row was committed with it: the
\* row says processed, or failed when the answer of that commit was lost.
AppliedIsRecorded ==
  \A e \in Event : \A c \in DOMAIN profiles :
    Applied(e, c) => e \in DOMAIN rawEvents /\ rawEvents[e] \in {"processed", "failed"}

\* Revenue is backed by the purchase table: a purchase in a profile is the
\* event that owns its order's row, for that customer.  Two events with one
\* (source, order_id) are therefore never both counted.
PurchaseIsBacked ==
  \A e \in Event : \A c \in DOMAIN profiles :
    Applied(e, c) /\ TypeOf[e] = "purchase" =>
      LET o == PurchaseOf[e].order
      IN o \in DOMAIN purchases /\ purchases[o].event = e /\ purchases[o].customer = c

\* The foreign keys: the order of the writes of one transaction and the point
\* where it commits never leave a link or a purchase without its profile.
ReferencesHold ==
  /\ \A i \in DOMAIN links : links[i] \in DOMAIN profiles
  /\ \A o \in DOMAIN purchases : purchases[o].customer \in DOMAIN profiles

\* Every identifier of an event that was applied leads to some customer, so
\* the next event with it does not start another profile.
AppliedIdentifiersLinked ==
  \A e \in Event : \A c \in DOMAIN profiles :
    Applied(e, c) => KnownIdentifiers(e) \subseteq DOMAIN links

\* No step deletes an event's row, and its status changes to failed only.
StatusIsFinal ==
  [][\A e \in DOMAIN rawEvents :
       e \in DOMAIN rawEvents' /\ rawEvents'[e] \in {rawEvents[e], "failed"}]_vars

\* An identifier that belongs to a customer is never given to another, not
\* even by a transaction that found it free before the other committed.
LinkNeverMoves ==
  [][\A i \in DOMAIN links : i \in DOMAIN links' /\ links'[i] = links[i]]_vars

\* first_seen_at, last_seen_at and last_purchase_at never go backwards on a
\* stored row, whatever stale profile a worker saves over it.
SeenRangeGrows ==
  [][\A c \in DOMAIN profiles :
       /\ c \in DOMAIN profiles'
       /\ profiles'[c].firstSeen <= profiles[c].firstSeen
       /\ profiles'[c].lastSeen >= profiles[c].lastSeen
       /\ profiles'[c].lastPurchase >= profiles[c].lastPurchase]_vars

\* Every unit of work comes to an end: waits for rows are finite and cycles
\* of waiting transactions are broken.
EveryAttemptEnds == \A w \in Worker : w \in Busy ~> w \notin Busy

-----------------------------------------------------------------------------
(* What a test or a text of the repository says and the code does not do *)

\* tests/usecase/test_process_event.py, test_known_purchase_in_rub_...: the
\* first purchase of a customer nobody has seen is processed.  While nothing
\* fails no event is answered with FAILED.
FailedOnlyAfterFault ==
  \A w \in Busy : tx[w].pc = "reply" /\ tx[w].outcome = "failed" => faults > 0

\* tests/usecase/test_process_event.py, test_record_dependency_error_...: when
\* an attempt breaks and the second transaction succeeds, raw_events says failed.
MarkFailedIsStored ==
  [][\A w \in Worker :
       MarkFailed(w) => /\ tx[w].event \in DOMAIN rawEvents'
                        /\ rawEvents'[tx[w].event] = "failed"]_vars

\* usecase/dto.py, PurchaseRecordOutcome: an order that exists with the same
\* facts is a duplicate.  A purchase by the customer who owns its order, for the
\* amount of the event that brought the order, is not refused.
RepeatIsNoConflict ==
  \A w \in Busy :
    LET e == tx[w].event
        bought == PurchaseOf[e]
        row == purchases[bought.order]
        ofOwner == \A i \in KnownIdentifiers(e) : i \in DOMAIN links /\ links[i] = row.customer
    IN At(w, "reply") /\ tx[w].outcome = "sent_to_dlq" /\ TypeOf[e] = "purchase" =>
         ~(/\ bought.valid /\ bought.order \in DOMAIN purchases /\ ofOwner
           /\ PurchaseOf[row.event].amount = bought.amount)

\* domain/segment.py, STATIC_SEGMENT_DEFINITIONS: members of a segment with a
\* time window are customers seen in that window, counted from now.
MembershipsAreCurrent ==
  \A c \in DOMAIN profiles :
    /\ "new_user" \in memberships[c] =>
         WithinLast(profiles[c].firstSeen, now, NewUserWindow)
    /\ "active" \in memberships[c] =>
         WithinLast(profiles[c].lastSeen, now, ActiveUserWindow)
=============================================================================
