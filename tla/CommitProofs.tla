---------------------------- MODULE CommitProofs ----------------------------
(***************************************************************************)
(* What the commits of concurrent transactions never do to the committed   *)
(* tables, for every number of workers and failures: a link never moves to *)
(* another customer, a status never changes except to failed, and links    *)
(* and purchases never lack their profile.                                 *)
(***************************************************************************)
EXTENDS EventProcessingProofs

\* Identifiers claimed by open transactions are free, and claimed once: the
\* unique key of identity_links makes a second insert wait.
ClaimInv ==
  \A w \in Busy :
    /\ tx[w].claimed \cap DOMAIN links = {}
    /\ \A v \in Busy : v # w => tx[v].claimed \cap tx[w].claimed = {}

\* A purchase is inserted for a customer whose profile is committed, and the
\* transaction keeps that customer.
BuyerOK(t) ==
  "processed_purchases" \in t.writes =>
    /\ t.customer \in DOMAIN profiles
    /\ t.pc \in {"evaluate", "save_profile", "save_link", "commit"}

SafeInv == ClaimInv /\ ReferencesHold /\ \A w \in Busy : BuyerOK(tx[w])

LEMMA SafeInit == Init => SafeInv
<1> SUFFICES ASSUME Init PROVE SafeInv
  OBVIOUS
<1>1. DOMAIN << >> = {}
  OBVIOUS
<1>2. QED
  BY <1>1 DEF Init, SafeInv, ClaimInv, ReferencesHold, Busy

\* A step of one transaction that claims no identifier and commits nothing.
LEMMA LocalSafe ==
  ASSUME SafeInv, NEW w \in Busy, NEW t, Step(w, t), BuyerOK(t),
         t.claimed \subseteq tx[w].claimed,
         UNCHANGED <<links, profiles, purchases>>
  PROVE  SafeInv'
<1>1. Busy' = Busy /\ tx'[w] = t /\ \A v \in Busy : v # w => tx'[v] = tx[v]
  BY SteppedTx
<1>2. ClaimInv'
  BY <1>1 DEF SafeInv, ClaimInv
<1>3. ReferencesHold'
  BY DEF SafeInv, ReferencesHold
<1>4. \A v \in Busy' : BuyerOK(tx[v])'
  BY <1>1 DEF SafeInv, BuyerOK
<1>5. QED
  BY <1>2, <1>3, <1>4 DEF SafeInv

\* A transaction that ended claims nothing and has bought nothing.
LEMMA EndedSafe ==
  ASSUME NEW t
  PROVE  /\ BuyerOK(RolledBack(t)) /\ BuyerOK(Replied(t))
         /\ RolledBack(t).claimed = {} /\ Replied(t).claimed = {}
BY DEF BuyerOK, RolledBack, Replied, NewTransaction

\* A commit adds links of free identifiers, and profiles; it takes none away.
LEMMA CommittedTables ==
  ASSUME SafeInv, NEW w \in Busy, ApplyWrites(w), StageOK(tx[w])
  PROVE  /\ DOMAIN links' = DOMAIN links \cup tx[w].claimed
         /\ \A i \in DOMAIN links : links'[i] = links[i]
         /\ \A i \in tx[w].claimed : links'[i] = tx[w].customer
         /\ DOMAIN profiles \subseteq DOMAIN profiles'
         /\ "customer_profiles" \in tx[w].writes => tx[w].customer \in DOMAIN profiles'
<1> DEFINE t == tx[w]
<1>1. /\ DOMAIN links' = DOMAIN links \cup t.claimed
      /\ \A i \in t.claimed : links'[i] = t.customer
      /\ \A i \in DOMAIN links : i \notin t.claimed => links'[i] = links[i]
  BY DEF ApplyWrites
<1>2. \A i \in DOMAIN links : links'[i] = links[i]
  BY <1>1 DEF SafeInv, ClaimInv
<1>3. /\ DOMAIN profiles \subseteq DOMAIN profiles'
      /\ "customer_profiles" \in t.writes => t.customer \in DOMAIN profiles'
  BY DEF ApplyWrites, Put
<1>4. QED
  BY <1>1, <1>2, <1>3

\* The links and purchases of a commit refer to a profile that is there.
LEMMA CommittedReferences ==
  ASSUME SafeInv, NEW w \in Busy, ApplyWrites(w), StageOK(tx[w])
  PROVE  ReferencesHold'
<1> DEFINE t == tx[w]
<1>3. /\ DOMAIN profiles \subseteq DOMAIN profiles'
      /\ "customer_profiles" \in t.writes => t.customer \in DOMAIN profiles'
  BY CommittedTables
<1>4. \A i \in DOMAIN links' : links'[i] \in DOMAIN profiles'
  <2>1. /\ DOMAIN links' = DOMAIN links \cup t.claimed
        /\ \A i \in DOMAIN links : links'[i] = links[i]
        /\ \A i \in t.claimed : links'[i] = t.customer
    BY CommittedTables
  <2>2. QED
    BY <1>3, <2>1 DEF SafeInv, ReferencesHold, StageOK
<1>5. \A o \in DOMAIN purchases' :
        \/ o \in DOMAIN purchases /\ purchases'[o] = purchases[o]
        \/ "processed_purchases" \in t.writes /\ purchases'[o].customer = t.customer
  BY DEF ApplyWrites, Put
<1>6. \A o \in DOMAIN purchases' : purchases'[o].customer \in DOMAIN profiles'
  BY <1>3, <1>5 DEF SafeInv, ReferencesHold, BuyerOK
<1>7. QED
  BY <1>4, <1>6 DEF ReferencesHold

LEMMA CommitSafe ==
  ASSUME SafeInv, NEW w \in Busy, StageOK(tx[w]), ApplyWrites(w),
         NEW u \in {Replied(tx[w]), RolledBack(tx[w])}, Step(w, u)
  PROVE  SafeInv'
<1>1. Busy' = Busy /\ tx'[w] = u /\ \A v \in Busy : v # w => tx'[v] = tx[v]
  BY SteppedTx
<1>2. u.claimed = {} /\ "processed_purchases" \notin u.writes
  BY DEF RolledBack, Replied, NewTransaction
<1>3. ClaimInv'
  <2>1. DOMAIN links' = DOMAIN links \cup tx[w].claimed
    BY CommittedTables
  <2>2. QED
    BY <1>1, <1>2, <2>1 DEF SafeInv, ClaimInv
<1>4. \A v \in Busy' : BuyerOK(tx[v])'
  <2>1. DOMAIN profiles \subseteq DOMAIN profiles'
    BY CommittedTables
  <2>2. QED
    BY <1>1, <1>2, <2>1 DEF SafeInv, BuyerOK
<1>5. ReferencesHold'
  BY CommittedReferences
<1>6. QED
  BY <1>3, <1>4, <1>5 DEF SafeInv

LEMMA SafeNext == TypeOK /\ StageInv /\ SafeInv /\ [Next]_vars => SafeInv'
<1> SUFFICES ASSUME TypeOK, StageInv, SafeInv, [Next]_vars PROVE SafeInv'
  OBVIOUS
<1>0. \A w \in Busy : tx[w] \in Transaction /\ StageOK(tx[w]) /\ BuyerOK(tx[w])
  BY DEF TypeOK, StageInv, SafeInv, Busy
<1>1. ASSUME NEW w \in Busy, NEW u \in {Replied(tx[w]), RolledBack(tx[w])}, Step(w, u),
             UNCHANGED <<links, profiles, purchases>>
      PROVE  SafeInv'
  BY <1>1, EndedSafe, LocalSafe
<1>2. ASSUME NEW w \in Worker, NEW e \in Event, Begin(w, e) PROVE SafeInv'
  <2>1. /\ Busy' = Busy \cup {w} /\ w \notin Busy
        /\ tx'[w] = NewTransaction(e)
        /\ \A v \in Busy : v # w => tx'[v] = tx[v]
        /\ UNCHANGED <<links, profiles, purchases>>
    BY <1>2, BegunTx DEF Begin, tables
  <2>2. NewTransaction(e).claimed = {} /\ "processed_purchases" \notin NewTransaction(e).writes
    BY DEF NewTransaction
  <2>3. ClaimInv'
    BY <2>1, <2>2 DEF SafeInv, ClaimInv
  <2>4. ReferencesHold'
    BY <2>1 DEF SafeInv, ReferencesHold
  <2>5. \A v \in Busy' : BuyerOK(tx[v])'
    BY <1>0, <2>1, <2>2 DEF BuyerOK
  <2>6. QED
    BY <2>3, <2>4, <2>5 DEF SafeInv
\* A step before the purchase is inserted, or a decision to commit.
<1>3. ASSUME NEW w \in Busy, NEW u, Step(w, u), UNCHANGED <<links, profiles, purchases>>,
             u.claimed = tx[w].claimed,
             "processed_purchases" \in u.writes => "processed_purchases" \in tx[w].writes,
             tx[w].pc \notin {"evaluate", "save_profile", "save_link", "commit"}
      PROVE  SafeInv'
  <2>1. BuyerOK(u)
    BY <1>0, <1>3 DEF BuyerOK
  <2>2. QED
    BY <1>3, <2>1, LocalSafe
<1>4. ASSUME NEW w \in Worker, RecordReceived(w) PROVE SafeInv'
  <2> DEFINE t == tx[w]
             created == [t EXCEPT !.writes = {"raw_events"}]
  <2>1. /\ w \in Busy /\ t.pc = "record" /\ UNCHANGED <<links, profiles, purchases>>
        /\ t \in Transaction /\ created \in Transaction
    BY <1>0, <1>4 DEF RecordReceived, At, tables, Transaction, Table
  <2>2. PICK u \in {Decided(t, "processed"), Decided(created, "sent_to_dlq"),
                    Decided(created, "ignored_anonymous"),
                    [created EXCEPT !.pc = "resolve"]} : Step(w, u)
    BY <1>4 DEF RecordReceived
  <2>3. created.claimed = t.claimed /\ created.writes = {"raw_events"}
    BY <2>1 DEF Transaction
  <2>4. u.claimed = t.claimed /\ u.writes \in {t.writes, {"raw_events"}}
    <3>1. \A s : /\ Decided(created, s).claimed = t.claimed
                 /\ Decided(created, s).writes = {"raw_events"}
      <4> HIDE DEF created
      <4>1. QED
        BY <2>1, <2>3, DecidedFields
    <3>2. \A s : Decided(t, s).claimed = t.claimed /\ Decided(t, s).writes = t.writes
      BY <2>1, DecidedFields
    <3>3. /\ [created EXCEPT !.pc = "resolve"].claimed = t.claimed
          /\ [created EXCEPT !.pc = "resolve"].writes = {"raw_events"}
      BY <2>1 DEF Transaction
    <3> HIDE DEF created
    <3>4. CASE u = Decided(t, "processed")
      BY <3>2, <3>4
    <3>5. CASE u \in {Decided(created, "sent_to_dlq"), Decided(created, "ignored_anonymous")}
      BY <3>1, <3>5
    <3>6. CASE u = [created EXCEPT !.pc = "resolve"]
      BY <3>3, <3>6
    <3>7. QED
      BY <2>2, <3>4, <3>5, <3>6
  <2>5. QED
    BY <1>3, <2>1, <2>2, <2>4
<1>5. ASSUME NEW w \in Worker, ResolveKnownProfile(w) PROVE SafeInv'
  <2> DEFINE t == tx[w]
             fresh(c, pc, todo) == [t EXCEPT !.pc = pc, !.customer = c, !.todo = todo]
  <2>1. /\ w \in Busy /\ t.pc = "resolve" /\ UNCHANGED <<links, profiles, purchases>>
        /\ t \in Transaction
    BY <1>0, <1>5 DEF ResolveKnownProfile, At, tables
  <2>2. CASE Step(w, Decided(t, "sent_to_dlq"))
    BY <1>3, <2>1, <2>2, DecidedFields
  <2>3. CASE \E c, pc, todo : Step(w, fresh(c, pc, todo))
    <3>1. PICK c, pc, todo : Step(w, fresh(c, pc, todo))
      BY <2>3
    <3>2. fresh(c, pc, todo).claimed = t.claimed /\ fresh(c, pc, todo).writes = t.writes
      BY <2>1 DEF Transaction
    <3> HIDE DEF fresh
    <3>3. QED
      BY <1>3, <2>1, <3>1, <3>2
  <2>4. QED
    BY <1>5, <2>2, <2>3 DEF ResolveKnownProfile
<1>6. ASSUME NEW w \in Worker, LoadProfile(w) PROVE SafeInv'
  <2> DEFINE t == tx[w]
             loaded == [t EXCEPT !.pc = AfterProfile(t.event), !.profile = profiles[t.customer]]
  <2>1. /\ w \in Busy /\ t.pc = "load" /\ UNCHANGED <<links, profiles, purchases>>
        /\ t \in Transaction
    BY <1>0, <1>6 DEF LoadProfile, At, tables
  <2>2. Step(w, loaded) \/ Step(w, Decided(t, "failed"))
    BY <1>6 DEF LoadProfile
  <2>3. loaded.claimed = t.claimed /\ loaded.writes = t.writes
    BY <2>1 DEF Transaction
  <2> HIDE DEF loaded
  <2>4. QED
    BY <1>3, <2>1, <2>2, <2>3, DecidedFields
<1>7. ASSUME NEW w \in Worker, SelectPurchase(w) PROVE SafeInv'
  <2> DEFINE t == tx[w]
             chosen == [t EXCEPT !.pc = "insert_purchase"]
  <2>1. /\ w \in Busy /\ t.pc = "select_purchase" /\ UNCHANGED <<links, profiles, purchases>>
        /\ t \in Transaction
    BY <1>0, <1>7 DEF SelectPurchase, At, tables
  <2>2. Step(w, chosen) \/ \E s : Step(w, Decided(t, s))
    BY <1>7 DEF SelectPurchase
  <2>3. chosen.claimed = t.claimed /\ chosen.writes = t.writes
    BY <2>1 DEF Transaction
  <2> HIDE DEF chosen
  <2>4. CASE Step(w, chosen)
    BY <1>3, <2>1, <2>3, <2>4
  <2>5. CASE \E s : Step(w, Decided(t, s))
    <3>1. PICK s : Step(w, Decided(t, s))
      BY <2>5
    <3>2. Decided(t, s).claimed = t.claimed /\ Decided(t, s).writes = t.writes
      BY <2>1, DecidedFields
    <3>3. QED
      BY <1>3, <2>1, <3>1, <3>2
  <2>6. QED
    BY <2>2, <2>4, <2>5
<1>8. ASSUME NEW w \in Worker, InsertPurchase(w) PROVE SafeInv'
  <2> DEFINE t == tx[w]
             u == [t EXCEPT !.pc = "evaluate", !.writes = @ \cup {"processed_purchases"}]
  <2>1. /\ w \in Busy /\ UNCHANGED <<links, profiles, purchases>> /\ t \in Transaction
    BY <1>0, <1>8 DEF InsertPurchase, At, tables
  <2>2. Step(w, RolledBack(t)) \/ (Step(w, u) /\ t.customer \in DOMAIN profiles)
    BY <1>8 DEF InsertPurchase
  <2>3. u.claimed = t.claimed /\ u.customer = t.customer /\ u.pc = "evaluate"
    BY <2>1 DEF Transaction
  <2> HIDE DEF u
  <2>4. CASE Step(w, u) /\ t.customer \in DOMAIN profiles
    BY <2>1, <2>3, <2>4, LocalSafe DEF BuyerOK
  <2>5. QED
    BY <1>1, <2>1, <2>2, <2>4
<1>9. ASSUME NEW w \in Worker, EvaluateSegments(w) PROVE SafeInv'
  <2> DEFINE t == tx[w]
             S == EvaluateStaticSegments(UpdateProfileFromEvent(t.profile, t.event), now)
             u == [t EXCEPT !.pc = "save_profile", !.segments = S]
  <2>1. /\ w \in Busy /\ UNCHANGED <<links, profiles, purchases>> /\ t \in Transaction
        /\ Step(w, u)
    BY <1>0, <1>9 DEF EvaluateSegments, At, tables
  <2> HIDE DEF S
  <2>2. /\ u.claimed = t.claimed /\ u.customer = t.customer /\ u.pc = "save_profile"
        /\ u.writes = t.writes
    BY <2>1 DEF Transaction
  <2> HIDE DEF u
  <2>3. QED
    BY <1>0, <2>1, <2>2, LocalSafe DEF BuyerOK
<1>10. ASSUME NEW w \in Worker, SaveProfile(w) PROVE SafeInv'
  <2> DEFINE t == tx[w]
             updated == UpdateProfileFromEvent(t.profile, t.event)
             u == [t EXCEPT !.pc = AfterLink(t.todo), !.profile = updated,
                            !.writes = @ \cup {"customer_profiles"},
                            !.outcome = "processed"]
  <2>1. /\ w \in Busy /\ UNCHANGED <<links, profiles, purchases>> /\ t \in Transaction
        /\ Step(w, u)
    BY <1>0, <1>10 DEF SaveProfile, At, tables
  <2> HIDE DEF updated
  <2>2. /\ u.claimed = t.claimed /\ u.customer = t.customer /\ u.pc = AfterLink(t.todo)
        /\ u.writes = t.writes \cup {"customer_profiles"}
    BY <2>1 DEF Transaction
  <2> HIDE DEF u
  <2>3. QED
    BY <1>0, <2>1, <2>2, LocalSafe DEF BuyerOK, AfterLink
<1>11. ASSUME NEW w \in Worker, SaveLink(w) PROVE SafeInv'
  <2> DEFINE t == tx[w]
             saved(i) == [t EXCEPT !.pc = AfterLink(t.todo \ {i}),
                                   !.todo = @ \ {i},
                                   !.claimed = @ \cup ({i} \ DOMAIN links)]
  <2>1. /\ w \in Busy /\ UNCHANGED <<links, profiles, purchases>> /\ t \in Transaction
        /\ t.pc = "save_link" /\ Executes(w)
    BY <1>0, <1>11 DEF SaveLink, At, tables
  <2>2. PICK i \in t.todo : IsNextLink(t, i) /\ Step(w, saved(i))
    BY <1>11 DEF SaveLink
  <2> DEFINE u == saved(i)
  <2>3. /\ u.claimed = t.claimed \cup ({i} \ DOMAIN links) /\ u.customer = t.customer
        /\ u.pc = AfterLink(t.todo \ {i}) /\ u.writes = t.writes
    BY <2>1 DEF Transaction
  <2>4. \A v \in Busy : v # w => i \notin tx[v].claimed
    BY <2>1, <2>2 DEF Executes, Holders, Blocks
  <2> HIDE DEF u
  <2>5. Busy' = Busy /\ tx'[w] = u /\ \A v \in Busy : v # w => tx'[v] = tx[v]
    BY <2>1, <2>2, SteppedTx DEF u
  <2>6. ClaimInv'
    BY <2>1, <2>3, <2>4, <2>5 DEF SafeInv, ClaimInv
  <2>7. ReferencesHold'
    BY <2>1 DEF SafeInv, ReferencesHold
  <2>8. \A v \in Busy' : BuyerOK(tx[v])'
    BY <1>0, <2>1, <2>3, <2>5 DEF BuyerOK, AfterLink
  <2>9. QED
    BY <2>6, <2>7, <2>8 DEF SafeInv
<1>12. ASSUME NEW w \in Worker, Commit(w) \/ CommitAnswerLost(w) PROVE SafeInv'
  BY <1>0, <1>12, CommitSafe DEF Commit, CommitAnswerLost, At
<1>13. ASSUME NEW w \in Worker, StatementFails(w) \/ StatementRefused(w) \/ DeadlockVictim(w)
       PROVE  SafeInv'
  BY <1>1, <1>13 DEF StatementFails, StatementRefused, DeadlockVictim, tables
<1>14. ASSUME NEW w \in Worker, MarkFailed(w) \/ MarkFailedFails(w) PROVE SafeInv'
  BY <1>1, <1>14 DEF MarkFailed, MarkFailedFails, At, tables
<1>15. ASSUME NEW w \in Worker, Reply(w) \/ Crash(w) \/ RaiseTypeError(w)
       PROVE  SafeInv'
  <2>1. /\ Busy' \subseteq Busy /\ \A v \in Busy' : tx'[v] = tx[v]
        /\ UNCHANGED <<links, profiles, purchases>>
    BY <1>15, DroppedTx DEF Reply, Crash, RaiseTypeError, tables
  <2>2. QED
    BY <2>1 DEF SafeInv, ClaimInv, ReferencesHold, BuyerOK
<1>16. CASE Tick \/ CollectSession \/ UNCHANGED vars
  BY <1>16 DEF Tick, CollectSession, vars, tables, SafeInv, ClaimInv, ReferencesHold, BuyerOK, Busy
<1>17. QED
  BY <1>2, <1>4, <1>5, <1>6, <1>7, <1>8, <1>9, <1>10, <1>11, <1>12, <1>13, <1>14, <1>15,
     <1>16 DEF Next, Progress, Failure, Finished

\* Links and purchases always refer to a committed profile, so load never
\* finds a linked customer without one and no insert of a link is refused.
THEOREM ProfilesExist == Spec => []ReferencesHold
<1>1. Spec => [](TypeOK /\ StageInv)
  BY StageInit, StageNext, PTL DEF Spec
<1>2. Spec => []SafeInv
  BY <1>1, SafeInit, SafeNext, PTL DEF Spec
<1>3. SafeInv => ReferencesHold
  BY DEF SafeInv
<1>4. QED
  BY <1>2, <1>3, PTL

-----------------------------------------------------------------------------
(* What a step never takes back *)

\* Only a commit changes the links; only a commit, and the second transaction
\* of a broken attempt, change the statuses.
LEMMA WhoWrites ==
  ASSUME [Next]_vars
  PROVE  \/ UNCHANGED <<links, rawEvents>>
         \/ \E w \in Busy : ApplyWrites(w)
         \/ \E w \in Busy : MarkFailed(w)
BY DEF Next, Progress, Failure, Finished, vars, tables, Begin, RecordReceived,
   ResolveKnownProfile, LoadProfile, SelectPurchase, InsertPurchase, EvaluateSegments,
   RaiseTypeError, SaveProfile, SaveLink, Commit, CommitAnswerLost, StatementFails,
   StatementRefused, DeadlockVictim, CollectSession, MarkFailed, MarkFailedFails, Reply, Crash, Tick, At

LEMMA StepKeepsLinks ==
  ASSUME StageInv, SafeInv, [Next]_vars, NEW i \in DOMAIN links
  PROVE  i \in DOMAIN links' /\ links'[i] = links[i]
<1>1. CASE UNCHANGED <<links, rawEvents>>
  BY <1>1
<1>2. ASSUME NEW w \in Busy, ApplyWrites(w) PROVE i \in DOMAIN links' /\ links'[i] = links[i]
  <2>1. StageOK(tx[w])
    BY DEF StageInv
  <2>2. QED
    BY <1>2, <2>1, CommittedTables
<1>3. CASE \E w \in Busy : MarkFailed(w)
  BY <1>3 DEF MarkFailed
<1>4. QED
  BY <1>1, <1>2, <1>3, WhoWrites

LEMMA StepKeepsStatus ==
  ASSUME OnceInv, [Next]_vars, NEW e \in DOMAIN rawEvents
  PROVE  e \in DOMAIN rawEvents' /\ rawEvents'[e] \in {rawEvents[e], "failed"}
<1>1. CASE UNCHANGED <<links, rawEvents>>
  BY <1>1
<1>2. ASSUME NEW w \in Busy, ApplyWrites(w)
      PROVE  e \in DOMAIN rawEvents' /\ rawEvents'[e] \in {rawEvents[e], "failed"}
  <2>1. "raw_events" \in tx[w].writes => tx[w].event # e
    BY DEF OnceInv, UniqueRaw
  <2>2. QED
    BY <1>2, <2>1 DEF ApplyWrites, Put
<1>3. CASE \E w \in Busy : MarkFailed(w)
  BY <1>3 DEF MarkFailed
<1>4. QED
  BY <1>1, <1>2, <1>3, WhoWrites

\* Two transactions that both found an identifier free never give it to two
\* customers in turn: the insert waits for, and yields to, the first commit.
THEOREM LinksStay == Spec => LinkNeverMoves
<1>1. Spec => [](TypeOK /\ StageInv)
  BY StageInit, StageNext, PTL DEF Spec
<1>2. Spec => []SafeInv
  BY <1>1, SafeInit, SafeNext, PTL DEF Spec
<1>3. StageInv /\ SafeInv /\ [Next]_vars =>
        [\A i \in DOMAIN links : i \in DOMAIN links' /\ links'[i] = links[i]]_vars
  BY StepKeepsLinks
<1>4. QED
  BY <1>1, <1>2, <1>3, PTL DEF Spec, LinkNeverMoves

\* No commit overwrites the status another one stored; a late second
\* transaction can, with failed.
THEOREM StatusStays == Spec => StatusIsFinal
<1>1. Spec => [](TypeOK /\ StageInv)
  BY StageInit, StageNext, PTL DEF Spec
<1>2. Spec => []OnceInv
  BY <1>1, OnceInit, OnceNext, PTL DEF Spec
<1>3. OnceInv /\ [Next]_vars =>
        [\A e \in DOMAIN rawEvents :
           e \in DOMAIN rawEvents' /\ rawEvents'[e] \in {rawEvents[e], "failed"}]_vars
  BY StepKeepsStatus
<1>4. QED
  BY <1>1, <1>2, <1>3, PTL DEF Spec, StatusIsFinal
=============================================================================
