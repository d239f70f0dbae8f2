------------------------- MODULE SingleWorkerProofs -------------------------
(***************************************************************************)
(* What SingleWorker promises when one worker runs, for every number of    *)
(* customers, events, deliveries and failures: what is reported processed  *)
(* is in a profile, its identifiers lead there, the profile is the summary *)
(* of its events, and its revenue is the sum of its purchases.             *)
(***************************************************************************)
EXTENDS SingleWorker, ProfileProofs, FiniteSetTheorems,
        WellFoundedInduction

\* docker-compose.yml runs one worker.
OneWorker == \A v, w \in Worker : v = w

-----------------------------------------------------------------------------
(* The profile a transaction starts from and what it makes of it *)

\* The stored profile of the transaction's customer, or the one of a new customer.
Base(t) ==
  IF t.customer \in DOMAIN profiles THEN profiles[t.customer] ELSE NewProfile(t.event)

Loaded == {"select_purchase", "insert_purchase", "evaluate", "save_profile"}

\* Nobody changes the stored profile between the load and the save.
MemoryIsStored(t) ==
  /\ t.pc \in {"record", "resolve", "load"} => t.profile = NewProfile(t.event)
  /\ t.pc \in Loaded => t.profile = Base(t)
  /\ Saves(t) => t.profile = UpdateProfileFromEvent(Base(t), t.event)

\* The event is one that rules.py counts, and orders belong to purchases.
Countable(t) ==
  /\ t.pc \in Recorded \/ Saves(t) =>
       TypeOf[t.event] # "unsupported" /\ KnownIdentifiers(t.event) # {}
  /\ t.pc \in {"select_purchase", "insert_purchase"} => TypeOf[t.event] = "purchase"

\* The identifiers of the event that are linked are linked to its customer.
OwnLinks(t) ==
  t.pc \in Resolved \/ Saves(t) => \A i \in Linked(t) : links[i] = t.customer

\* What is answered processed without a profile is an order that was bought.
DuplicateOrder(t) ==
  "raw_events" \in t.writes /\ t.pc = "commit" /\ t.outcome = "processed" /\ ~Saves(t) =>
    TypeOf[t.event] = "purchase" /\ OrderOf(t.event) \in DOMAIN purchases

\* The segments are what the rules said of the updated profile at some time.
RatedAt(t, p) == \E s \in 1 .. now : t.segments = EvaluateStaticSegments(p, s)
Rated(t) ==
  /\ t.pc = "save_profile" => RatedAt(t, UpdateProfileFromEvent(t.profile, t.event))
  /\ Saves(t) => RatedAt(t, t.profile)

SoloTx(t) ==
  MemoryIsStored(t) /\ Countable(t) /\ OwnLinks(t) /\ DuplicateOrder(t) /\ Rated(t)

-----------------------------------------------------------------------------
(* A profile as the summary of the events in it *)

Seen(p) == {e \in Event : p.recent[e] > 0}
SeenType(p, type) == {e \in Seen(p) : TypeOf[e] = type}

First(m, S) == m \in S /\ \A n \in S : m <= n
Last(m, S) == m \in S /\ \A n \in S : n <= m

\* The counters of p are the numbers of its events.
Counted(p) ==
  /\ IsFiniteSet(Seen(p))
  /\ p.events = Cardinality(Seen(p))
  /\ p.pageViews = Cardinality(SeenType(p, "page_view"))
  /\ p.cartAdds = Cardinality(SeenType(p, "add_to_cart"))
  /\ p.orders = Cardinality(SeenType(p, "purchase"))

Summary(p) ==
  /\ Counted(p)
  /\ First(p.firstSeen, Times(Seen(p)))
  /\ Last(p.lastSeen, Times(Seen(p)))
  /\ Last(p.lastPurchase, {Never} \cup Times(SeenType(p, "purchase")))

\* The event of a purchase row is recorded.
BoughtRecorded == \A o \in DOMAIN purchases : purchases[o].event \in DOMAIN rawEvents

SoloInv ==
  /\ \A w \in Busy : SoloTx(tx[w])
  /\ \A c \in DOMAIN profiles : Summary(profiles[c])
  /\ BoughtRecorded
  /\ ProcessedIsApplied /\ IdentifiersUnified /\ MembershipsFitProfile

-----------------------------------------------------------------------------
(* The rules *)

LEMMA MinIsFirst == ASSUME NEW S \in SUBSET Nat, NEW m, First(m, S) PROVE Min(S) = m
<1>1. \E x \in S : \A y \in S : x <= y
  BY DEF First
<1>2. Min(S) \in S /\ \A y \in S : Min(S) <= y
  BY <1>1 DEF Min
<1>3. m \in S /\ m <= Min(S) /\ Min(S) <= m
  BY <1>2 DEF First
<1>4. m \in Nat /\ Min(S) \in Nat
  BY <1>2, <1>3
<1>5. QED
  BY <1>3, <1>4

LEMMA MaxIsLast == ASSUME NEW S \in SUBSET Nat, NEW m, Last(m, S) PROVE Max(S) = m
<1>1. \E x \in S : \A y \in S : x >= y
  BY DEF Last
<1>2. Max(S) \in S /\ \A y \in S : Max(S) >= y
  BY <1>1 DEF Max
<1>3. m \in S /\ m <= Max(S) /\ Max(S) <= m
  BY <1>2 DEF Last
<1>4. m \in Nat /\ Max(S) \in Nat
  BY <1>2, <1>3
<1>5. QED
  BY <1>3, <1>4

\* Rounding takes away less than a hundredth.
LEMMA MoneyNear == ASSUME NEW a \in Nat PROVE a <= Money(a) + Cent
<1>1. Cent \in Nat /\ Cent > 0
  BY Thresholds
<1> DEFINE q == (2 * a + Cent) \div (2 * Cent)
<1>2. q \in Nat /\ 2 * a + Cent < (q + 1) * (2 * Cent)
  BY <1>1
<1> HIDE DEF q
<1>3. (q + 1) * (2 * Cent) = 2 * (Cent * q) + 2 * Cent /\ Cent * q \in Nat
  BY <1>1, <1>2
<1>4. a <= Cent * q + Cent
  BY <1>1, <1>2, <1>3
<1>5. QED
  BY <1>4 DEF q, Money

LEMMA EventFacts ==
  ASSUME NEW e \in Event
  PROVE  OccurredAt[e] \in Nat \ {0} /\ PurchaseOf[e].amount \in Nat
BY EventAttributes DEF Payload

LEMMA TimesType == \A S \in SUBSET Event : Times(S) \in SUBSET Nat
BY EventFacts DEF Times

\* The columns of a saved row.
LEMMA RowFields ==
  ASSUME NEW p \in Profile
  PROVE  /\ Row(p).firstSeen = p.firstSeen /\ Row(p).lastSeen = p.lastSeen
         /\ Row(p).lastPurchase = p.lastPurchase /\ Row(p).recent = p.recent
         /\ Row(p).events = p.events /\ Row(p).pageViews = p.pageViews
         /\ Row(p).cartAdds = p.cartAdds /\ Row(p).orders = p.orders
         /\ Row(p).revenue = Money(p.revenue)
BY DEF Row, Profile

\* A row merged with one whose times it covers is the row itself.
LEMMA MergedFields ==
  ASSUME NEW p \in Profile, NEW q \in Profile, q.firstSeen <= p.firstSeen,
         p.lastSeen <= q.lastSeen, p.lastPurchase <= q.lastPurchase
  PROVE  MergedRow(p, q) = Row(q)
<1>1. Row(q) \in Profile
  BY RowType
<1> DEFINE r == Row(q)
<1>2. /\ r.firstSeen = q.firstSeen /\ r.lastSeen = q.lastSeen
      /\ r.lastPurchase = q.lastPurchase
  BY RowFields
<1> HIDE DEF r
<1>3. /\ Earlier(p.firstSeen, r.firstSeen) = r.firstSeen
      /\ Later(p.lastSeen, r.lastSeen) = r.lastSeen
      /\ (IF r.lastPurchase = Never THEN p.lastPurchase
          ELSE Later(p.lastPurchase, r.lastPurchase)) = r.lastPurchase
  BY <1>2 DEF Profile, Earlier, Later, Never
<1>4. MergedRow(p, q) =
        [r EXCEPT !.firstSeen = Earlier(p.firstSeen, r.firstSeen),
                  !.lastSeen = Later(p.lastSeen, r.lastSeen),
                  !.lastPurchase = IF r.lastPurchase = Never THEN p.lastPurchase
                                   ELSE Later(p.lastPurchase, r.lastPurchase)]
  BY DEF MergedRow, r
<1>5. r \in Profile
  BY <1>1 DEF r
<1>6. MergedRow(p, q) =
        [r EXCEPT !.firstSeen = r.firstSeen, !.lastSeen = r.lastSeen,
                  !.lastPurchase = r.lastPurchase]
  BY <1>3, <1>4
<1>7. MergedRow(p, q) = r
  BY <1>5, <1>6 DEF Profile
<1>8. QED
  BY <1>7 DEF r

Supported(e) == TypeOf[e] # "unsupported" /\ KnownIdentifiers(e) # {}

LEMMA UpdateFields ==
  ASSUME NEW p \in Profile, NEW e \in Event, Supported(e)
  PROVE  LET q == UpdateProfileFromEvent(p, e)
             bought == TypeOf[e] = "purchase"
         IN /\ q.firstSeen = Earlier(p.firstSeen, OccurredAt[e])
            /\ q.lastSeen = Later(p.lastSeen, OccurredAt[e])
            /\ q.lastPurchase = IF bought THEN Later(p.lastPurchase, OccurredAt[e])
                                ELSE p.lastPurchase
            /\ q.events = p.events + 1
            /\ q.pageViews = p.pageViews + OneIf(TypeOf[e] = "page_view")
            /\ q.cartAdds = p.cartAdds + OneIf(TypeOf[e] = "add_to_cart")
            /\ q.orders = p.orders + OneIf(bought)
            /\ q.recent = [p.recent EXCEPT ![e] = @ + 1]
BY DEF UpdateProfileFromEvent, Supported

\* The updated profile covers the times of the one it was made from.
LEMMA UpdateCovers ==
  ASSUME NEW p \in Profile, NEW e \in Event, Supported(e)
  PROVE  LET q == UpdateProfileFromEvent(p, e)
         IN /\ q.firstSeen <= p.firstSeen /\ p.lastSeen <= q.lastSeen
            /\ p.lastPurchase <= q.lastPurchase
<1> DEFINE q == UpdateProfileFromEvent(p, e)
<1>1. /\ q.firstSeen = Earlier(p.firstSeen, OccurredAt[e])
      /\ q.lastSeen = Later(p.lastSeen, OccurredAt[e])
      /\ q.lastPurchase \in {Later(p.lastPurchase, OccurredAt[e]), p.lastPurchase}
  BY UpdateFields
<1>2. /\ OccurredAt[e] \in Nat /\ p.firstSeen \in Nat /\ p.lastSeen \in Nat
      /\ p.lastPurchase \in Nat
  BY EventFacts DEF Profile
<1> HIDE DEF q
<1>3. /\ q.firstSeen <= p.firstSeen /\ p.lastSeen <= q.lastSeen
      /\ p.lastPurchase <= q.lastPurchase
  BY <1>1, <1>2 DEF Earlier, Later
<1>4. QED
  BY <1>3 DEF q

-----------------------------------------------------------------------------
(* Summaries *)

LEMMA SeenUpdated ==
  ASSUME NEW p \in Profile, NEW e \in Event, Supported(e), e \notin Seen(p)
  PROVE  LET q == UpdateProfileFromEvent(p, e)
         IN /\ q \in Profile /\ e \in Seen(q)
            /\ Seen(q) = Seen(p) \cup {e}
            /\ SeenType(q, TypeOf[e]) = SeenType(p, TypeOf[e]) \cup {e}
            /\ \A type : type # TypeOf[e] => SeenType(q, type) = SeenType(p, type)
<1> DEFINE q == UpdateProfileFromEvent(p, e)
<1>1. q \in Profile
  BY UpdateType
<1>2. p.recent \in [Event -> Nat] /\ q.recent = [p.recent EXCEPT ![e] = @ + 1]
  BY UpdateFields DEF Profile
<1> HIDE DEF q
<1>3. \A f \in Event : q.recent[f] = IF f = e THEN p.recent[e] + 1 ELSE p.recent[f]
  BY <1>2
<1>4. \A f \in Event : p.recent[f] \in Nat
  BY <1>2
<1>5. Seen(q) = Seen(p) \cup {e}
  BY <1>3, <1>4 DEF Seen
<1>6. QED
  BY <1>1, <1>5 DEF SeenType, q

\* A profile nobody has been counted in yet.
Empty(p) ==
  /\ Seen(p) = {}
  /\ p.events = 0 /\ p.pageViews = 0 /\ p.cartAdds = 0 /\ p.orders = 0
  /\ p.lastPurchase = Never

LEMMA EmptyCounted == ASSUME NEW p, Empty(p) PROVE Counted(p)
<1>1. \A type : SeenType(p, type) = {}
  BY DEF Empty, SeenType
<1>2. QED
  BY <1>1, FS_EmptySet DEF Empty, Counted

LEMMA CountOne ==
  ASSUME NEW S, NEW T, IsFiniteSet(S), NEW x, x \notin S, NEW b \in BOOLEAN,
         T = IF b THEN S \cup {x} ELSE S
  PROVE  Cardinality(T) = Cardinality(S) + OneIf(b)
<1>1. Cardinality(S) \in Nat
  BY FS_CardinalityType
<1>2. Cardinality(S \cup {x}) = Cardinality(S) + 1
  BY FS_AddElement
<1>3. QED
  BY <1>1, <1>2 DEF OneIf

LEMMA CountedUpdate ==
  ASSUME NEW p \in Profile, NEW e \in Event, Supported(e), e \notin Seen(p), Counted(p)
  PROVE  Counted(UpdateProfileFromEvent(p, e))
<1> DEFINE q == UpdateProfileFromEvent(p, e)
<1>1. /\ q.events = p.events + 1
      /\ q.pageViews = p.pageViews + OneIf(TypeOf[e] = "page_view")
      /\ q.cartAdds = p.cartAdds + OneIf(TypeOf[e] = "add_to_cart")
      /\ q.orders = p.orders + OneIf(TypeOf[e] = "purchase")
  BY UpdateFields
<1>2. /\ Seen(q) = Seen(p) \cup {e}
      /\ SeenType(q, TypeOf[e]) = SeenType(p, TypeOf[e]) \cup {e}
      /\ \A type : type # TypeOf[e] => SeenType(q, type) = SeenType(p, type)
  BY SeenUpdated
<1> HIDE DEF q
<1>3. IsFiniteSet(Seen(p)) /\ \A type : IsFiniteSet(SeenType(p, type)) /\ e \notin SeenType(p, type)
  <2>1. IsFiniteSet(Seen(p))
    BY DEF Counted
  <2>2. \A type : SeenType(p, type) \subseteq Seen(p)
    BY DEF SeenType
  <2>3. QED
    BY <2>1, <2>2, FS_Subset
<1>4. IsFiniteSet(Seen(q)) /\ Cardinality(Seen(q)) = Cardinality(Seen(p)) + 1
  BY <1>2, <1>3, FS_AddElement
<1>5. ASSUME NEW type
      PROVE  Cardinality(SeenType(q, type)) =
               Cardinality(SeenType(p, type)) + OneIf(TypeOf[e] = type)
  <2>1. SeenType(q, type) =
          IF TypeOf[e] = type THEN SeenType(p, type) \cup {e} ELSE SeenType(p, type)
    BY <1>2
  <2>2. QED
    BY <1>3, <2>1, CountOne
<1>6. Counted(q)
  BY <1>1, <1>4, <1>5 DEF Counted
<1>7. QED
  BY <1>6 DEF q

\* One more time, and the extremes move to it if it is beyond them.
LEMMA FirstOfMore ==
  ASSUME NEW S \in SUBSET Nat, NEW m \in Nat, First(m, S), NEW n \in Nat
  PROVE  First(Earlier(m, n), S \cup {n})
BY DEF First, Earlier

LEMMA LastOfMore ==
  ASSUME NEW S \in SUBSET Nat, NEW m \in Nat, Last(m, S), NEW n \in Nat
  PROVE  Last(Later(m, n), S \cup {n})
BY DEF Last, Later

\* The summary of the events of p, or no events and the times of e.
Ready(p, e) ==
  \/ Summary(p)
  \/ Empty(p) /\ p.firstSeen = OccurredAt[e] /\ p.lastSeen = OccurredAt[e]

LEMMA SummaryUpdate ==
  ASSUME NEW p \in Profile, NEW e \in Event, Supported(e), e \notin Seen(p), Ready(p, e)
  PROVE  Summary(UpdateProfileFromEvent(p, e))
<1> DEFINE q == UpdateProfileFromEvent(p, e)
           at == OccurredAt[e]
           bought == TypeOf[e] = "purchase"
<1>1. /\ q.firstSeen = Earlier(p.firstSeen, at) /\ q.lastSeen = Later(p.lastSeen, at)
      /\ q.lastPurchase = IF bought THEN Later(p.lastPurchase, at) ELSE p.lastPurchase
  BY UpdateFields
<1>2. /\ Seen(q) = Seen(p) \cup {e}
      /\ bought => SeenType(q, "purchase") = SeenType(p, "purchase") \cup {e}
      /\ ~bought => SeenType(q, "purchase") = SeenType(p, "purchase")
  BY SeenUpdated
<1>3. Counted(q)
  BY EmptyCounted, CountedUpdate DEF Ready, Summary
<1> HIDE DEF q
<1>4. /\ at \in Nat /\ p.firstSeen \in Nat /\ p.lastSeen \in Nat /\ p.lastPurchase \in Nat
      /\ Never \in Nat /\ Times(Seen(p)) \in SUBSET Nat
      /\ {Never} \cup Times(SeenType(p, "purchase")) \in SUBSET Nat
  BY EventFacts, TimesType DEF Profile, Seen, SeenType, Never
<1>5. /\ Times(Seen(q)) = Times(Seen(p)) \cup {at}
      /\ bought => {Never} \cup Times(SeenType(q, "purchase")) =
                     ({Never} \cup Times(SeenType(p, "purchase"))) \cup {at}
      /\ ~bought => Times(SeenType(q, "purchase")) = Times(SeenType(p, "purchase"))
  BY <1>2 DEF Times
<1>6. CASE Summary(p)
  <2>1. First(q.firstSeen, Times(Seen(q))) /\ Last(q.lastSeen, Times(Seen(q)))
    BY <1>1, <1>4, <1>5, <1>6, FirstOfMore, LastOfMore DEF Summary
  <2>2. Last(q.lastPurchase, {Never} \cup Times(SeenType(q, "purchase")))
    BY <1>1, <1>4, <1>5, <1>6, LastOfMore DEF Summary
  <2>3. QED
    BY <1>3, <2>1, <2>2 DEF Summary, q
<1>7. CASE Empty(p) /\ p.firstSeen = at /\ p.lastSeen = at
  <2>1. Times(Seen(p)) = {} /\ Times(SeenType(p, "purchase")) = {}
    BY <1>7 DEF Empty, Times, SeenType
  <2>2. q.firstSeen = at /\ q.lastSeen = at
    BY <1>1, <1>4, <1>7 DEF Earlier, Later
  <2>3. First(q.firstSeen, Times(Seen(q))) /\ Last(q.lastSeen, Times(Seen(q)))
    BY <1>4, <1>5, <2>1, <2>2 DEF First, Last
  <2>4. Last(Never, {Never} \cup Times(SeenType(p, "purchase")))
    BY <2>1 DEF Last, Never
  <2>5. Last(q.lastPurchase, {Never} \cup Times(SeenType(q, "purchase")))
    BY <1>1, <1>4, <1>5, <1>7, <2>4, LastOfMore DEF Empty
  <2>6. QED
    BY <1>3, <2>3, <2>5 DEF Summary, q
<1>8. QED
  BY <1>6, <1>7 DEF Ready

LEMMA SummarySaved == ASSUME NEW p \in Profile, Summary(p) PROVE Summary(Row(p))
BY RowFields DEF Summary, Counted, Seen, SeenType

LEMMA NewProfileEmpty ==
  ASSUME NEW e \in Event PROVE Ready(NewProfile(e), e) /\ Seen(NewProfile(e)) = {}
BY DEF Ready, Empty, NewProfile, Seen, Never

\* The rules read the counters, the times and the revenue.
LEMMA SegmentsDepend ==
  ASSUME NEW p, NEW q, NEW s,
         p.orders = q.orders, p.firstSeen = q.firstSeen, p.events = q.events,
         p.lastSeen = q.lastSeen, p.revenue = q.revenue
  PROVE  EvaluateStaticSegments(p, s) = EvaluateStaticSegments(q, s)
BY DEF EvaluateStaticSegments

\* The rules say the same of a saved row that has its revenue back.
LEMMA SegmentsOfRow ==
  ASSUME NEW p \in Profile, NEW s
  PROVE  EvaluateStaticSegments([Row(p) EXCEPT !.revenue = p.revenue], s) =
           EvaluateStaticSegments(p, s)
<1> DEFINE r == [Row(p) EXCEPT !.revenue = p.revenue]
<1>1. Row(p) \in Profile
  BY RowType
<1>2. /\ r.orders = Row(p).orders /\ r.firstSeen = Row(p).firstSeen
      /\ r.events = Row(p).events /\ r.lastSeen = Row(p).lastSeen
      /\ r.revenue = p.revenue
  BY <1>1 DEF Profile
<1> HIDE DEF r
<1>3. EvaluateStaticSegments(r, s) = EvaluateStaticSegments(p, s)
  BY <1>2, RowFields, SegmentsDepend
<1>4. QED
  BY <1>3 DEF r

\* History and summary are the same events.
LEMMA SummaryIsHistory ==
  ASSUME TypeOK, \A c \in DOMAIN profiles : Summary(profiles[c])
  PROVE  ProfileIsItsHistory
<1> SUFFICES ASSUME NEW c \in DOMAIN profiles
             PROVE  LET p == profiles[c]
                    IN /\ p.firstSeen = Min(Times(History(c)))
                       /\ p.lastSeen = Max(Times(History(c)))
                       /\ p.lastPurchase = Max({Never} \cup Times(OfType(c, "purchase")))
                       /\ p.events = Cardinality(History(c))
                       /\ p.pageViews = Cardinality(OfType(c, "page_view"))
                       /\ p.cartAdds = Cardinality(OfType(c, "add_to_cart"))
                       /\ p.orders = Cardinality(OfType(c, "purchase"))
  BY DEF ProfileIsItsHistory
<1>1. History(c) = Seen(profiles[c]) /\ \A type : OfType(c, type) = SeenType(profiles[c], type)
  BY DEF History, OfType, Seen, SeenType, Applied
<1>2. /\ Times(Seen(profiles[c])) \in SUBSET Nat
      /\ {Never} \cup Times(SeenType(profiles[c], "purchase")) \in SUBSET Nat
  BY TimesType DEF Seen, SeenType, Never
<1>3. Summary(profiles[c])
  OBVIOUS
<1>4. QED
  BY <1>1, <1>2, <1>3, MinIsFirst, MaxIsLast DEF Summary, Counted

-----------------------------------------------------------------------------
(* Steps that commit nothing *)

Solo == OneWorker /\ TypeOK /\ StageInv /\ SafeInv /\ OnceInv /\ BackInv /\ SoloInv

\* What holds of a transaction holds while the tables stay and the clock runs.
LEMMA SoloTxStays ==
  ASSUME UNCHANGED <<links, profiles, purchases>>, now \in Nat, now' \in Nat, now <= now',
         NEW w \in Busy', SoloTx(tx'[w])
  PROVE  SoloTx(tx[w])'
<1>1. MemoryIsStored(tx[w])' /\ Countable(tx[w])'
  BY DEF SoloTx, MemoryIsStored, Countable, Base, Saves, Recorded
<1>2. OwnLinks(tx[w])' /\ DuplicateOrder(tx[w])'
  BY DEF SoloTx, OwnLinks, DuplicateOrder, Saves, Linked, Resolved, OrderOf
<1>3. \A s \in 1 .. now : s \in 1 .. now'
  OBVIOUS
<1>4. Rated(tx[w])'
  BY <1>3 DEF SoloTx, Rated, RatedAt, Saves
<1>5. QED
  BY <1>1, <1>2, <1>4 DEF SoloTx

\* A step that keeps the tables has only to care for the one transaction.
LEMMA LocalSolo ==
  ASSUME Solo, TypeOK', UNCHANGED <<links, profiles, purchases, memberships>>,
         UNCHANGED rawEvents, now <= now',
         \A w \in Busy' : SoloTx(tx'[w])
  PROVE  SoloInv'
<1>0. now \in Nat /\ now' \in Nat
  BY DEF Solo, TypeOK
<1>1. \A w \in Busy' : SoloTx(tx[w])'
  BY <1>0, SoloTxStays
<1>2. \A c \in DOMAIN profiles' : Summary(profiles[c])'
  BY DEF Solo, SoloInv, Summary, Counted, Seen, SeenType
<1>3. BoughtRecorded' /\ IdentifiersUnified' /\ ProcessedIsApplied'
  BY DEF Solo, SoloInv, BoughtRecorded, IdentifiersUnified, ProcessedIsApplied, Applied
<1>4. \A s \in 1 .. now : s \in 1 .. now'
  BY <1>0
<1>5. MembershipsFitProfile'
  BY <1>4 DEF Solo, SoloInv, MembershipsFitProfile
<1>6. QED
  BY <1>1, <1>2, <1>3, <1>5 DEF SoloInv

\* A transaction that ended promises nothing.
LEMMA EndedSolo ==
  ASSUME NEW t, NEW u, Ended(t, u), u.pc \in {"mark_failed", "reply"}
  PROVE  SoloTx(u)
BY DEF Ended, SoloTx, MemoryIsStored, Countable, OwnLinks, DuplicateOrder, Rated, Saves,
       Recorded, Resolved, Loaded

\* What is decided without a profile.
LEMMA DecidedSolo ==
  ASSUME NEW t, NEW u, SoloTx(t), ~Saves(u), u.pc = "commit", u.outcome # "processed"
  PROVE  SoloTx(u)
BY DEF SoloTx, MemoryIsStored, Countable, OwnLinks, DuplicateOrder, Rated, Recorded, Resolved, Loaded

\* The statements of a unit of work.
LEMMA StatementsSolo ==
  ASSUME Solo, TypeOK', NEW w \in Worker,
         \/ RecordReceived(w) \/ ResolveKnownProfile(w) \/ LoadProfile(w) \/ SelectPurchase(w)
         \/ InsertPurchase(w) \/ EvaluateSegments(w) \/ SaveProfile(w) \/ SaveLink(w)
  PROVE  SoloInv'
<1> DEFINE t == tx[w]
           u == tx'[w]
<1>0. UNCHANGED tables /\ now' = now /\ now \in Nat \ {0}
  BY DEF RecordReceived, ResolveKnownProfile, LoadProfile, SelectPurchase, InsertPurchase,
         EvaluateSegments, SaveProfile, SaveLink, env, Solo, TypeOK
<1>a. ASSUME w \in Busy, Others(w), SoloTx(u) PROVE SoloInv'
  <2>1. \A v \in Busy' : v = w
    BY DEF Solo, OneWorker, TypeOK, Busy
  <2>2. \A v \in Busy' : SoloTx(tx'[v])
    BY <1>a, <2>1
  <2>3. now <= now'
    BY <1>0
  <2>4. QED
    BY <1>0, <2>2, <2>3, LocalSolo DEF tables
<1>b. ASSUME w \in Busy
      PROVE  /\ SoloTx(t) /\ StageOK(t) /\ BuyerOK(t)
             /\ t.event \in Event
  BY <1>b, TransactionFields DEF Solo, SoloInv, StageInv, SafeInv, TypeOK, Busy
<1>1. CASE RecordReceived(w)
  <2>1. /\ w \in Busy /\ t.pc = "record" /\ Others(w) /\ SameWork(t, u)
    BY <1>1, RecordFacts DEF Solo
  <2>2. t.writes = {} /\ t.profile = NewProfile(t.event)
    BY <1>b, <2>1 DEF StageOK, SoloTx, MemoryIsStored
  <2>3. \/ u.pc = "commit" /\ (u.writes = {} \/ (u.writes = {"raw_events"} /\ u.outcome # "processed"))
        \/ /\ u.pc = "resolve" /\ u.writes = {"raw_events"}
           /\ TypeOf[t.event] # "unsupported" /\ KnownIdentifiers(t.event) # {}
    BY <1>1, <2>2, RecordFacts DEF Solo, DecidesTo
  <2>4. SoloTx(u)
    BY <2>1, <2>2, <2>3 DEF SameWork, SoloTx, MemoryIsStored, Countable, OwnLinks,
       DuplicateOrder, Rated, Saves, Recorded, Resolved, Loaded
  <2>5. QED
    BY <1>a, <2>1, <2>4
<1>2. CASE ResolveKnownProfile(w)
  <2>1. w \in Busy /\ t.pc = "resolve" /\ Others(w)
    BY <1>2, ResolveFacts DEF Solo
  <2>2. SoloTx(t) /\ ~Saves(t) /\ t.profile = NewProfile(t.event) /\ Supported(t.event)
    BY <1>b, <2>1 DEF StageOK, Saves, SoloTx, MemoryIsStored, Countable, Recorded, Supported
  <2>3. CASE DecidesTo(t, u, "sent_to_dlq")
    <3>1. SoloTx(u)
      BY <2>2, <2>3, DecidedSolo DEF DecidesTo, SameWork, Saves
    <3>2. QED
      BY <1>a, <2>1, <3>1
  <2>4. CASE /\ u.event = t.event /\ u.profile = t.profile /\ u.writes = t.writes
             /\ Linked(t) = {} /\ Fresh(u.customer)
             /\ u.pc = AfterProfile(t.event)
    <3>1. u.pc \in {"select_purchase", "evaluate"}
          /\ (u.pc = "select_purchase" => TypeOf[t.event] = "purchase")
      BY <2>4 DEF AfterProfile
    <3>2. Base(u) = NewProfile(t.event) /\ Linked(u) = {} /\ ~Saves(u)
      BY <2>2, <2>4 DEF Base, Fresh, Linked, Saves
    <3>3. SoloTx(u)
      BY <2>2, <2>4, <3>1, <3>2 DEF SoloTx, MemoryIsStored, Countable, OwnLinks,
         DuplicateOrder, Rated, Supported
    <3>4. QED
      BY <1>a, <2>1, <3>3
  <2>5. CASE /\ u.event = t.event /\ u.profile = t.profile /\ u.writes = t.writes
             /\ {links[i] : i \in Linked(t)} = {u.customer} /\ u.pc = "load"
    <3>1. Linked(u) = Linked(t) /\ ~Saves(u)
      BY <2>2, <2>5 DEF Linked, Saves
    <3>2. \A i \in Linked(t) : links[i] = u.customer
      BY <2>5
    <3>3. SoloTx(u)
      BY <2>2, <2>5, <3>1, <3>2 DEF SoloTx, MemoryIsStored, Countable, OwnLinks,
         DuplicateOrder, Rated, Supported, Loaded
    <3>4. QED
      BY <1>a, <2>1, <3>3
  <2>6. QED
    BY <1>2, <2>3, <2>4, <2>5, ResolveFacts DEF Solo
<1>3. CASE LoadProfile(w)
  <2>1. w \in Busy /\ t.pc = "load" /\ Others(w)
    BY <1>3, LoadFacts DEF Solo
  <2>2. SoloTx(t) /\ ~Saves(t) /\ Supported(t.event) /\ OwnLinks(t)
    BY <1>b, <2>1 DEF StageOK, Saves, SoloTx, Countable, Recorded, Supported
  <2>3. CASE DecidesTo(t, u, "failed")
    <3>1. SoloTx(u)
      BY <2>2, <2>3, DecidedSolo DEF DecidesTo, SameWork, Saves
    <3>2. QED
      BY <1>a, <2>1, <3>1
  <2>4. CASE /\ t.customer \in DOMAIN profiles
             /\ u.pc = AfterProfile(t.event) /\ u.profile = profiles[t.customer]
             /\ u.event = t.event /\ u.customer = t.customer /\ u.writes = t.writes
    <3>1. u.pc \in {"select_purchase", "evaluate"}
          /\ (u.pc = "select_purchase" => TypeOf[t.event] = "purchase")
      BY <2>4 DEF AfterProfile
    <3>2. u.profile = Base(u) /\ Linked(u) = Linked(t) /\ ~Saves(u)
      BY <2>2, <2>4 DEF Base, Linked, Saves
    <3>3. \A i \in Linked(u) : links[i] = u.customer
      BY <2>1, <2>2, <2>4, <3>2 DEF OwnLinks, Resolved, Recorded
    <3>4. SoloTx(u)
      BY <2>2, <2>4, <3>1, <3>2, <3>3 DEF SoloTx, MemoryIsStored, Countable, OwnLinks,
         DuplicateOrder, Rated, Supported
    <3>5. QED
      BY <1>a, <2>1, <3>4
  <2>5. QED
    BY <1>3, <2>3, <2>4, LoadFacts DEF Solo
<1>4. CASE SelectPurchase(w)
  <2>1. /\ w \in Busy /\ t.pc = "select_purchase" /\ Others(w)
        /\ SameWork(t, u) /\ u.writes = t.writes
        /\ \/ u.pc = "insert_purchase"
           \/ u.pc = "commit" /\ u.outcome = "sent_to_dlq"
           \/ u.pc = "commit" /\ OrderOf(t.event) \in DOMAIN purchases
    BY <1>4, SelectFacts DEF Solo, DecidesTo, OrderOf
  <2>2. /\ SoloTx(t) /\ ~Saves(t) /\ ~Saves(u) /\ TypeOf[t.event] = "purchase"
        /\ t.profile = Base(t) /\ Supported(t.event) /\ OwnLinks(t)
    BY <1>b, <2>1 DEF StageOK, Saves, SoloTx, MemoryIsStored, Countable, Recorded, Supported, Loaded
  <2>3. Base(u) = Base(t) /\ Linked(u) = Linked(t)
    BY <2>1 DEF SameWork, Base, Linked
  <2>4. SoloTx(u)
    BY <2>1, <2>2, <2>3 DEF SameWork, SoloTx, MemoryIsStored, Countable, OwnLinks,
       DuplicateOrder, Rated, Supported, Recorded, Resolved, Loaded
  <2>5. QED
    BY <1>a, <2>1, <2>4
<1>5. CASE InsertPurchase(w)
  <2>1. w \in Busy /\ t.pc = "insert_purchase" /\ Others(w)
    BY <1>5, InsertFacts DEF Solo
  <2>2. CASE Ended(t, u) /\ u.pc = "mark_failed"
    BY <1>a, <2>1, <2>2, EndedSolo
  <2>3. CASE /\ SameWork(t, u) /\ u.pc = "evaluate"
             /\ u.writes = t.writes \cup {"processed_purchases"}
    <3>1. /\ SoloTx(t) /\ ~Saves(t) /\ ~Saves(u)
          /\ t.profile = Base(t) /\ Supported(t.event) /\ OwnLinks(t)
      BY <1>b, <2>1, <2>3 DEF StageOK, Saves, SoloTx, MemoryIsStored, Countable, Recorded,
         Supported, Loaded
    <3>2. Base(u) = Base(t) /\ Linked(u) = Linked(t)
      BY <2>3 DEF SameWork, Base, Linked
    <3>3. SoloTx(u)
      BY <2>1, <2>3, <3>1, <3>2 DEF SameWork, SoloTx, MemoryIsStored, Countable, OwnLinks,
         DuplicateOrder, Rated, Supported, Recorded, Resolved, Loaded
    <3>4. QED
      BY <1>a, <2>1, <3>3
  <2>4. QED
    BY <1>5, <2>2, <2>3, InsertFacts DEF Solo
<1>6. CASE EvaluateSegments(w)
  <2>1. /\ w \in Busy /\ t.pc = "evaluate" /\ Others(w)
        /\ u.event = t.event /\ u.customer = t.customer /\ u.profile = t.profile
        /\ u.writes = t.writes /\ u.pc = "save_profile"
        /\ u.segments = EvaluateStaticSegments(UpdateProfileFromEvent(t.profile, t.event), now)
    BY <1>6, EvaluateFacts DEF Solo
  <2>2. /\ SoloTx(t) /\ ~Saves(t) /\ ~Saves(u)
        /\ t.profile = Base(t) /\ Supported(t.event) /\ OwnLinks(t)
    BY <1>b, <2>1 DEF StageOK, Saves, SoloTx, MemoryIsStored, Countable, Recorded,
       Supported, Loaded
  <2>3. Base(u) = Base(t) /\ Linked(u) = Linked(t)
    BY <2>1 DEF Base, Linked
  <2>4. RatedAt(u, UpdateProfileFromEvent(u.profile, u.event))
    <3>1. now \in 1 .. now
      BY <1>0
    <3>2. QED
      BY <2>1, <3>1 DEF RatedAt
  <2>5. SoloTx(u)
    BY <2>1, <2>2, <2>3, <2>4 DEF SoloTx, MemoryIsStored, Countable, OwnLinks,
       DuplicateOrder, Rated, Supported, Recorded, Resolved
  <2>6. QED
    BY <1>a, <2>1, <2>5
<1>7. CASE SaveProfile(w)
  <2>1. /\ w \in Busy /\ t.pc = "save_profile" /\ Others(w)
        /\ u.event = t.event /\ u.customer = t.customer /\ u.segments = t.segments
        /\ u.profile = UpdateProfileFromEvent(t.profile, t.event)
        /\ u.writes = t.writes \cup {"customer_profiles"} /\ u.pc \in {"commit", "save_link"}
    BY <1>7, SaveProfileFacts DEF Solo, AfterLink
  <2>2. /\ SoloTx(t) /\ Saves(u) /\ t.profile = Base(t) /\ Supported(t.event) /\ OwnLinks(t)
        /\ RatedAt(t, u.profile)
    BY <1>b, <2>1 DEF Saves, SoloTx, MemoryIsStored, Countable, Rated, Recorded, Supported, Loaded
  <2>3. Base(u) = Base(t) /\ Linked(u) = Linked(t) /\ RatedAt(u, u.profile)
    BY <2>1, <2>2 DEF Base, Linked, RatedAt
  <2>4. SoloTx(u)
    BY <2>1, <2>2, <2>3 DEF SoloTx, MemoryIsStored, Countable, OwnLinks,
       DuplicateOrder, Rated, Supported, Recorded, Resolved, Loaded
  <2>5. QED
    BY <1>a, <2>1, <2>4
<1>8. CASE SaveLink(w)
  <2>1. /\ w \in Busy /\ t.pc = "save_link" /\ Others(w)
        /\ u.event = t.event /\ u.customer = t.customer /\ u.segments = t.segments
        /\ u.profile = t.profile /\ u.writes = t.writes /\ u.pc \in {"commit", "save_link"}
    BY <1>8, SaveLinkFacts DEF Solo, AfterLink
  <2>2. /\ SoloTx(t) /\ Saves(t) /\ Saves(u) /\ t.profile = UpdateProfileFromEvent(Base(t), t.event)
        /\ Supported(t.event) /\ OwnLinks(t) /\ RatedAt(t, t.profile)
    BY <1>b, <2>1 DEF StageOK, Saves, SoloTx, MemoryIsStored, Countable, Rated, Recorded, Supported
  <2>3. Base(u) = Base(t) /\ Linked(u) = Linked(t) /\ RatedAt(u, u.profile)
    BY <2>1, <2>2 DEF Base, Linked, RatedAt
  <2>4. SoloTx(u)
    BY <2>1, <2>2, <2>3 DEF SoloTx, MemoryIsStored, Countable, OwnLinks,
       DuplicateOrder, Rated, Supported, Recorded, Resolved, Loaded
  <2>5. QED
    BY <1>a, <2>1, <2>4
<1>9. QED
  BY <1>1, <1>2, <1>3, <1>4, <1>5, <1>6, <1>7, <1>8

-----------------------------------------------------------------------------
(* The commit *)

\* The row a commit leaves for its customer is the updated profile, rounded.
LEMMA SavedRow ==
  ASSUME Solo, NEW w \in Busy, tx[w].pc = "commit", ApplyWrites(w), Saves(tx[w])
  PROVE  LET t == tx[w]
         IN /\ t.customer \in Customer /\ t.event \in Event /\ Supported(t.event)
            /\ Base(t) \in Profile /\ t.profile = UpdateProfileFromEvent(Base(t), t.event)
            /\ t.profile \in Profile
            /\ t.event \notin Seen(Base(t)) /\ Ready(Base(t), t.event)
            /\ DOMAIN profiles' = DOMAIN profiles \cup {t.customer}
            /\ profiles'[t.customer] = Row(t.profile)
            /\ memberships'[t.customer] = t.segments
            /\ \A d \in DOMAIN profiles : d # t.customer =>
                 profiles'[d] = profiles[d] /\ memberships'[d] = memberships[d]
<1> DEFINE t == tx[w]
           c == t.customer
<1>1. /\ t.event \in Event /\ t.profile \in Profile /\ StageOK(t) /\ SoloTx(t)
      /\ DOMAIN memberships = DOMAIN profiles
      /\ \A d \in DOMAIN profiles : profiles[d] \in Profile /\ Summary(profiles[d])
  BY TransactionFields DEF Solo, SoloInv, StageInv, TypeOK, Busy
<1>2. /\ c \in Customer /\ "raw_events" \in t.writes /\ Supported(t.event)
      /\ t.profile = UpdateProfileFromEvent(Base(t), t.event)
  BY <1>1 DEF StageOK, Saves, SoloTx, Countable, MemoryIsStored, Supported
<1>3. t.event \notin DOMAIN rawEvents
  BY <1>2 DEF Solo, OnceInv, UniqueRaw
<1>4. Base(t) \in Profile /\ t.event \notin Seen(Base(t)) /\ Ready(Base(t), t.event)
  <2>1. CASE c \in DOMAIN profiles
    <3>1. Base(t) = profiles[c]
      BY <2>1 DEF Base
    <3>2. t.event \notin Seen(profiles[c])
      BY <1>3, <2>1 DEF Solo, OnceInv, AppliedIsRecorded, Applied, Seen
    <3>3. QED
      BY <1>1, <2>1, <3>1, <3>2 DEF Ready
  <2>2. CASE c \notin DOMAIN profiles
    BY <1>1, <2>2, NewProfileEmpty, NewProfileType DEF Base
  <2>3. QED
    BY <2>1, <2>2
<1>5. c \in DOMAIN profiles => MergedRow(profiles[c], t.profile) = Row(t.profile)
  <2> SUFFICES ASSUME c \in DOMAIN profiles PROVE MergedRow(profiles[c], t.profile) = Row(t.profile)
    OBVIOUS
  <2>1. Base(t) = profiles[c] /\ profiles[c] \in Profile
    BY <1>1 DEF Base
  <2>2. /\ t.profile.firstSeen <= profiles[c].firstSeen
        /\ profiles[c].lastSeen <= t.profile.lastSeen
        /\ profiles[c].lastPurchase <= t.profile.lastPurchase
    BY <1>1, <1>2, <2>1, UpdateCovers
  <2>3. QED
    BY <1>1, <2>1, <2>2, MergedFields
<1>6. /\ DOMAIN profiles' = DOMAIN profiles \cup {c}
      /\ profiles'[c] = Row(t.profile) /\ memberships'[c] = t.segments
      /\ \A d \in DOMAIN profiles : d # c =>
           profiles'[d] = profiles[d] /\ memberships'[d] = memberships[d]
  BY <1>1, <1>5 DEF ApplyWrites, Put, Saves
<1>7. QED
  BY <1>1, <1>2, <1>4, <1>6

\* The events of a profile after a commit.
LEMMA CommittedHistory ==
  ASSUME Solo, NEW w \in Busy, tx[w].pc = "commit", ApplyWrites(w)
  PROVE  /\ \A f \in Event : \A d \in DOMAIN profiles : Applied(f, d) => Applied(f, d)'
         /\ \A f \in Event : \A d :
              Saves(tx[w]) /\ d = tx[w].customer /\ f = tx[w].event => Applied(f, d)'
         /\ \A f \in Event : \A d \in DOMAIN profiles' : Applied(f, d)' =>
              \/ d \in DOMAIN profiles /\ Applied(f, d)
              \/ Saves(tx[w]) /\ d = tx[w].customer /\ f = tx[w].event
<1> DEFINE t == tx[w]
<1>0. PICK c, e : c = t.customer /\ e = t.event
  OBVIOUS
<1>1. CASE ~Saves(t)
  <2>1. profiles' = profiles
    BY <1>1 DEF ApplyWrites, Saves
  <2>2. QED
    BY <1>1, <2>1 DEF Applied
<1>2. CASE Saves(t)
  <2>1. /\ e \in Event /\ Supported(e) /\ Base(t) \in Profile
        /\ t.profile = UpdateProfileFromEvent(Base(t), e) /\ t.profile \in Profile
        /\ e \notin Seen(Base(t))
        /\ DOMAIN profiles' = DOMAIN profiles \cup {c} /\ profiles'[c] = Row(t.profile)
        /\ \A d \in DOMAIN profiles : d # c => profiles'[d] = profiles[d]
    BY <1>0, <1>2, SavedRow
  <2>2. Seen(t.profile) = Seen(Base(t)) \cup {e}
    BY <2>1, SeenUpdated
  <2>a. profiles'[c].recent = t.profile.recent /\ c \in DOMAIN profiles'
    BY <2>1, RowFields
  <2>3. \A f \in Event : Applied(f, c)' <=> f \in Seen(t.profile)
    BY <2>a DEF Applied, Seen
  <2>4. \A f \in Event : c \in DOMAIN profiles => (Applied(f, c) <=> f \in Seen(Base(t)))
    BY <1>0 DEF Applied, Base, Seen
  <2>5. c \notin DOMAIN profiles => Seen(Base(t)) = {}
    BY <1>0, <2>1, NewProfileEmpty DEF Base
  <2>6. \A f \in Event : \A d \in DOMAIN profiles : d # c => (Applied(f, d) <=> Applied(f, d)')
    BY <2>1 DEF Applied
  <2>7. \A f \in Event : f \in Seen(t.profile) => f \in Seen(Base(t)) \/ f = e
    BY <2>2
  <2>8. e \in Seen(t.profile) /\ Seen(Base(t)) \subseteq Seen(t.profile)
    BY <2>2
  <2>9. ASSUME NEW f \in Event, NEW d \in DOMAIN profiles, Applied(f, d) PROVE Applied(f, d)'
    BY <2>9, <2>3, <2>4, <2>6, <2>8
  <2>10. Applied(e, c)'
    BY <2>1, <2>3, <2>8
  <2>11. ASSUME NEW f \in Event, NEW d \in DOMAIN profiles', Applied(f, d)'
         PROVE  (d \in DOMAIN profiles /\ Applied(f, d)) \/ (d = c /\ f = e)
    <3>1. CASE d # c
      BY <2>1, <2>6, <2>11, <3>1
    <3>2. CASE d = c
      <4>1. f \in Seen(Base(t)) \/ f = e
        BY <2>3, <2>7, <2>11, <3>2
      <4>2. QED
        BY <2>4, <2>5, <3>2, <4>1
    <3>3. QED
      BY <3>1, <3>2
  <2>12. QED
    BY <1>0, <1>2, <2>9, <2>10, <2>11
<1>3. QED
  BY <1>1, <1>2

LEMMA CommitSolo ==
  ASSUME Solo, TypeOK', NEW w \in Busy, tx[w].pc = "commit", ApplyWrites(w), Others(w),
         Ended(tx[w], tx'[w]), tx'[w].pc \in {"mark_failed", "reply"}, now' = now
  PROVE  SoloInv'
<1> DEFINE t == tx[w]
           c == t.customer
           e == t.event
<1>1. /\ e \in Event /\ StageOK(t) /\ SoloTx(t)
  BY TransactionFields DEF Solo, SoloInv, StageInv, TypeOK, Busy
<1>2. \A v \in Busy' : v = w
  BY DEF Solo, OneWorker, TypeOK, Busy, Others
<1>3. \A v \in Busy' : SoloTx(tx[v])'
  BY <1>2 DEF Ended, SoloTx, MemoryIsStored, Countable, OwnLinks, DuplicateOrder, Rated, Saves,
     Recorded, Resolved, Loaded
<1>4. /\ DOMAIN links' = DOMAIN links \cup t.claimed
      /\ \A i \in DOMAIN links : links'[i] = links[i]
      /\ \A i \in t.claimed : links'[i] = c
  BY <1>1, CommittedTables DEF Solo
<1>5. /\ \A x \in DOMAIN purchases : x \in DOMAIN purchases' /\ purchases'[x] = purchases[x]
      /\ \A x \in DOMAIN purchases' : x \in DOMAIN purchases \/ (Buys(t) /\ purchases'[x].event = e)
  <2>1. Buys(t) => OrderOf(e) \notin DOMAIN purchases
    BY DEF Solo, BackInv, UniqueOrder
  <2>2. QED
    BY <2>1 DEF ApplyWrites, Put, Buys, OrderOf
<1>6. /\ "raw_events" \in t.writes => /\ e \notin DOMAIN rawEvents
                                      /\ DOMAIN rawEvents' = DOMAIN rawEvents \cup {e}
                                      /\ rawEvents'[e] = t.outcome
      /\ \A f \in DOMAIN rawEvents : f \in DOMAIN rawEvents' /\ rawEvents'[f] = rawEvents[f]
      /\ "raw_events" \notin t.writes => rawEvents' = rawEvents
  BY DEF ApplyWrites, Put, Solo, OnceInv, UniqueRaw
<1>7. BoughtRecorded'
  <2>1. Buys(t) => "raw_events" \in t.writes
    BY <1>1 DEF StageOK, Buys
  <2>2. QED
    BY <1>5, <1>6, <2>1 DEF Solo, SoloInv, BoughtRecorded
<1>8. \A d \in DOMAIN profiles' : Summary(profiles[d])'
  <2> SUFFICES ASSUME NEW d \in DOMAIN profiles' PROVE Summary(profiles'[d])
    BY DEF Summary, Counted, Seen, SeenType
  <2>1. CASE ~Saves(t)
    BY <2>1 DEF ApplyWrites, Saves, Solo, SoloInv
  <2>2. CASE Saves(t) /\ d # c
    BY <2>2, SavedRow DEF Solo, SoloInv
  <2>3. CASE Saves(t) /\ d = c
    <3>1. /\ Base(t) \in Profile /\ Supported(e) /\ e \notin Seen(Base(t)) /\ Ready(Base(t), e)
          /\ t.profile = UpdateProfileFromEvent(Base(t), e) /\ t.profile \in Profile
          /\ profiles'[c] = Row(t.profile)
      BY <2>3, SavedRow
    <3>2. Summary(t.profile)
      BY <1>1, <3>1, SummaryUpdate
    <3>3. QED
      BY <2>3, <3>1, <3>2, SummarySaved
  <2>4. QED
    BY <2>1, <2>2, <2>3
<1>9. IdentifiersUnified'
  <2> SUFFICES ASSUME NEW f \in Event, NEW d \in DOMAIN profiles', Applied(f, d)',
                      NEW i \in KnownIdentifiers(f)
               PROVE  i \in DOMAIN links' /\ links'[i] = d
    BY DEF IdentifiersUnified
  <2>1. CASE d \in DOMAIN profiles /\ Applied(f, d)
    BY <1>4, <2>1 DEF Solo, SoloInv, IdentifiersUnified
  <2>2. CASE Saves(t) /\ d = c /\ f = e
    <3>1. KnownIdentifiers(e) \subseteq DOMAIN links \cup t.todo \cup t.claimed /\ t.todo = {}
      BY <2>2 DEF Solo, BackInv, LinksAhead
    <3>2. i \in DOMAIN links => links[i] = c
      BY <1>1, <2>2 DEF SoloTx, OwnLinks, Linked
    <3>3. QED
      BY <1>4, <2>2, <3>1, <3>2
  <2>3. QED
    BY <2>1, <2>2, CommittedHistory
<1>10. ProcessedIsApplied'
  <2> SUFFICES ASSUME NEW f \in DOMAIN rawEvents', rawEvents'[f] = "processed"
               PROVE  \/ \E d \in DOMAIN profiles' : Applied(f, d)'
                      \/ /\ TypeOf[f] = "purchase"
                         /\ OrderOf(f) \in DOMAIN purchases'
                         /\ purchases'[OrderOf(f)].event # f
    BY DEF ProcessedIsApplied, OrderOf
  <2>1. CASE f \in DOMAIN rawEvents
    <3>1. f \in Event /\ rawEvents[f] = "processed"
      BY <1>6, <2>1 DEF Solo, TypeOK
    <3>2. \/ \E d \in DOMAIN profiles : Applied(f, d)
          \/ /\ TypeOf[f] = "purchase" /\ OrderOf(f) \in DOMAIN purchases
             /\ purchases[OrderOf(f)].event # f
      BY <2>1, <3>1 DEF Solo, SoloInv, ProcessedIsApplied, OrderOf
    <3>3. \A d \in DOMAIN profiles : Applied(f, d) => d \in DOMAIN profiles' /\ Applied(f, d)'
      BY <3>1, CommittedHistory DEF Applied
    <3>4. QED
      BY <1>5, <3>2, <3>3
  <2>2. CASE f \notin DOMAIN rawEvents
    <3>1. f = e /\ "raw_events" \in t.writes /\ t.outcome = "processed"
      BY <1>6, <2>2
    <3>2. CASE Saves(t)
      <4>1. PICK d : d = c
        OBVIOUS
      <4>2. Applied(f, d)'
        BY <1>1, <3>1, <3>2, <4>1, CommittedHistory
      <4>3. QED
        BY <4>2 DEF Applied
    <3>3. CASE ~Saves(t)
      <4>1. TypeOf[e] = "purchase" /\ OrderOf(e) \in DOMAIN purchases
        BY <1>1, <3>1, <3>3 DEF SoloTx, DuplicateOrder
      <4>2. purchases[OrderOf(e)].event # e
        BY <1>6, <3>1, <4>1 DEF Solo, SoloInv, BoughtRecorded
      <4>3. QED
        BY <1>5, <3>1, <4>1, <4>2
    <3>4. QED
      BY <3>2, <3>3
  <2>3. QED
    BY <2>1, <2>2
<1>11. MembershipsFitProfile'
  <2> SUFFICES ASSUME NEW d \in DOMAIN profiles'
               PROVE  \E s \in 1 .. now : \E r \in 0 .. profiles'[d].revenue + Cent :
                        /\ Money(r) = profiles'[d].revenue
                        /\ memberships'[d] =
                             EvaluateStaticSegments([profiles'[d] EXCEPT !.revenue = r], s)
    BY DEF MembershipsFitProfile
  <2>1. CASE ~Saves(t)
    BY <2>1 DEF ApplyWrites, Saves, Solo, SoloInv, MembershipsFitProfile
  <2>2. CASE Saves(t) /\ d # c
    <3>1. d \in DOMAIN profiles /\ profiles'[d] = profiles[d] /\ memberships'[d] = memberships[d]
      BY <2>2, SavedRow
    <3>2. QED
      BY <3>1 DEF Solo, SoloInv, MembershipsFitProfile
  <2>3. CASE Saves(t) /\ d = c
    <3>1. /\ t.profile \in Profile /\ profiles'[c] = Row(t.profile)
          /\ memberships'[c] = t.segments
      BY <2>3, SavedRow
    <3>2. PICK s \in 1 .. now : t.segments = EvaluateStaticSegments(t.profile, s)
      BY <1>1, <2>3 DEF SoloTx, Rated, RatedAt
    <3> DEFINE r == t.profile.revenue
    <3>3. r \in Nat /\ Money(r) = profiles'[c].revenue
      BY <3>1, RowFields DEF Profile
    <3>4. r \in 0 .. profiles'[c].revenue + Cent
      <4>1. r <= Money(r) + Cent /\ Money(r) \in Nat /\ Cent \in Nat
        BY <3>3, MoneyNear, MoneyType, Thresholds
      <4>2. QED
        BY <3>3, <4>1
    <3>5. memberships'[c] = EvaluateStaticSegments([profiles'[c] EXCEPT !.revenue = r], s)
      BY <3>1, <3>2, SegmentsOfRow
    <3>6. QED
      BY <2>3, <3>3, <3>4, <3>5
  <2>4. QED
    BY <2>1, <2>2, <2>3
<1>12. QED
  BY <1>3, <1>7, <1>8, <1>9, <1>10, <1>11 DEF SoloInv

-----------------------------------------------------------------------------
(* Every step *)

\* An attempt that is over, or gone, leaves the tables; the row may be marked.
LEMMA FailedSolo ==
  ASSUME Solo, TypeOK', NEW w \in Worker, MarkFailed(w) \/ MarkFailedFails(w)
  PROVE  SoloInv'
<1>1. /\ w \in Busy /\ Others(w) /\ Ended(tx[w], tx'[w]) /\ tx'[w].pc = "reply"
      /\ UNCHANGED <<links, profiles, purchases, memberships>> /\ now' = now
  BY MarkFailedFacts DEF MarkFailed, MarkFailedFails, env
<1>2. /\ DOMAIN rawEvents' = DOMAIN rawEvents
      /\ \A f \in DOMAIN rawEvents : rawEvents'[f] \in {rawEvents[f], "failed"}
  BY DEF MarkFailed, MarkFailedFails, tables
<1>3. \A v \in Busy' : v = w
  BY <1>1 DEF Solo, OneWorker, TypeOK, Busy
<1>4. \A v \in Busy' : SoloTx(tx[v])'
  BY <1>1, <1>3 DEF Ended, SoloTx, MemoryIsStored, Countable, OwnLinks, DuplicateOrder, Rated,
     Saves, Recorded, Resolved, Loaded
<1>5. \A c \in DOMAIN profiles' : Summary(profiles[c])'
  BY <1>1 DEF Solo, SoloInv, Summary, Counted, Seen, SeenType
<1>6. BoughtRecorded' /\ IdentifiersUnified' /\ MembershipsFitProfile'
  BY <1>1, <1>2 DEF Solo, SoloInv, BoughtRecorded, IdentifiersUnified, MembershipsFitProfile, Applied
<1>7. ProcessedIsApplied'
  BY <1>1, <1>2 DEF Solo, SoloInv, ProcessedIsApplied, Applied
<1>8. QED
  BY <1>4, <1>5, <1>6, <1>7 DEF SoloInv

LEMMA SoloNext == Solo /\ TypeOK' /\ [Next]_vars => SoloInv'
<1> SUFFICES ASSUME Solo, TypeOK', [Next]_vars PROVE SoloInv'
  OBVIOUS
<1>0. \A v, w \in Worker : v = w
  BY DEF Solo, OneWorker
<1>1. now \in Nat /\ now <= now
  BY DEF Solo, TypeOK
<1>2. ASSUME NEW w \in Worker, NEW e \in Event, Begin(w, e) PROVE SoloInv'
  <2>1. /\ tx'[w].pc = "record" /\ tx'[w].event = e /\ tx'[w].profile = NewProfile(e)
        /\ tx'[w].writes = {} /\ UNCHANGED tables /\ now' = now
    BY <1>2, BeginFacts DEF Begin
  <2>2. SoloTx(tx'[w])
    BY <2>1 DEF SoloTx, MemoryIsStored, Countable, OwnLinks, DuplicateOrder, Rated, Saves,
       Recorded, Resolved, Loaded
  <2>3. \A v \in Busy' : v = w
    BY <1>0 DEF TypeOK, Busy
  <2>4. QED
    BY <1>1, <2>1, <2>2, <2>3, LocalSolo DEF tables
<1>3. ASSUME NEW w \in Worker, Commit(w) \/ CommitAnswerLost(w) PROVE SoloInv'
  <2>1. /\ w \in Busy /\ tx[w].pc = "commit" /\ ApplyWrites(w)
        /\ Others(w) /\ Ended(tx[w], tx'[w]) /\ now' = now
    BY <1>3, CommitFacts DEF Commit, CommitAnswerLost, env
  <2>2. tx'[w].pc \in {"mark_failed", "reply"}
    BY <1>3, <2>1, EndedFacts DEF Commit, CommitAnswerLost
  <2>3. QED
    BY <2>1, <2>2, CommitSolo
<1>4. ASSUME NEW w \in Worker, StatementFails(w) \/ StatementRefused(w) \/ DeadlockVictim(w)
      PROVE  SoloInv'
  <2>1. /\ w \in Busy /\ Ended(tx[w], tx'[w]) /\ tx'[w].pc = "mark_failed"
        /\ UNCHANGED tables /\ now' = now
    BY <1>4, RollbackFacts DEF StatementFails, StatementRefused, DeadlockVictim, env
  <2>2. \A v \in Busy' : v = w
    BY <1>0 DEF TypeOK, Busy
  <2>3. SoloTx(tx'[w])
    BY <2>1, EndedSolo
  <2>4. QED
    BY <1>1, <2>1, <2>2, <2>3, LocalSolo DEF tables
<1>5. ASSUME NEW w \in Worker, Reply(w) \/ Crash(w) \/ RaiseTypeError(w)
      PROVE  SoloInv'
  <2>1. /\ Busy' \subseteq Busy /\ \A v \in Busy' : tx'[v] = tx[v]
        /\ UNCHANGED tables /\ now' = now
    BY <1>5, LeaveFacts DEF Reply, Crash, RaiseTypeError, env
  <2>2. \A v \in Busy' : SoloTx(tx'[v])
    BY <2>1 DEF Solo, SoloInv
  <2>3. QED
    BY <1>1, <2>1, <2>2, LocalSolo DEF tables
<1>6. CASE Tick \/ CollectSession \/ UNCHANGED vars
  <2>1. UNCHANGED <<tables, tx>> /\ now <= now'
    BY <1>1, <1>6 DEF Tick, CollectSession, vars, env
  <2>2. \A v \in Busy' : SoloTx(tx'[v])
    BY <2>1 DEF Solo, SoloInv, Busy
  <2>3. QED
    BY <2>1, <2>2, LocalSolo DEF tables
<1>7. ASSUME NEW w \in Worker, Progress(w) \/ Failure(w) PROVE SoloInv'
  BY <1>3, <1>4, <1>5, <1>7, StatementsSolo, FailedSolo DEF Progress, Failure
<1>8. QED
  BY <1>2, <1>6, <1>7 DEF Next, Finished

LEMMA SoloInit == Init => SoloInv
<1> SUFFICES ASSUME Init PROVE SoloInv
  OBVIOUS
<1>1. DOMAIN << >> = {}
  OBVIOUS
<1>2. QED
  BY <1>1 DEF Init, SoloInv, BoughtRecorded, ProcessedIsApplied, IdentifiersUnified,
     MembershipsFitProfile, Busy

LEMMA SoloAlways == ASSUME OneWorker PROVE Spec => [](TypeOK /\ SoloInv)
<1>1. Spec => [](TypeOK /\ StageInv /\ SafeInv /\ BackInv)
  BY BackAlways
<1>2. TypeOK /\ StageInv /\ OnceInv /\ [Next]_vars => OnceInv'
  BY OnceNext
<1>3. Spec => []OnceInv
  BY <1>1, <1>2, OnceInit, PTL DEF Spec
<1>4. TypeOK /\ StageInv /\ SafeInv /\ OnceInv /\ BackInv /\ SoloInv /\ TypeOK' /\ [Next]_vars
        => SoloInv'
  BY SoloNext DEF Solo
<1>5. Spec => []SoloInv
  BY <1>1, <1>3, <1>4, SoloInit, PTL DEF Spec
<1>6. QED
  BY <1>1, <1>5, PTL

\* IdentifiersUnified: every identifier of an event leads to the customer whose
\* profile counts the event, however crashes and redeliveries cut the attempts.
THEOREM IdentifiersLeadHome == ASSUME OneWorker PROVE Spec => []IdentifiersUnified
<1>1. SoloInv => IdentifiersUnified
  BY DEF SoloInv
<1>2. QED
  BY <1>1, SoloAlways, PTL

\* ProcessedIsApplied: what raw_events reports processed is in a profile, or is
\* a purchase another event had already brought.
THEOREM ProcessedIsCounted == ASSUME OneWorker PROVE Spec => []ProcessedIsApplied
<1>1. SoloInv => ProcessedIsApplied
  BY DEF SoloInv
<1>2. QED
  BY <1>1, SoloAlways, PTL

\* ProfileIsItsHistory: times and counters of a stored profile are those of its
\* events, in whatever order, and however often, they came.
THEOREM ProfileSummarises == ASSUME OneWorker PROVE Spec => []ProfileIsItsHistory
<1>1. TypeOK /\ SoloInv => ProfileIsItsHistory
  BY SummaryIsHistory DEF SoloInv
<1>2. QED
  BY <1>1, SoloAlways, PTL

\* MembershipsFitProfile: the stored memberships are what the rules said of the
\* stored profile, but for the rounding of the revenue, at a time that has been.
THEOREM MembershipsFollow == ASSUME OneWorker PROVE Spec => []MembershipsFitProfile
<1>1. SoloInv => MembershipsFitProfile
  BY DEF SoloInv
<1>2. QED
  BY <1>1, SoloAlways, PTL

-----------------------------------------------------------------------------
(* Sums of amounts *)

\* Whole hundredths are not rounded.
LEMMA MoneyOfMore ==
  ASSUME NEW k \in Nat, NEW a \in Nat
  PROVE  Money(Cent * k + a) = Cent * k + Money(a)
<1>1. Cent \in Nat /\ Cent > 0
  BY Thresholds
<1> DEFINE m == 2 * Cent
           x == 2 * a + Cent
           q == x \div m
           r == (m * k + x) \div m
<1>2. m \in Nat /\ m > 0 /\ x \in Nat /\ m * k \in Nat
  BY <1>1
<1>3. 2 * (Cent * k + a) + Cent = m * k + x
  BY <1>1
<1>a. Money(a) = Cent * q /\ Money(Cent * k + a) = Cent * r
  BY <1>3 DEF Money
<1> HIDE DEF m, x
<1>4. /\ q \in Nat /\ m * q <= x /\ x < m * (q + 1)
      /\ r \in Nat /\ m * r <= m * k + x /\ m * k + x < m * (r + 1)
  BY <1>2
<1> HIDE DEF q, r
<1>5. \A i, j \in Nat : i <= j => m * i <= m * j
  <2> SUFFICES ASSUME NEW i \in Nat, NEW j \in Nat, i <= j PROVE m * i <= m * j
    OBVIOUS
  <2>1. PICK n \in Nat : j = i + n
    <3>1. j - i \in Nat /\ j = i + (j - i)
      OBVIOUS
    <3>2. QED
      BY <3>1
  <2>2. m * j = m * i + m * n /\ m * n \in Nat /\ m * i \in Nat
    BY <1>2, <2>1
  <2>3. QED
    BY <2>2
<1>6. m * (k + q) = m * k + m * q /\ m * (k + q + 1) = m * k + m * (q + 1)
  BY <1>2, <1>4
<1>7. /\ m * q \in Nat /\ m * (q + 1) \in Nat /\ m * r \in Nat /\ m * (r + 1) \in Nat
  BY <1>2, <1>4
<1>8. ~(r + 1 <= k + q)
  <2>1. r + 1 <= k + q => m * (r + 1) <= m * (k + q)
    BY <1>4, <1>5
  <2>2. m * (k + q) < m * (r + 1)
    BY <1>2, <1>4, <1>6, <1>7
  <2>3. m * (k + q) \in Nat
    BY <1>2, <1>6, <1>7
  <2>4. QED
    BY <1>7, <2>1, <2>2, <2>3
<1>9. ~(k + q + 1 <= r)
  <2>1. k + q + 1 <= r => m * (k + q + 1) <= m * r
    BY <1>4, <1>5
  <2>2. m * r < m * (k + q + 1)
    BY <1>2, <1>4, <1>6, <1>7
  <2>3. m * (k + q + 1) \in Nat
    BY <1>2, <1>6, <1>7
  <2>4. QED
    BY <1>7, <2>1, <2>2, <2>3
<1>10. r = k + q
  BY <1>4, <1>8, <1>9
<1>11. Cent * r = Cent * k + Cent * q
  BY <1>1, <1>4, <1>10
<1>12. QED
  BY <1>a, <1>11

\* The rows of S in table p, counted out in units of amount.
Coins(p, S) == {y \in S \X Nat : 1 <= y[2] /\ y[2] <= p[y[1]].amount}

\* One more row adds its amount.
LEMMA CoinsOfOneMore ==
  ASSUME NEW p, NEW S, NEW x, x \notin S, p[x].amount \in Nat, IsFiniteSet(Coins(p, S))
  PROVE  /\ IsFiniteSet(Coins(p, S \cup {x}))
         /\ Cardinality(Coins(p, S \cup {x})) = p[x].amount + Cardinality(Coins(p, S))
<1>0. PICK a \in Nat : a = p[x].amount
  OBVIOUS
<1> DEFINE f == [n \in 1 .. a |-> <<x, n>>]
<1>1. Coins(p, S \cup {x}) = Coins(p, S) \cup Coins(p, {x})
  BY DEF Coins
<1>2. Coins(p, S) \cap Coins(p, {x}) = {}
  BY DEF Coins
<1>3. f \in Bijection(1 .. a, Coins(p, {x}))
  <2>1. \A n \in 1 .. a : <<x, n>> \in Coins(p, {x})
    BY <1>0 DEF Coins
  <2>2. \A y \in Coins(p, {x}) : y[2] \in 1 .. a /\ y = <<x, y[2]>>
    BY <1>0 DEF Coins
  <2>3. f \in [1 .. a -> Coins(p, {x})]
    BY <2>1
  <2>4. \A i, j \in 1 .. a : f[i] = f[j] => i = j
    OBVIOUS
  <2>5. \A y \in Coins(p, {x}) : \E n \in 1 .. a : f[n] = y
    BY <2>2
  <2>6. QED
    BY <2>3, <2>4, <2>5 DEF Bijection, Injection, Surjection, IsInjective
<1> HIDE DEF f
<1>4. IsFiniteSet(1 .. a) /\ Cardinality(1 .. a) = a
  <2>1. 1 \in Int /\ a \in Int
    OBVIOUS
  <2>2. IsFiniteSet(1 .. a) /\ Cardinality(1 .. a) = IF 1 > a THEN 0 ELSE a - 1 + 1
    BY <2>1, FS_Interval
  <2>3. QED
    BY <2>2
<1>5. IsFiniteSet(Coins(p, {x})) /\ Cardinality(Coins(p, {x})) = a
  BY <1>3, <1>4, FS_Bijection DEF ExistsBijection
<1>6. Cardinality(Coins(p, S)) \in Nat
  BY FS_CardinalityType
<1>7. /\ IsFiniteSet(Coins(p, S) \cup Coins(p, {x}))
      /\ Cardinality(Coins(p, S) \cup Coins(p, {x})) = a + Cardinality(Coins(p, S))
  <2> DEFINE A == Coins(p, S)
             B == Coins(p, {x})
  <2>1. /\ IsFiniteSet(A) /\ IsFiniteSet(B) /\ A \cap B = {} /\ Cardinality(B) = a
        /\ Cardinality(A) \in Nat
    BY <1>2, <1>5, <1>6
  <2> HIDE DEF A, B
  <2>2. /\ IsFiniteSet(A \cup B)
        /\ Cardinality(A \cup B) = Cardinality(A) + Cardinality(B) - Cardinality({})
    BY <2>1, FS_Union
  <2>3. Cardinality({}) = 0
    BY FS_EmptySet
  <2>4. Cardinality(A \cup B) = a + Cardinality(A)
    BY <2>1, <2>2, <2>3
  <2>5. QED
    BY <2>2, <2>4 DEF A, B
<1>8. QED
  BY <1>0, <1>1, <1>7

\* The coins of some of the rows.
LEMMA CoinsOfSome ==
  ASSUME NEW p, NEW S, NEW s \in SUBSET S, IsFiniteSet(Coins(p, S))
  PROVE  IsFiniteSet(Coins(p, s)) /\ Cardinality(Coins(p, s)) \in Nat
<1>1. Coins(p, s) \in SUBSET Coins(p, S)
  BY DEF Coins
<1>2. QED
  BY <1>1, FS_Subset, FS_CardinalityType

\* The sum of RevenueIsPurchases.
Total(p, S) == MapThenSumSet(LAMBDA o : p[o].amount, S)

\* The row the sum takes first.
AnyOf(s) == CHOOSE x \in s : TRUE

\* h adds up the amounts of each set of rows, one row after another.
Adds(h, p, S) ==
  h = [s \in SUBSET S |-> IF s = {} THEN 0 ELSE p[AnyOf(s)].amount + h[s \ {AnyOf(s)}]]

\* There is one sum, whatever row is taken first.
LEMMA OneSum ==
  ASSUME NEW p, NEW S, IsFiniteSet(S), NEW g, Adds(g, p, S), NEW h, Adds(h, p, S)
  PROVE  g[S] = h[S]
<1> DEFINE U == {s \in SUBSET S : g[s] # h[s]}
           Sizes == {n \in Nat : \E s \in U : n = Cardinality(s)}
<1> SUFFICES ASSUME g[S] # h[S] PROVE FALSE
  OBVIOUS
<1>1. \A s \in SUBSET S : IsFiniteSet(s) /\ Cardinality(s) \in Nat
  BY FS_Subset, FS_CardinalityType
<1>2. Sizes # {} /\ Sizes \subseteq Nat
  BY <1>1
<1>3. PICK k \in Sizes : \A j \in Sizes : ~(<<j, k>> \in OpToRel(<, Nat))
  BY <1>2, NatLessThanWellFounded, WFMin
<1>4. PICK s \in U : k = Cardinality(s)
  OBVIOUS
<1>5. /\ g[s] = IF s = {} THEN 0 ELSE p[AnyOf(s)].amount + g[s \ {AnyOf(s)}]
      /\ h[s] = IF s = {} THEN 0 ELSE p[AnyOf(s)].amount + h[s \ {AnyOf(s)}]
  <2>1. s \in SUBSET S
    OBVIOUS
  <2>2. \A f : Adds(f, p, S) =>
          f[s] = IF s = {} THEN 0 ELSE p[AnyOf(s)].amount + f[s \ {AnyOf(s)}]
    BY <2>1 DEF Adds
  <2>3. QED
    BY <2>2
<1>6. s # {} /\ g[s \ {AnyOf(s)}] # h[s \ {AnyOf(s)}]
  BY <1>5
<1>7. AnyOf(s) \in s
  BY <1>6 DEF AnyOf
<1>8. Cardinality(s \ {AnyOf(s)}) \in Sizes
  BY <1>1, <1>6
<1>9. Cardinality(s \ {AnyOf(s)}) = k - 1
  BY <1>1, <1>4, <1>7, FS_RemoveElement
<1>10. k \in Nat /\ k - 1 < k
  BY <1>2
<1>11. k - 1 \in Sizes
  <2> HIDE DEF Sizes
  <2>1. QED
    BY <1>8, <1>9
<1> HIDE DEF Sizes
<1>12. <<k - 1, k>> \in OpToRel(<, Nat)
  BY <1>2, <1>10, <1>11 DEF OpToRel
<1>13. QED
  BY <1>3, <1>11, <1>12

\* The sum of the amounts is the number of coins.
LEMMA TotalIsCoins ==
  ASSUME NEW p, NEW S, IsFiniteSet(S), IsFiniteSet(Coins(p, S)),
         \A x \in S : p[x].amount \in Nat
  PROVE  Total(p, S) = Cardinality(Coins(p, S))
<1> DEFINE g == [s \in SUBSET S |-> Cardinality(Coins(p, s))]
<1>1. Adds(g, p, S)
  <2>1. ASSUME NEW s \in SUBSET S
        PROVE  g[s] = IF s = {} THEN 0 ELSE p[AnyOf(s)].amount + g[s \ {AnyOf(s)}]
    <3>1. CASE s = {}
      <4>1. Coins(p, s) = {}
        BY <3>1 DEF Coins
      <4>2. QED
        BY <3>1, <4>1, FS_EmptySet
    <3>2. CASE s # {}
      <4>1. PICK x : x = AnyOf(s)
        OBVIOUS
      <4>2. x \in s
        BY <3>2, <4>1 DEF AnyOf
      <4>3. s = (s \ {x}) \cup {x} /\ x \notin s \ {x} /\ s \ {x} \in SUBSET S
            /\ p[x].amount \in Nat
        BY <4>2
      <4>4. Cardinality(Coins(p, (s \ {x}) \cup {x})) = p[x].amount + Cardinality(Coins(p, s \ {x}))
        BY <4>3, CoinsOfSome, CoinsOfOneMore
      <4>5. QED
        BY <3>2, <4>1, <4>3, <4>4
    <3>3. QED
      BY <3>1, <3>2
  <2> DEFINE r == [s \in SUBSET S |->
                     IF s = {} THEN 0 ELSE p[AnyOf(s)].amount + g[s \ {AnyOf(s)}]]
  <2>2. \A s \in SUBSET S : g[s] = r[s]
    BY <2>1
  <2>3. g = r
    BY <2>2
  <2>4. QED
    BY <2>3 DEF Adds
<1>2. Total(p, S) = (CHOOSE h : Adds(h, p, S))[S]
  BY Zenon DEF Total, MapThenSumSet, MapThenFoldSet, Adds, AnyOf
<1> DEFINE h == CHOOSE h : Adds(h, p, S)
<1> HIDE DEF g
<1>3. Adds(h, p, S)
  BY <1>1
<1> HIDE DEF h
<1>4. h[S] = g[S]
  BY <1>1, <1>3, OneSum
<1>5. QED
  BY <1>2, <1>4 DEF g, h

LEMMA CoinsOfSameRows ==
  ASSUME NEW p, NEW q, NEW S, \A x \in S : p[x] = q[x]
  PROVE  Coins(p, S) = Coins(q, S)
BY DEF Coins

LEMMA MoneyIsWhole == ASSUME NEW a \in Nat PROVE \E k \in Nat : Money(a) = Cent * k
<1>1. Cent \in Nat /\ Cent > 0
  BY Thresholds
<1>2. (2 * a + Cent) \div (2 * Cent) \in Nat
  BY <1>1
<1>3. QED
  BY <1>2 DEF Money

LEMMA MoneyOfNothing == Money(0) = 0
<1>1. Cent \in Nat /\ Cent > 0
  BY Thresholds
<1> DEFINE q == (2 * 0 + Cent) \div (2 * Cent)
<1>2. q \in Nat /\ (2 * Cent) * q <= 2 * 0 + Cent
  BY <1>1
<1> HIDE DEF q
<1>3. q = 0
  <2>1. q >= 1 => (2 * Cent) * q >= 2 * Cent
    <3>1. q >= 1 => q - 1 \in Nat /\ (2 * Cent) * q = 2 * Cent + (2 * Cent) * (q - 1)
                    /\ (2 * Cent) * (q - 1) \in Nat
      BY <1>1, <1>2
    <3>2. QED
      BY <1>1, <3>1
  <2>2. QED
    BY <1>1, <1>2, <2>1
<1>4. QED
  BY <1>1, <1>3 DEF Money, q

-----------------------------------------------------------------------------
(* Revenue and purchases *)

Owned(p, c) == {o \in DOMAIN p : p[o].customer = c}

\* The revenue of customer c is what the rows of table p say.
Earned(p, c, revenue) ==
  /\ revenue = Cardinality(Coins(p, Owned(p, c)))
  /\ \E k \in Nat : revenue = Cent * k

Wallets ==
  /\ IsFiniteSet(DOMAIN purchases)
  /\ IsFiniteSet(Coins(purchases, DOMAIN purchases))
  /\ \A c \in DOMAIN profiles : Earned(purchases, c, profiles[c].revenue)

\* What is inserted into processed_purchases is a purchase, and is committed
\* with the profile that counts it.
BuyerSaves(t) ==
  Buys(t) => TypeOf[t.event] = "purchase" /\ (t.pc = "commit" => Saves(t))

MoneyInv == Wallets /\ \A w \in Busy : BuyerSaves(tx[w])

LEMMA BuyersStay ==
  ASSUME Solo, NEW w \in Busy, Others(w), \A v \in Busy : BuyerSaves(tx[v]), BuyerSaves(tx'[w])
  PROVE  \A v \in Busy' : BuyerSaves(tx'[v])
BY DEF Others

LEMMA BuyerStatements ==
  ASSUME Solo, NEW w \in Worker, \A v \in Busy : BuyerSaves(tx[v]),
         \/ RecordReceived(w) \/ ResolveKnownProfile(w) \/ LoadProfile(w) \/ SelectPurchase(w)
         \/ InsertPurchase(w) \/ EvaluateSegments(w) \/ SaveProfile(w) \/ SaveLink(w)
  PROVE  \A v \in Busy' : BuyerSaves(tx'[v])
<1> DEFINE t == tx[w]
           u == tx'[w]
<1>a. ASSUME w \in Busy
      PROVE  SoloTx(t) /\ StageOK(t) /\ BuyerOK(t) /\ BuyerSaves(t)
  BY <1>a DEF Solo, SoloInv, StageInv, SafeInv
<1>1. CASE RecordReceived(w)
  <2>1. w \in Busy /\ t.pc = "record" /\ Others(w)
        /\ (u.writes = t.writes \/ u.writes = {"raw_events"})
    BY <1>1, RecordFacts DEF Solo, DecidesTo
  <2>2. ~Buys(u)
    BY <1>a, <2>1 DEF StageOK, Buys
  <2>3. QED
    BY <2>1, <2>2, BuyersStay DEF BuyerSaves
<1>2. CASE ResolveKnownProfile(w) \/ LoadProfile(w) \/ SelectPurchase(w)
  <2>1. /\ w \in Busy /\ t.pc \in {"resolve", "load", "select_purchase"} /\ Others(w)
        /\ u.writes = t.writes
    BY <1>2, ResolveFacts, LoadFacts, SelectFacts DEF Solo, DecidesTo
  <2>2. ~Buys(u)
    BY <1>a, <2>1 DEF BuyerOK, Buys
  <2>3. QED
    BY <2>1, <2>2, BuyersStay DEF BuyerSaves
<1>3. CASE InsertPurchase(w)
  <2>1. w \in Busy /\ t.pc = "insert_purchase" /\ Others(w)
    BY <1>3, InsertFacts DEF Solo
  <2>2. CASE Ended(t, u)
    BY <2>1, <2>2, BuyersStay DEF BuyerSaves, Ended, Buys
  <2>3. CASE u.event = t.event /\ u.pc = "evaluate"
    <3>1. TypeOf[u.event] = "purchase"
      BY <1>a, <2>1, <2>3 DEF SoloTx, Countable
    <3>2. QED
      BY <2>1, <2>3, <3>1, BuyersStay DEF BuyerSaves
  <2>4. QED
    BY <1>3, <2>2, <2>3, InsertFacts DEF Solo, SameWork
<1>4. CASE EvaluateSegments(w)
  <2>1. /\ w \in Busy /\ Others(w) /\ u.event = t.event /\ u.writes = t.writes
        /\ u.pc = "save_profile"
    BY <1>4, EvaluateFacts DEF Solo
  <2>2. QED
    BY <1>a, <2>1, BuyersStay DEF BuyerSaves, Buys
<1>5. CASE SaveProfile(w)
  <2>1. /\ w \in Busy /\ Others(w) /\ u.event = t.event
        /\ u.writes = t.writes \cup {"customer_profiles"}
    BY <1>5, SaveProfileFacts DEF Solo
  <2>2. QED
    BY <1>a, <2>1, BuyersStay DEF BuyerSaves, Buys, Saves
<1>6. CASE SaveLink(w)
  <2>1. /\ w \in Busy /\ t.pc = "save_link" /\ Others(w) /\ u.event = t.event
        /\ u.writes = t.writes
    BY <1>6, SaveLinkFacts DEF Solo
  <2>2. QED
    BY <1>a, <2>1, BuyersStay DEF BuyerSaves, Buys, Saves, StageOK
<1>7. QED
  BY <1>1, <1>2, <1>3, <1>4, <1>5, <1>6

LEMMA BuyersNext ==
  Solo /\ (\A w \in Busy : BuyerSaves(tx[w])) /\ [Next]_vars
    => (\A w \in Busy : BuyerSaves(tx[w]))'
<1> SUFFICES ASSUME Solo, \A w \in Busy : BuyerSaves(tx[w]), [Next]_vars
             PROVE  \A w \in Busy' : BuyerSaves(tx'[w])
  BY DEF BuyerSaves, Buys, Saves
<1>1. ASSUME NEW w \in Worker, NEW e \in Event, Begin(w, e)
      PROVE  \A v \in Busy' : BuyerSaves(tx'[v])
  <2>1. Busy' = Busy \cup {w} /\ tx'[w].writes = {} /\ \A v \in Busy : tx'[v] = tx[v]
    BY <1>1, BeginFacts
  <2>2. QED
    BY <2>1 DEF BuyerSaves, Buys
<1>2. ASSUME NEW w \in Worker,
             \/ Commit(w) \/ CommitAnswerLost(w) \/ StatementFails(w) \/ StatementRefused(w)
             \/ DeadlockVictim(w) \/ MarkFailed(w) \/ MarkFailedFails(w)
      PROVE  \A v \in Busy' : BuyerSaves(tx'[v])
  <2>1. w \in Busy /\ Others(w) /\ Ended(tx[w], tx'[w])
    BY <1>2, CommitFacts, RollbackFacts, MarkFailedFacts
  <2>2. QED
    BY <2>1, BuyersStay DEF Ended, BuyerSaves, Buys
<1>3. ASSUME NEW w \in Worker, Reply(w) \/ Crash(w) \/ RaiseTypeError(w)
      PROVE  \A v \in Busy' : BuyerSaves(tx'[v])
  BY <1>3, LeaveFacts
<1>4. CASE Tick \/ CollectSession \/ UNCHANGED vars
  BY <1>4 DEF Tick, CollectSession, vars, Busy
<1>5. ASSUME NEW w \in Worker, Progress(w) \/ Failure(w)
      PROVE  \A v \in Busy' : BuyerSaves(tx'[v])
  BY <1>2, <1>3, <1>5, BuyerStatements DEF Progress, Failure
<1>6. QED
  BY <1>1, <1>4, <1>5 DEF Next, Finished

LEMMA UpdateRevenue ==
  ASSUME NEW p \in Profile, NEW e \in Event, Supported(e)
  PROVE  UpdateProfileFromEvent(p, e).revenue =
           p.revenue + IF TypeOf[e] = "purchase" THEN PurchaseOf[e].amount ELSE 0
BY DEF UpdateProfileFromEvent, Supported

\* The profile a commit starts from has what its customer's purchases say.
LEMMA BaseEarned ==
  ASSUME Solo, Wallets, NEW w \in Busy
  PROVE  Earned(purchases, tx[w].customer, Base(tx[w]).revenue)
<1> DEFINE c == tx[w].customer
<1>1. CASE c \in DOMAIN profiles
  BY <1>1 DEF Wallets, Base
<1>2. CASE c \notin DOMAIN profiles
  <2>1. Base(tx[w]).revenue = 0
    BY <1>2 DEF Base, NewProfile
  <2>2. Owned(purchases, c) = {}
    BY <1>2 DEF Owned, Solo, SafeInv, ReferencesHold
  <2>3. Coins(purchases, Owned(purchases, c)) = {}
    BY <2>2 DEF Coins
  <2>4. 0 = Cent * 0
    BY Thresholds
  <2>5. QED
    BY <2>1, <2>3, <2>4, FS_EmptySet DEF Earned
<1>3. QED
  BY <1>1, <1>2

\* A row added for customer c adds its amount to c's purchases only.
LEMMA EarnedMore ==
  ASSUME NEW p, NEW q, IsFiniteSet(DOMAIN p), IsFiniteSet(Coins(p, DOMAIN p)),
         NEW x, x \notin DOMAIN p, DOMAIN q = DOMAIN p \cup {x},
         \A o \in DOMAIN p : q[o] = p[o], NEW a \in Nat, q[x].amount = Money(a)
  PROVE  /\ IsFiniteSet(DOMAIN q) /\ IsFiniteSet(Coins(q, DOMAIN q))
         /\ \A d : d # q[x].customer => \A r : Earned(p, d, r) => Earned(q, d, r)
         /\ \A r : Earned(p, q[x].customer, r) => Earned(q, q[x].customer, Money(r + a))
<1>0. q[x].amount \in Nat
  BY MoneyType
<1>1. IsFiniteSet(DOMAIN q)
  BY FS_AddElement
<1>2. IsFiniteSet(Coins(q, DOMAIN q))
  <2>1. Coins(q, DOMAIN p) = Coins(p, DOMAIN p)
    BY CoinsOfSameRows
  <2>2. QED
    BY <1>0, <2>1, CoinsOfOneMore
<1>3. ASSUME NEW d, NEW r, d # q[x].customer, Earned(p, d, r) PROVE Earned(q, d, r)
  <2>1. Owned(q, d) = Owned(p, d)
    BY <1>3 DEF Owned
  <2>2. \A o \in Owned(p, d) : q[o] = p[o]
    BY DEF Owned
  <2>3. Coins(q, Owned(q, d)) = Coins(p, Owned(p, d))
    BY <2>1, <2>2, CoinsOfSameRows
  <2>4. QED
    BY <1>3, <2>3 DEF Earned
<1>4. ASSUME NEW r, Earned(p, q[x].customer, r) PROVE Earned(q, q[x].customer, Money(r + a))
  <2>1. PICK c : c = q[x].customer
    OBVIOUS
  <2>2. PICK k \in Nat : r = Cent * k
    BY <1>4 DEF Earned
  <2>3. r \in Nat /\ Money(r + a) = r + Money(a)
    BY <2>2, Thresholds, MoneyOfMore
  <2>4. /\ Owned(q, c) = Owned(p, c) \cup {x} /\ x \notin Owned(p, c)
        /\ Owned(p, c) \in SUBSET DOMAIN p
    BY <2>1 DEF Owned
  <2>5. \A o \in Owned(p, c) : q[o] = p[o]
    BY <2>4
  <2>6. Coins(q, Owned(p, c)) = Coins(p, Owned(p, c)) /\ IsFiniteSet(Coins(p, Owned(p, c)))
    BY <2>4, <2>5, CoinsOfSameRows, CoinsOfSome
  <2>7. Cardinality(Coins(q, Owned(q, c))) = Money(a) + r
    <3>1. r = Cardinality(Coins(p, Owned(p, c)))
      BY <1>4, <2>1 DEF Earned
    <3>2. Cardinality(Coins(q, Owned(p, c) \cup {x})) =
            q[x].amount + Cardinality(Coins(q, Owned(p, c)))
      BY <1>0, <2>4, <2>6, CoinsOfOneMore
    <3>3. QED
      BY <2>4, <2>6, <3>1, <3>2
  <2>8. \E j \in Nat : Money(r + a) = Cent * j
    BY <2>3, MoneyIsWhole
  <2>9. Money(a) + r = Money(r + a)
    BY <2>3, MoneyType
  <2>10. QED
    BY <2>1, <2>7, <2>8, <2>9 DEF Earned
<1>5. QED
  BY <1>1, <1>2, <1>3, <1>4

LEMMA CommitEarns ==
  ASSUME Solo, MoneyInv, NEW w \in Busy, tx[w].pc = "commit", ApplyWrites(w)
  PROVE  Wallets'
<1> DEFINE t == tx[w]
           c == t.customer
           e == t.event
           o == OrderOf(e)
<1>0. BuyerSaves(t) /\ BoughtFirst(t) /\ (Buys(t) => o \notin DOMAIN purchases)
  BY DEF MoneyInv, Solo, BackInv, UniqueOrder
<1>1. CASE ~Saves(t)
  <2>1. profiles' = profiles /\ purchases' = purchases
    BY <1>0, <1>1 DEF ApplyWrites, Saves, Buys, BuyerSaves
  <2>2. QED
    BY <2>1 DEF MoneyInv, Wallets
<1>2. CASE Saves(t)
  <2>1. /\ e \in Event /\ Supported(e) /\ Base(t) \in Profile
        /\ t.profile = UpdateProfileFromEvent(Base(t), e) /\ t.profile \in Profile
        /\ DOMAIN profiles' = DOMAIN profiles \cup {c} /\ profiles'[c] = Row(t.profile)
        /\ \A d \in DOMAIN profiles : d # c => profiles'[d] = profiles[d]
    BY <1>2, SavedRow
  <2>2. PICK r \in Nat : r = Base(t).revenue
    BY <2>1 DEF Profile
  <2>3. Earned(purchases, c, r)
    BY <2>2, BaseEarned DEF MoneyInv
  <2>4. /\ profiles'[c].revenue = Money(t.profile.revenue)
        /\ t.profile.revenue = r + IF TypeOf[e] = "purchase" THEN PurchaseOf[e].amount ELSE 0
    BY <2>1, <2>2, RowFields, UpdateRevenue
  <2>5. CASE TypeOf[e] = "purchase"
    <3>1. Buys(t) /\ o \notin DOMAIN purchases
      BY <1>0, <1>2, <2>5 DEF BoughtFirst
    <3>2. PICK a \in Nat : a = PurchaseOf[e].amount
      BY <2>1, EventFacts
    <3>3. purchases' = Put(purchases, o, [customer |-> c, event |-> e, amount |-> Money(a)])
      BY <3>1, <3>2 DEF ApplyWrites, Buys, OrderOf
    <3>4. /\ DOMAIN purchases' = DOMAIN purchases \cup {o}
          /\ \A x \in DOMAIN purchases : purchases'[x] = purchases[x]
          /\ purchases'[o].customer = c /\ purchases'[o].amount = Money(a)
      BY <3>1, <3>3 DEF Put
    <3>5. /\ IsFiniteSet(DOMAIN purchases') /\ IsFiniteSet(Coins(purchases', DOMAIN purchases'))
          /\ \A d : d # c => \A s : Earned(purchases, d, s) => Earned(purchases', d, s)
          /\ \A s : Earned(purchases, c, s) => Earned(purchases', c, Money(s + a))
      BY <3>1, <3>4, EarnedMore DEF MoneyInv, Wallets
    <3>6. Earned(purchases', c, profiles'[c].revenue)
      BY <2>3, <2>4, <2>5, <3>2, <3>5
    <3>7. \A d \in DOMAIN profiles' : Earned(purchases', d, profiles'[d].revenue)
      BY <2>1, <3>5, <3>6 DEF MoneyInv, Wallets
    <3>8. QED
      BY <3>5, <3>7 DEF Wallets, Earned, Owned, Coins
  <2>6. CASE TypeOf[e] # "purchase"
    <3>1. purchases' = purchases
      BY <1>0, <2>6 DEF ApplyWrites, BuyerSaves, Buys
    <3>2. profiles'[c].revenue = r
      <4>1. t.profile.revenue = r
        BY <2>4, <2>6
      <4>2. PICK k \in Nat : r = Cent * k
        BY <2>3 DEF Earned
      <4>3. Money(Cent * k + 0) = Cent * k + Money(0)
        BY MoneyOfMore
      <4>4. QED
        BY <2>2, <2>4, <4>1, <4>2, <4>3, MoneyOfNothing
    <3>3. \A d \in DOMAIN profiles' : Earned(purchases, d, profiles'[d].revenue)
      BY <2>1, <2>3, <3>2 DEF MoneyInv, Wallets
    <3>4. QED
      BY <3>1, <3>3 DEF MoneyInv, Wallets
  <2>7. QED
    BY <2>5, <2>6
<1>3. QED
  BY <1>1, <1>2

\* Only a commit changes the profiles and the purchases.
LEMMA WhoEarns ==
  ASSUME [Next]_vars
  PROVE  \/ UNCHANGED <<profiles, purchases>>
         \/ \E w \in Busy : tx[w].pc = "commit" /\ ApplyWrites(w)
BY DEF Next, Progress, Failure, Finished, vars, tables, Begin, RecordReceived,
   ResolveKnownProfile, LoadProfile, SelectPurchase, InsertPurchase, EvaluateSegments,
   RaiseTypeError, SaveProfile, SaveLink, Commit, CommitAnswerLost, StatementFails,
   StatementRefused, DeadlockVictim, CollectSession, MarkFailed, MarkFailedFails, Reply, Crash, Tick, At

LEMMA MoneyNext == Solo /\ MoneyInv /\ [Next]_vars => MoneyInv'
<1> SUFFICES ASSUME Solo, MoneyInv, [Next]_vars PROVE MoneyInv'
  OBVIOUS
<1>1. (\A w \in Busy : BuyerSaves(tx[w]))'
  BY BuyersNext DEF MoneyInv
<1>2. CASE UNCHANGED <<profiles, purchases>>
  BY <1>1, <1>2 DEF MoneyInv, Wallets
<1>3. ASSUME NEW w \in Busy, tx[w].pc = "commit", ApplyWrites(w) PROVE MoneyInv'
  BY <1>1, <1>3, CommitEarns DEF MoneyInv
<1>4. QED
  BY <1>2, <1>3, WhoEarns

LEMMA MoneyInit == Init => MoneyInv
<1> SUFFICES ASSUME Init PROVE MoneyInv
  OBVIOUS
<1>1. DOMAIN << >> = {}
  OBVIOUS
<1>2. DOMAIN purchases = {} /\ DOMAIN profiles = {} /\ Busy = {}
  BY <1>1 DEF Init, Busy
<1>3. Coins(purchases, DOMAIN purchases) = {}
  BY <1>2 DEF Coins
<1>4. QED
  BY <1>2, <1>3, FS_EmptySet DEF MoneyInv, Wallets

\* The number of coins is the sum the property speaks of.
LEMMA EarnedIsTotal == TypeOK /\ Wallets => RevenueIsPurchases
<1> SUFFICES ASSUME TypeOK, Wallets, NEW c \in DOMAIN profiles
             PROVE  profiles[c].revenue =
                      MapThenSumSet(LAMBDA o : purchases[o].amount,
                                    {o \in DOMAIN purchases : purchases[o].customer = c})
  BY DEF RevenueIsPurchases
<1> DEFINE S == Owned(purchases, c)
<1>1. S \in SUBSET DOMAIN purchases
  BY DEF Owned
<1>2. IsFiniteSet(S) /\ IsFiniteSet(Coins(purchases, S))
  BY <1>1, FS_Subset, CoinsOfSome DEF Wallets
<1>3. \A o \in S : purchases[o].amount \in Nat
  BY <1>1 DEF TypeOK, PurchaseRow
<1>4. profiles[c].revenue = Total(purchases, S)
  BY <1>2, <1>3, TotalIsCoins DEF Wallets, Earned
<1>5. QED
  BY <1>4 DEF Total, Owned

\* RevenueIsPurchases: total_revenue of a stored profile is the sum of the rows
\* its customer has in processed_purchases: none is counted twice or forgotten,
\* and rounding the sum each time is rounding each amount once.
THEOREM RevenueAddsUp == ASSUME OneWorker PROVE Spec => []RevenueIsPurchases
<1>1. Spec => [](TypeOK /\ StageInv /\ SafeInv /\ BackInv /\ SoloInv)
  BY BackAlways, SoloAlways, PTL
<1>2. TypeOK /\ StageInv /\ OnceInv /\ [Next]_vars => OnceInv'
  BY OnceNext
<1>3. Spec => []OnceInv
  BY <1>1, <1>2, OnceInit, PTL DEF Spec
<1>4. TypeOK /\ StageInv /\ SafeInv /\ OnceInv /\ BackInv /\ SoloInv /\ MoneyInv /\ [Next]_vars
        => MoneyInv'
  BY MoneyNext DEF Solo
<1>5. Spec => []MoneyInv
  BY <1>1, <1>3, <1>4, MoneyInit, PTL DEF Spec
<1>6. TypeOK /\ MoneyInv => RevenueIsPurchases
  BY EarnedIsTotal DEF MoneyInv
<1>7. QED
  BY <1>1, <1>5, <1>6, PTL
=============================================================================
