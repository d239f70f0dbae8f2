---------------------------- MODULE ProfileRules ----------------------------
(***************************************************************************)
(* The pure rules of domain/rules.py and the merge the profile table makes *)
(* when a row is saved (repository/customer_profile.py).  An event is a    *)
(* constant whose attributes are the functions below; a profile keeps the  *)
(* counters and timestamps of CustomerProfile, and recent_events as a bag: *)
(* how often each event is in the list.                                    *)
(*                                                                         *)
(* Times are positive naturals, Never stands for a null last_purchase_at.  *)
(* Amounts are naturals in a unit of which one hundredth of a rouble, the  *)
(* precision of a numeric(18,2) column, holds Cent.                        *)
(*                                                                         *)
(* An operator whose name starts with Faulty is the one below it with a    *)
(* mistake: a property is shown to notice the mistake when it is put in.   *)
(***************************************************************************)
EXTENDS Integers, FiniteSets

CONSTANTS
  Event,              \* event ids
  Identifier,         \* (identifier_type, value) pairs
  Order,              \* (source, order_id) pairs
  TypeOf,             \* the type of each event
  OccurredAt,         \* its occurred_at
  KnownOf,            \* its known identifiers, a sequence as the message lists them
  PurchaseOf,         \* the payload of a purchase
  Storable,           \* whether the columns of raw_events can hold its texts
  Zoned,              \* whether its occurred_at has a time zone
  NewUserWindow,      \* NEW_USER_WINDOW
  ActiveUserWindow,   \* ACTIVE_USER_WINDOW
  VipRevenueThreshold,\* VIP_REVENUE_THRESHOLD
  Cent,               \* units of amount in one stored hundredth
  MaxMoney            \* the largest amount a numeric(18,2) column can hold

EventType == {"page_view", "add_to_cart", "purchase"}
Payload == [order: Order, amount: Nat, valid: BOOLEAN]

ASSUME EventAttributes ==
  /\ TypeOf \in [Event -> EventType \cup {"unsupported"}]
  /\ OccurredAt \in [Event -> Nat \ {0}]
  /\ PurchaseOf \in [Event -> Payload]
  /\ Storable \in [Event -> BOOLEAN]
  /\ Zoned \in [Event -> BOOLEAN]
  /\ \A e \in Event : \A n \in DOMAIN KnownOf[e] : KnownOf[e][n] \in Identifier

ASSUME Thresholds ==
  /\ NewUserWindow \in Nat
  /\ ActiveUserWindow \in Nat
  /\ VipRevenueThreshold \in Nat
  /\ Cent \in Nat \ {0}
  /\ MaxMoney \in Nat

Never == 0
Segment == {"new_user", "active", "vip"}

Profile ==
  [firstSeen: Nat, lastSeen: Nat, lastPurchase: Nat,
   events: Nat, pageViews: Nat, cartAdds: Nat, orders: Nat, revenue: Nat,
   recent: [Event -> Nat]]

Earlier(s, t) == IF s <= t THEN s ELSE t
Later(s, t) == IF s <= t THEN t ELSE s
OneIf(b) == IF b THEN 1 ELSE 0

\* The identifiers of an event without repetition.
KnownIdentifiers(e) == {KnownOf[e][n] : n \in DOMAIN KnownOf[e]}

\* Identifier i comes first in its event no later than j does.
Precedes(e, i, j) ==
  \A n \in DOMAIN KnownOf[e] :
    KnownOf[e][n] = j => \E m \in DOMAIN KnownOf[e] : m <= n /\ KnownOf[e][m] = i

\* An amount as a numeric(18,2) column keeps it: rounded half up.
Money(a) == Cent * ((2 * a + Cent) \div (2 * Cent))

\* The profile _resolve_profile builds for a customer it sees for the first time.
NewProfile(e) ==
  [firstSeen |-> OccurredAt[e], lastSeen |-> OccurredAt[e], lastPurchase |-> Never,
   events |-> 0, pageViews |-> 0, cartAdds |-> 0, orders |-> 0, revenue |-> 0,
   recent |-> [f \in Event |-> 0]]

\* A late event does not extend the time the customer was seen.
FaultyUpdateProfileFromEvent(p, e) ==
  LET bought == TypeOf[e] = "purchase" IN
  [p EXCEPT !.lastSeen = Later(@, OccurredAt[e]),
            !.lastPurchase = IF bought THEN Later(@, OccurredAt[e]) ELSE @,
            !.events = @ + 1,
            !.pageViews = @ + OneIf(TypeOf[e] = "page_view"),
            !.cartAdds = @ + OneIf(TypeOf[e] = "add_to_cart"),
            !.orders = @ + OneIf(bought),
            !.revenue = @ + IF bought THEN PurchaseOf[e].amount ELSE 0,
            !.recent[e] = @ + 1]

UpdateProfileFromEvent(p, e) ==
  LET bought == TypeOf[e] = "purchase" IN
  IF TypeOf[e] = "unsupported" \/ KnownIdentifiers(e) = {}
  THEN p
  ELSE [firstSeen    |-> Earlier(p.firstSeen, OccurredAt[e]),
        lastSeen     |-> Later(p.lastSeen, OccurredAt[e]),
        lastPurchase |-> IF bought THEN Later(p.lastPurchase, OccurredAt[e])
                                   ELSE p.lastPurchase,
        events       |-> p.events + 1,
        pageViews    |-> p.pageViews + OneIf(TypeOf[e] = "page_view"),
        cartAdds     |-> p.cartAdds + OneIf(TypeOf[e] = "add_to_cart"),
        orders       |-> p.orders + OneIf(bought),
        revenue      |-> p.revenue + IF bought THEN PurchaseOf[e].amount ELSE 0,
        recent       |-> [p.recent EXCEPT ![e] = @ + 1]]

WithinLast(value, now, window) == now - window <= value /\ value <= now

EvaluateStaticSegments(p, now) ==
  {s \in Segment :
     \/ s = "new_user" /\ p.orders = 0 /\ WithinLast(p.firstSeen, now, NewUserWindow)
     \/ s = "active" /\ p.events >= 3 /\ WithinLast(p.lastSeen, now, ActiveUserWindow)
     \/ s = "vip" /\ (p.revenue >= VipRevenueThreshold \/ p.orders >= 3)}

\* A column without the precision of the amounts.
FaultyRow(p) == p

\* The row an insert into customer_profiles makes of a profile.
Row(p) == [p EXCEPT !.revenue = Money(@)]

\* Every column is overwritten.
FaultyMergedRow(stored, p) == Row(p)

\* The row ON CONFLICT DO UPDATE leaves: the timestamps are merged with the
\* stored ones, everything else is overwritten.
MergedRow(stored, p) ==
  [Row(p) EXCEPT
     !.firstSeen    = Earlier(stored.firstSeen, @),
     !.lastSeen     = Later(stored.lastSeen, @),
     !.lastPurchase = IF @ = Never THEN stored.lastPurchase
                                   ELSE Later(stored.lastPurchase, @)]
=============================================================================
