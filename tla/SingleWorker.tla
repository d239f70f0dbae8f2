---------------------------- MODULE SingleWorker ----------------------------
(***************************************************************************)
(* What event processing promises beyond EventProcessing's own properties  *)
(* when one worker runs, as docker-compose.yml deploys it: the worker may  *)
(* crash, commits may be lost, events may come again, but no two units of  *)
(* work overlap.                                                           *)
(***************************************************************************)
EXTENDS EventProcessing, FiniteSetsExt

\* The events of a profile, from which all the rest of it is recomputed below.
History(c) == {e \in Event : Applied(e, c)}
OfType(c, type) == {e \in History(c) : TypeOf[e] = type}
Times(S) == {OccurredAt[e] : e \in S}

\* A stored profile is the summary of its events, in whatever order they came:
\* first and last times are the extremes and the counters count.
ProfileIsItsHistory ==
  \A c \in DOMAIN profiles :
    LET p == profiles[c]
    IN /\ p.firstSeen = Min(Times(History(c)))
       /\ p.lastSeen = Max(Times(History(c)))
       /\ p.lastPurchase = Max({Never} \cup Times(OfType(c, "purchase")))
       /\ p.events = Cardinality(History(c))
       /\ p.pageViews = Cardinality(OfType(c, "page_view"))
       /\ p.cartAdds = Cardinality(OfType(c, "add_to_cart"))
       /\ p.orders = Cardinality(OfType(c, "purchase"))

\* total_revenue is the sum of the customer's rows in processed_purchases, to
\* the hundredth both columns keep.
RevenueIsPurchases ==
  \A c \in DOMAIN profiles :
    profiles[c].revenue =
      MapThenSumSet(LAMBDA o : purchases[o].amount,
                    {o \in DOMAIN purchases : purchases[o].customer = c})

\* An event reported processed is in a profile, unless another event already
\* brought its order: no update overwrites another one.
ProcessedIsApplied ==
  \A e \in DOMAIN rawEvents :
    rawEvents[e] = "processed" =>
      \/ \E c \in DOMAIN profiles : Applied(e, c)
      \/ /\ TypeOf[e] = "purchase"
         /\ PurchaseOf[e].order \in DOMAIN purchases
         /\ purchases[PurchaseOf[e].order].event # e

\* Identity resolution: all identifiers of an event in a profile lead to the
\* customer of that profile.
IdentifiersUnified ==
  \A e \in Event : \A c \in DOMAIN profiles :
    Applied(e, c) => \A i \in KnownIdentifiers(e) : i \in DOMAIN links /\ links[i] = c

\* The stored memberships are what the rules say of the stored profile at some
\* time up to now.  The rules saw the revenue before the column rounded it, so
\* that part is known only to the hundredth.
MembershipsFitProfile ==
  \A c \in DOMAIN profiles :
    \E t \in 1 .. now : \E r \in 0 .. profiles[c].revenue + Cent :
      /\ Money(r) = profiles[c].revenue
      /\ memberships[c] = EvaluateStaticSegments([profiles[c] EXCEPT !.revenue = r], t)
=============================================================================
