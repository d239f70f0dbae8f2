------------------------- MODULE MCEventProcessing -------------------------
(***************************************************************************)
(* Small instances of EventProcessing.  The events are model values; each  *)
(* scenario is the subset of them that Event takes in a configuration.     *)
(***************************************************************************)
EXTENDS SingleWorker, LedgerRefinement, TLC

CONSTANTS
  view,    \* first contact by e-mail
  cart,    \* a cart event that brings the phone as well, e-mail repeated
  tract,   \* a cart event with the same identifiers in the other order
  buy,     \* a purchase by phone, its amount finer than the column
  rebuy,   \* another event with the same order and facts
  gift,    \* a purchase by e-mail with an amount the column can hold
  regift,  \* the order of gift once more
  splurge, \* a purchase by e-mail that fits its column, but no sum with it
  local,   \* the order of buy with a time that has no zone
  broken,  \* a purchase whose payload is refused
  visit,   \* first contact by an external id
  meet,    \* an event that names the e-mail and the external id
  bot,     \* an event of an unknown type
  anon,    \* an event with an anonymous id only
  garbled, \* an event with a text the database refuses
  email, phone, external,
  order1, order2, order3,
  Redelivered  \* the events that are delivered twice, the others once

MCTypeOf ==
  [e \in Event |->
     CASE e \in {view, visit, garbled} -> "page_view"
       [] e \in {cart, tract, meet, anon} -> "add_to_cart"
       [] e \in {buy, rebuy, gift, regift, splurge, local, broken} -> "purchase"
       [] e = bot -> "unsupported"]

MCOccurredAt ==
  [e \in Event |->
     CASE e \in {view, regift, tract} -> 2
       [] e \in {cart, buy, anon} -> 1
       [] OTHER -> 3]

MCKnownOf ==
  [e \in Event |->
     CASE e \in {view, gift, regift, splurge, broken, bot, garbled} -> <<email>>
       [] e = cart -> <<email, email, phone>>
       [] e = tract -> <<phone, email>>
       [] e \in {buy, rebuy, local} -> <<phone>>
       [] e = visit -> <<external>>
       [] e = meet -> <<external, email>>
       [] e = anon -> << >>]

MCPurchaseOf ==
  [e \in Event |->
     CASE e \in {buy, rebuy, local} -> [order |-> order1, amount |-> 8, valid |-> TRUE]
       [] e \in {gift, regift} -> [order |-> order2, amount |-> 10, valid |-> TRUE]
       [] e = splurge -> [order |-> order3, amount |-> 15, valid |-> TRUE]
       [] OTHER -> [order |-> order3, amount |-> 0, valid |-> FALSE]]

MCStorable == [e \in Event |-> e # garbled]
MCZoned == [e \in Event |-> e # local]

MCMaxDeliveries == [e \in Event |-> IF e \in Redelivered THEN 2 ELSE 1]

Interchangeable == Permutations(Customer) \cup Permutations(Worker)
=============================================================================
