SPECIFICATION Spec
CONSTANTS
  view = view
  cart = cart
  tract = tract
  buy = buy
  rebuy = rebuy
  gift = gift
  regift = regift
  splurge = splurge
  local = local
  broken = broken
  visit = visit
  meet = meet
  bot = bot
  anon = anon
  garbled = garbled
  email = email
  phone = phone
  external = external
  order1 = order1
  order2 = order2
  order3 = order3
  Worker = {w1}
  Customer = {c1, c2, c3}
  Event = {view, cart, buy, rebuy}
  Identifier = {email, phone, external}
  Order = {order1, order2, order3}
  NoCustomer = NoCustomer
  TypeOf <- MCTypeOf
  OccurredAt <- MCOccurredAt
  KnownOf <- MCKnownOf
  PurchaseOf <- MCPurchaseOf
  Storable <- MCStorable
  Zoned <- MCZoned
  NewUserWindow = 0
  ActiveUserWindow = 1
  VipRevenueThreshold = 20
  Cent = 5
  MaxMoney = 20
  MaxDeliveries <- MCMaxDeliveries
  Redelivered = {}
  MaxFaults = 0
  MaxNow = 1
INVARIANT RepeatIsNoConflict
