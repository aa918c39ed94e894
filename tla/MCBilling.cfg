\* One sender beside two webhook deliveries, with faults and a repeated event.
SPECIFICATION FairSpec
CONSTANTS
  s1 = s1
  h1 = h1
  h2 = h2
  u1 = u1
  k1 = k1
  Senders = {s1}
  Hooks = {h1, h2}
  Nobody = Nobody
  Sold = {"seat", "messaging"}
  Subs = {u1}
  Metered = {u1}
  Customers = {k1}
  NoSub = NoSub
  NoCustomer = NoCustomer
  InOrder = FALSE
  Pack = 1
  MaxLinks = 1
  MaxQuantity = 2
  MaxSent = 2
  MaxEvents = 3
  MaxFaults = 1
INVARIANTS TypeOK UsageWithinBounds MeteredWithinSent
PROPERTIES MeteredByCurrentBalance SendsKeepGrants EventsAnswered
CHECK_DEADLOCK FALSE
