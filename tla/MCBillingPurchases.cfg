\* The owner buys a seat and an addon; nothing fails, overlaps or is reordered.
SPECIFICATION Spec
CONSTANTS
  s1 = s1
  h1 = h1
  u1 = u1
  u2 = u2
  k1 = k1
  Senders = {s1}
  Hooks = {h1}
  Nobody = Nobody
  Sold = {"seat", "addon"}
  Subs = {u1, u2}
  Metered = {}
  Customers = {k1}
  NoSub = NoSub
  NoCustomer = NoCustomer
  InOrder = TRUE
  Pack = 1
  MaxLinks = 1
  MaxQuantity = 2
  MaxSent = 0
  MaxEvents = 4
  MaxFaults = 0
INVARIANT PurchasesApply
CHECK_DEADLOCK FALSE
