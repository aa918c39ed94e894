\* Two paid top-ups are delivered at once; no call fails.
SPECIFICATION Spec
CONSTANTS
  s1 = s1
  h1 = h1
  h2 = h2
  Senders = {s1}
  Hooks = {h1, h2}
  Nobody = Nobody
  Sold = {"messaging"}
  Subs = {}
  Metered = {}
  Customers = {}
  NoSub = NoSub
  NoCustomer = NoCustomer
  InOrder = FALSE
  Pack = 1
  MaxLinks = 1
  MaxQuantity = 2
  MaxSent = 0
  MaxEvents = 3
  MaxFaults = 0
INVARIANT TopUpsAreCredited
CHECK_DEADLOCK FALSE
