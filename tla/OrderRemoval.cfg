\* An item is removed, one request at a time.
CONSTANTS
  CustomerIds = {c1, c2}
  OrderIds = {o1}
  ItemIds = {i1, i2}
  Quantities = {1, 2}
  Price <- MCPrice
  MaxItems = 2
  TaxIds = {tax1}
  Passports = {}
  Emails = {mail1}
  Callers = {admin, user, guest}
  Users = {user}
  Admins = {admin}
  OrderRequests = {r1, r2, r3}
  CustomerRequests = {}
  SeedCustomers <- MCSeedCustomers
  NoValue = NoValue
  Operations = {"create", "addItem", "removeItem"}
  MaxConcurrent = 1
  c1 = c1
  c2 = c2
  i1 = i1
  i2 = i2
  admin = admin
  user = user
  tax1 = tax1
  mail1 = mail1
SPECIFICATION OrderSpec
SYMMETRY RequestSymmetry
CHECK_DEADLOCK FALSE
INVARIANT RemovalsSucceed
