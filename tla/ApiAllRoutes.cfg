\* All operations of both services.
CONSTANTS
  CustomerIds = {c1}
  OrderIds = {o1}
  ItemIds = {i1, i2}
  Quantities = {1}
  Price <- MCPrice
  MaxItems = 1
  TaxIds = {tax1, tax2}
  Passports = {}
  Emails = {mail1}
  Callers = {admin}
  Users = {}
  Admins = {admin}
  OrderRequests = {r1, r2, r3}
  CustomerRequests = {k1, k2}
  SeedCustomers <- MCSeedCustomers
  NoValue = NoValue
  Omitted = Omitted
  Operations = {"create", "addItem", "updateItemQuantity", "removeItem", "confirm", "cancel", "delete"}
  MaxConcurrent = 3
  CustomerOperations = {"updateCustomer", "deleteCustomer"}
  c1 = c1
  tax1 = tax1
  mail1 = mail1
SPECIFICATION Spec
SYMMETRY RequestSymmetry
CHECK_DEADLOCK FALSE
INVARIANT OrphansOnlyByOverwrites
