\* Creation and deletion race on the row of a customer; no save of an order.
CONSTANTS
  CustomerIds = {c1}
  OrderIds = {o1, o2}
  ItemIds = {i1}
  Quantities = {1}
  Price <- MCPrice
  MaxItems = 1
  TaxIds = {tax1, tax2}
  Passports = {}
  Emails = {mail1}
  Callers = {admin}
  Users = {}
  Admins = {admin}
  OrderRequests = {r1, r2}
  CustomerRequests = {k1, k2}
  SeedCustomers <- MCSeedCustomers
  NoValue = NoValue
  Omitted = Omitted
  Operations = {"create", "delete"}
  MaxConcurrent = 2
  CustomerOperations = {"updateCustomer", "deleteCustomer"}
  c1 = c1
  tax1 = tax1
  mail1 = mail1
SPECIFICATION Spec
CHECK_DEADLOCK FALSE
INVARIANT DeletionsAreSafe
INVARIANT NoActiveOrderOfDeletedCustomer
PROPERTY RequestsEnd
