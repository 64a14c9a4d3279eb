\* Two PUTs in flight.
CONSTANTS
  CustomerIds = {c1, c2, c3}
  OrderIds = {}
  ItemIds = {}
  Quantities = {}
  Price <- MCPrice
  MaxItems = 2
  TaxIds = {tax1, tax2}
  Passports = {pass1}
  Emails = {mail1}
  Callers = {}
  Users = {}
  Admins = {}
  OrderRequests = {}
  CustomerRequests = {k1, k2, k3}
  SeedCustomers <- MCSeedCustomers
  NoValue = NoValue
  Omitted = Omitted
  CustomerOperations = {"createCustomer", "updateCustomer", "deleteCustomer"}
  c1 = c1
  c2 = c2
  c3 = c3
  tax1 = tax1
  pass1 = pass1
  mail1 = mail1
SPECIFICATION CustomerSpec
SYMMETRY RequestSymmetry
CHECK_DEADLOCK FALSE
PROPERTY UpdatesDoNotOverwrite
