SPECIFICATION Spec
CONSTANTS
  d1 = d1
  d2 = d2
  d3 = d3
  e1 = e1
  e2 = e2
  e3 = e3
  e4 = e4
  u1 = u1
  u2 = u2
  NULL = NULL
  Detectors <- MCDetectors
  Events <- MCEvents
  Customers <- MCCustomers
  CustomerOf <- MCCustomerOf
  Amount <- MCAmount
  Type <- MCType
  Failed <- MCFailed
INVARIANTS
  TypeOK
  OneCaseUnlessRaced
  CustomersHaveReasons
SYMMETRY DetectorSymmetry
