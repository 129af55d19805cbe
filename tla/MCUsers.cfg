\* Two users, two calls at a time.
SPECIFICATION Spec
CONSTANTS
  u1 = u1
  u2 = u2
  n1 = n1
  n2 = n2
  n3 = n3
  n4 = n4
  basket = basket
  h1 = h1
  h2 = h2
  Users <- TwoUsers
  Names <- FourNames
  Sports <- OneSport
  HttpCalls <- TwoHttpCalls
  AllSports = AllSports
  Absent = Absent
  MaxBegun = 4
SYMMETRY UserSymmetry
INVARIANTS
  TypeOK
  StaleNeedsOverlap
  NamesAreUnique
CHECK_DEADLOCK FALSE
