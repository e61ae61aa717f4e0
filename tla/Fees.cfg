CONSTANTS
  i1 = i1  i2 = i2  i3 = i3  k1 = k1  k2 = k2  r1 = r1
  Slots = {i1, i2, i3}
  Calls = {k1, k2}
  Uses <- UsesChecked
  Refs = {r1}
  NoSlot = NoSlot  NoRef = NoRef
  TotalFee = 1
  Months = {"jan"}
  MaxNo = 2
  c1 = c1  c2 = c2  x1 = x1  x2 = x2  e1 = e1  e2 = e2  v1 = v1  t1 = t1  t2 = t2
  Clerks = {c1, c2}
  BookUses <- BooksChecked
  Expenses = {x1, x2}
  Templates = {t1, t2}
  Vendors = {v1}
  Funds = {f1}
  Grants = {g1}
  Permits = {q1}
  Staffers = {e1, e2}
  LastDate = 2
  MaxAmount = 2
  Nobody = Nobody  NoVendor = NoVendor  NoTemplate = NoTemplate  NoSlip = NoSlip
CHECK_DEADLOCK FALSE
SPECIFICATION FinanceSpec
SYMMETRY Symmetric
INVARIANTS TypeOK UsedOnce BooksAgree
PROPERTIES ImplementsLedger MoneyKept ApprovalsCount BooksStand
