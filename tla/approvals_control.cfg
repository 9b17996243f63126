SPECIFICATION Spec
CONSTANTS
  submit = submit
  delete = delete
  here = here
  there = there
  c1 = c1
  c2 = c2
  c3 = c3
  Action <- OneAction
  NewDomain <- NoSite
  OriginOf <- There
  Caller <- TwoCallers
  MaxGrants = 1
  MaxAsk = 2
  MaxRow = 2
  MaxLife = 2
  Enabled <- NoCrash
SYMMETRY Symmetry
INVARIANTS
  TypeOK
  OneCard
  ConsentIsOfThisPeriod
CONSTRAINT BeforeStop
CHECK_DEADLOCK FALSE
