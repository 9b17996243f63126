SPECIFICATION Spec
CONSTANTS
  submit = submit
  delete = delete
  here = here
  there = there
  c1 = c1
  c2 = c2
  c3 = c3
  Action <- TwoActions
  NewDomain <- OneSite
  OriginOf <- TwoSites
  Caller <- ThreeCallers
  MaxGrants = 1
  MaxAsk = 2
  MaxRow = 0
  MaxLife = 2
  Enabled <- CrashAlone
SYMMETRY Symmetry
INVARIANTS
  EveryEffectWasAllowed
  GrantsWereGiven
  RecordIsTheAnswer
  ConsentInv
  OnceBuysOneCall
PROPERTIES
  NothingStartsAfterStop
CHECK_DEADLOCK FALSE
