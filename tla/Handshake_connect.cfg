SPECIFICATION FairSpec
CONSTANTS
  Offers <- MCOffers
  ServerMinors <- MCServerMinors
  Viewers <- MCViewers
INVARIANTS
  Authorised
  Agreement
  InStep
  RefusalTold
PROPERTIES
  Settles
  PromiseKept
CHECK_DEADLOCK FALSE
