SPECIFICATION CarefulSpec
CONSTANTS
  Ids = {0, 1, 2, 3, 4}
  Genesis = 0
  alice = alice
  bob = bob
  Signers = {alice, bob}
  Headers <- TwoSigners
  Nil = Nil
  Algorithm = "pob"
  MaxRevision = 2
PROPERTIES
  RetreatNeedsDoubleProduction
INVARIANTS
  HeadIsForkHead
  ForkHeadsLive
  CallsComplete
