SPECIFICATION CarefulSpec
CONSTANTS
  Ids = {0, 1, 2, 3, 4}
  Genesis = 0
  alice = alice
  bob = bob
  Signers = {alice, bob}
  Headers <- TwoTimes
  Nil = Nil
  Algorithm = "block_time"
  MaxRevision = 3
INVARIANTS
  OneTree
  ForkHeadsAreTips
  LeafIsForkHead
  WalkFindsRevision

