SPECIFICATION Spec
CONSTANTS
  Ids = {0, 1, 2, 3}
  Genesis = 0
  alice = alice
  bob = bob
  Signers = {alice, bob}
  Headers <- TwoTimes
  Nil = Nil
  Algorithm = "block_time"
  MaxRevision = 3
INVARIANTS
  TypeOK
  HeadIsForkHead
  ForkHeadsLive
  ParentsLive
  RootReachesAll
  DurableRoot
  LongestChain
PROPERTIES
  HeadOnlyImproves
  PersistedAdvances
