SPECIFICATION TryCommitSpec
CONSTANTS
  Ids = {0, 1, 2, 3}
  Genesis = 0
  alice = alice
  bob = bob
  Signers = {alice, bob}
  Headers <- OneHeader
  Nil = Nil
  Algorithm = "fifo"
  MaxRevision = 3
INVARIANTS
  AllDescendRoot
