SPECIFICATION BodySpec
CONSTANTS
  Leaves = {x, y}
  Stranger = z
  MaxLeaves = 6
  MaxProof = 3
INVARIANT ProofsVerify
INVARIANT VerifiedIsMember
INVARIANT RootBindsMembers
CHECK_DEADLOCK FALSE
