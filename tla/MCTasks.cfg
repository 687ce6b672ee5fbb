SPECIFICATION Spec
CONSTANTS
  t1 = t1
  t2 = t2
  t3 = t3
  alice = alice
  bob = bob
  Ids <- MCIds
  Owners <- MCOwners
  Plans <- MCPlans
SYMMETRY OwnersAlike
INVARIANTS
  TypeOK
  ActiveAgrees
  NextIsClaimable
  NoStarvation
PROPERTY ClaimsSurvive
