SPECIFICATION Spec
CONSTANTS
  r1 = r1
  Reviewers <- MCReviewers
  MaxIteration = 2
INVARIANT NoNewerFailure
