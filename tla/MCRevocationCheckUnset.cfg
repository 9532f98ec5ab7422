CONSTANTS
  n1 = n1
  k1 = k1
  k2 = k2
  Serial = {n1}
  KeyId = {k1, k2}
  Zero = Zero
  Listing <- MCListing
  Attempt <- MCAttempt
  User = {u1}
  MaxListing = 2
SPECIFICATION Spec
INVARIANT UnsetShortCircuits
CHECK_DEADLOCK FALSE
