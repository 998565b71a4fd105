CONSTANTS
  SHIFT = 2
  Primes = {3, 5, 7, 11}
  Exponents = {3, 7}
  BadD = {1, 4, 5}
  Numbers = {0, 1, 2, 10, 14, 33, 40, 80}
  MaxLevel = 2
  Groups <- TwoGroups
  Messages = {0, 1, 3, 6, 20}
  Ks = {0, 1, 2, 3, 4, 5, 6, 7}
  Ns <- SmallNumbers
  TestSieve = {2}
  Rounds = {0, 1, 3, 6, 9}
  MAX_RABIN_MILLER_ROUNDS = 7
  lower_bound = 11586
  upper_bound = 16383
  Xs = {11586, 12345, 14000, 16000, 16382}
  YBits = 3
  FieldSieve = {2, 3}
  field_size = 3
  Es = {0, 3, 6, 7}
SPECIFICATION MCSpec
INVARIANTS ReturnsToGiven SignatureVerifies TestIsSound PrimeIsStrong
PROPERTIES LoopsEnd
