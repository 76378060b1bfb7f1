SPECIFICATION FairSpec
CONSTANTS
  s1 = s1
  s2 = s2
  s3 = s3
  Sessions <- Three
  Setups <- Unplugging
CHECK_DEADLOCK FALSE
PROPERTY TearDownEnds
