CONSTANTS
  MaxTroubles = 2
  MaxOthers = 1
  MaxRuns = 2
SPECIFICATION FairSpec
CHECK_DEADLOCK FALSE
VIEW WhatMatters
INVARIANTS TypeOK Accounted
PROPERTIES CallsFiled Progress
