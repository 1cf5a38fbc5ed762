CONSTANTS
  Legs = {l1, l2}
  MaxTroubles = 1
SPECIFICATION FairSpec
CHECK_DEADLOCK FALSE
INVARIANTS TypeOK EntryGoneFirst BlockedSentNothing SucceededIsTrue
PROPERTIES EndedIsSilent CallsFiled BatchEnds
