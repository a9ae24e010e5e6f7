SPECIFICATION FairSpec
CONSTANTS
  HandOrder <- BothHands
  Sides = {"rh", "head"}
  Goals = {"g1", "g2"}
  Callers = {"gui"}
  Faults = {"crash", "send"}
  MaxFaults = 1
INVARIANTS TypeOK SucceedsLiveGoal NoStraySubscription FilesWhole
PROPERTIES PreemptHonoured SavesWhatItPublishes GoalsEnd
