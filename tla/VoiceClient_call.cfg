CONSTANTS MaxAttempts = 3
          MaxFaults = 3
          MaxQueue = 3
SPECIFICATION FairSpec
INVARIANTS Inv KeyCurrent
PROPERTIES LossSettled
