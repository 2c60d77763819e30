CONSTANTS MaxFaults = 1
          MaxQueue = 2
SPECIFICATION FairSpec
INVARIANTS Inv NoSpontaneousReconnect
PROPERTIES JoinsReturn Recovers ZombieDetected
