CONSTANTS Threads <- ThreeThreads
          MaxPending = 2
          MaxTimers = 2
          MaxRequests = 2
SPECIFICATION ForumFairSpec
INVARIANTS MarkersTrue
PROPERTIES ParkedKept Served
