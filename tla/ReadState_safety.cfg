CONSTANTS c1 = c1
          c2 = c2
          NoChannel = NoChannel
          Channels = {c1, c2}
          Kinds = {"other", "mention", "own"}
          MaxMessages = 2
          MaxEvents = 2
          MaxReadies = 1
SPECIFICATION Spec
INVARIANTS Inv
PROPERTY CursorMonotone
