CONSTANTS g1 = g1
          g2 = g2
          r1 = r1
          r2 = r2
          u = u
          Guilds = {g1, g2}
          Rooms = {r1, r2}
          Users = {u}
          Nowhere = Nowhere
          None = None
          MaxTokens = 3
          MaxMoves = 3
          MaxMutes = 1
          MaxSignals = 2
SYMMETRY Symmetry
SPECIFICATION Spec
INVARIANTS Inv ParticipantsTrue MicFollowsMute
PROPERTY NoStrayTeardown
CHECK_DEADLOCK FALSE
