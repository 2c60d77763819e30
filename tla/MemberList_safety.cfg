CONSTANTS general = general
          voice = voice
          staff = staff
          x = x
          y = y
          z = z
          Channels = {general, voice, staff}
          ListOf <- MCListOf
          Items = {x, y, z}
          MaxRow = 3
          Block = 2
          MaxOps = 2
          MaxLists = 1
          MaxAsked = 1
          MaxLost = 1
          MaxChanges = 2
SYMMETRY Symm
SPECIFICATION MemberSpec
INVARIANTS ListHeld RowsTrue
PROPERTIES ParkedApplied
CHECK_DEADLOCK FALSE
