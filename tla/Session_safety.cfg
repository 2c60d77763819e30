CONSTANTS a1 = a1
          a2 = a2
          i1 = i1
          i2 = i2
          i3 = i3
          Nobody = Nobody
          Accounts = {a1, a2}
          Instances = {i1, i2, i3}
          MaxMail = 2
SPECIFICATION SessionSpec
INVARIANTS OneAndClosed
PROPERTY KeptUntilItsEnd
SYMMETRY Symmetry
