CONSTANTS Limit = 2
          ViewCap = 2
          OrderCap = 3
          DiskCap = 2
          MaxMessages = 3
          MaxDeletes = 1
          MaxEvents = 1
          MaxFetches = 2
          MaxLosses = 1
SPECIFICATION Spec
INVARIANTS Inv EndIsProven
PROPERTY TombstonesStay
