CONSTANTS r1 = r1
          x = x
          Requests = {r1, x}
          External = {x}
          MaxRetries = 3
          MaxCaptchas = 3
SPECIFICATION FairSpec
INVARIANTS Inv
PROPERTIES ImplementsContract EventuallyAnswered DestroyReturns
