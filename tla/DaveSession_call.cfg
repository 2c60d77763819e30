CONSTANTS Users = {u1, u2}
          Ssrcs = {s1, s2}
          Nobody = Nobody
          NoDec = NoDec
          Unkeyed = Unkeyed
          MaxEpoch = 3
SPECIFICATION DaveSpec
INVARIANTS MembersTrue EnabledKeyed SpeakersKeyed
