CONSTANTS text = text
          photos = photos
          a = a
          b = b
          general = general
          mod = mod
          Sends = {text, photos}
          FilesOf <- MCFilesOf
          Channels = {general}
          Roles = {mod}
          Perms <- MCPerms
          Grants <- MCGrants
          Overwrites <- MCOverwrites
          Plain <- MCPlain
          NotYet = NotYet
          Gone = Gone
          Absent = Absent
          Nowhere = Nowhere
          MaxChanges = 2
          MaxWire = 3
          MaxSessions = 1
SPECIFICATION ComposerFairSpec
INVARIANTS Inv PermissionsHold
PROPERTIES CancelIsQuiet SendsEnd
CHECK_DEADLOCK FALSE
