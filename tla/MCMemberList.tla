---------------------------- MODULE MCMemberList ----------------------------
EXTENDS MemberList

CONSTANTS general, voice, staff, x, y, z

\* Two channels that everybody sees, and one of fewer roles.
MCListOf == (general :> "everyone") @@ (voice :> "everyone") @@ (staff :> "roles")

Symm == Permutations(Items) \cup Permutations({general, voice})

=============================================================================
