--------------------------- MODULE MCVoiceManager ---------------------------
EXTENDS VoiceManager, TLC

Symmetry == Permutations(Guilds) \cup Permutations(Rooms)

=============================================================================
