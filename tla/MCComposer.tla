----------------------------- MODULE MCComposer -----------------------------
EXTENDS Composer, TLC

CONSTANTS text, photos, a, b, general, mod

\* A message of text and one with two files.
MCFilesOf == (text :> {}) @@ (photos :> {a, b})

\* A role that may write where the others may not.
MCPerms == {Send, Administrator}
MCGrants == {{}, {Send}}
MCPlain == [t \in Targets |-> [deny |-> {}, allow |-> {}]]
MCMuted == [MCPlain EXCEPT ![Everyone].deny = {Send}, ![mod].allow = {Send}]
MCOverwrites == {MCPlain, MCMuted}

=============================================================================
