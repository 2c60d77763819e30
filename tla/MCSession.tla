----------------------------- MODULE MCSession -----------------------------
(* Session for TLC: accounts and instances are interchangeable.            *)
EXTENDS Session, TLC

Symmetry == Permutations(Accounts) \cup Permutations(Instances)
=============================================================================
