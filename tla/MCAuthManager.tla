---------------------------- MODULE MCAuthManager ----------------------------
(* Small instances of AuthManager for TLC. *)
EXTENDS AuthManager, TLC

\* Token pairs are interchangeable.
Symmetry == Permutations(Token)

=============================================================================
