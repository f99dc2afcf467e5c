---------------------------- MODULE MCDnsCaches ----------------------------
(* Small instances of DnsCaches for TLC. *)
EXTENDS DnsCaches, TLC

\* Addresses of answers are interchangeable.
AnswerSymmetry == Permutations(AnswerId)
=============================================================================
