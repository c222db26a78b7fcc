----------------------------- MODULE MCNamespace ------------------------------
(***************************************************************************)
(* Namespace for TLC.  No handler treats one name differently from another *)
(* ("<a" is not in Names), so states are told apart up to renaming.        *)
(***************************************************************************)
EXTENDS Namespace, TLC

NameSymmetry == Permutations(Names)
=============================================================================
