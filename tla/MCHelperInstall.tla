-------------------------- MODULE MCHelperInstall --------------------------
(* Instances of HelperInstall for TLC. *)
EXTENDS HelperInstall, TLC

AnyUser == Permutations(Users)

Both    == {"install", "uninstall"}
Neither == {}
=============================================================================
