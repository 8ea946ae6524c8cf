--------------------------- MODULE MCWalletConfig ---------------------------
(* Instances of WalletConfig for TLC. *)
EXTENDS WalletConfig, TLC

CONSTANTS d1, d2, c1, c2, c3, chat, wall, anna

CallSymmetry == Permutations(Calls)
=============================================================================
