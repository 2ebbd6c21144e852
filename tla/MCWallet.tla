------------------------------ MODULE MCWallet ------------------------------
(***************************************************************************)
(* A small instance of Wallet: two tabs, two flows at once, two keys.      *)
(***************************************************************************)
EXTENDS Wallet

CONSTANTS k1, k2
=============================================================================
