----------------------------- MODULE MCConsole -----------------------------
(***************************************************************************)
(* A small instance of Console: two wallets, two calls at once, a change   *)
(* of the node's data, a lost request or a reload.                         *)
(***************************************************************************)
EXTENDS Console

CONSTANTS a, b, o
=============================================================================
