------------------------------ MODULE ChainLog ------------------------------
(***************************************************************************)
(* What a node promises to those who follow its headers (/headers, the     *)
(* light client, a peer's sync loop): a log of headers that starts at the  *)
(* genesis header, in which work and difficulty follow the rules from one  *)
(* header to the next, and which only ever changes to a longer such log or *)
(* back to the genesis header alone, when the process starts over.         *)
(***************************************************************************)
EXTENDS Integers, Sequences

CONSTANT GenesisHeader

VARIABLE log

Follows(h, g) == h.diff >= 1 /\ h.diff - g.diff \in -1..1 /\ h.nonce >= h.diff

WellFormed(l) ==
  l # <<>> /\ l[1] = GenesisHeader /\ \A i \in 2..Len(l) : Follows(l[i], l[i - 1])

Init == log = <<GenesisHeader>>

Grow == WellFormed(log') /\ Len(log') > Len(log)

Reset == log' = <<GenesisHeader>>

Spec == Init /\ [][Grow \/ Reset]_log
=============================================================================
