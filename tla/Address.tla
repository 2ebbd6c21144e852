------------------------------ MODULE Address ------------------------------
(***************************************************************************)
(* The spellings of an address and the two functions that bring them to    *)
(* one form: the one of the pages and providers (voidchain-ui) and the     *)
(* node's (core/State.cpp, router.cpp, TxnPool.cpp).  A spelling is        *)
(* abstracted to what the two look at: blanks around it, a prefix, capital *)
(* letters, and the rest.                                                  *)
(***************************************************************************)
CONSTANTS
  Hex40,   \* strings of 40 hexadecimal digits
  Other    \* any other strings, shorter ones of hexadecimal digits included

Spelling ==
  [space : BOOLEAN, prefix : {"", "0x", "0X"}, upper : BOOLEAN, body : Hex40 \cup Other]

Trimmed(s) == [s EXCEPT !.space = FALSE]

Lowered(s) == [s EXCEPT !.upper = FALSE]

Canonical(body) == [space |-> FALSE, prefix |-> "0x", upper |-> FALSE, body |-> body]

\* Mutant: the prefix is cut off and not put back.
BareNormalizeAddress(s) == [Canonical(s.body) EXCEPT !.prefix = ""]

\* Mutant: a string of hexadecimal digits of any length gets the prefix.
AnyLengthNormalizeAddress(s) == Canonical(s.body)

\* normalizeAddress of the wallet provider, normalizeAddressInput of the pages.
NormalizeAddress(s) ==
  IF s.prefix # "" \/ s.body \in Hex40 THEN Canonical(s.body) ELSE Lowered(Trimmed(s))

\* The node's normalizeAddress: what is no address keeps its capitals.
NodeNormalize(s) ==
  IF s.prefix # "" \/ s.body \in Hex40 THEN Canonical(s.body) ELSE Trimmed(s)

\* The spellings on which nobody's notion of an account depends on capitals:
\* addresses in any spelling, and names in small letters.
Unambiguous(s) == s.prefix # "" \/ s.body \in Hex40 \/ ~s.upper
=============================================================================
