------------------------------- MODULE State -------------------------------
(***************************************************************************)
(* The account and asset rules of a voidchain node (core/State.cpp), with  *)
(* the format and signature test of TxnPool.cpp that they call.            *)
(*                                                                         *)
(* A transaction is a record.  The cryptography is abstracted to one       *)
(* field: "signer" is the normalized address derived from senderPubKey     *)
(* when the signature verifies over the transaction's content, and NoAddr  *)
(* when the key or the signature is missing, malformed or wrong.  Amounts  *)
(* are integers; Eps is the slack kFloatEpsilon in the same unit.          *)
(***************************************************************************)
EXTENDS Integers, SequencesExt

CONSTANTS
  Raw,        \* spellings of an address, as "from" and "to" carry them
  Addr,       \* normalized addresses, the empty one excluded
  NoAddr,     \* the empty string, as a normalized address
  NoRaw,      \* the empty string, as a spelling
  Norm,       \* normalizeAddress, a function of the spelling
  Coinbase,   \* the spelling "COINBASE"
  Item,       \* item identifiers, the empty one included
  NoItem,     \* the empty item identifier
  Unowned,    \* "not a key of ownerByAsset"
  TxnId,      \* transaction identifiers, numbered in their order as strings
  NoId,       \* the empty transaction identifier
  Reward,     \* MINING_REWARD
  Eps,        \* kFloatEpsilon
  Txn         \* every transaction the wire may carry

Holder == Addr \cup {NoAddr}

TxnRecord == [id : TxnId, kind : {"CURRENCY", "ASSET"}, from : Raw, to : Raw,
              amount : Int, item : Item, signer : Holder]

ASSUME AddressAssumption ==
  /\ NoAddr \notin Addr /\ Unowned \notin Holder
  /\ {NoRaw, Coinbase} \subseteq Raw /\ NoRaw # Coinbase
  /\ Norm \in [Raw -> Holder] /\ Norm[NoRaw] = NoAddr
  /\ Norm[Coinbase] \in Addr

ASSUME TxnAssumption ==
  /\ NoItem \in Item /\ NoId \in TxnId /\ TxnId \subseteq Int
  /\ Txn \subseteq TxnRecord

ASSUME AmountAssumption == Reward \in Nat /\ Eps \in Nat /\ Eps < Reward

-----------------------------------------------------------------------------
(* The derived state: balances, ownerByAsset and assetsByOwner, with "ok"   *)
(* for the StateValidationResult of the derivation so far.                 *)

DerivedState == [ok : BOOLEAN, bal : [Addr -> Int],
                 owner : [Item -> Addr \cup {Unowned}],
                 assets : [Addr -> SUBSET Item]]

Fresh == [ok |-> TRUE, bal |-> [a \in Addr |-> 0],
          owner |-> [i \in Item |-> Unowned], assets |-> [a \in Addr |-> {}]]

\* Mutant: the address of the key is not compared with the sender.
AnySignerVerified(t) ==
  /\ t.id # NoId
  /\ IF t.from = Coinbase
       THEN t.kind = "CURRENCY" /\ t.to # NoRaw /\ t.amount > 0
       ELSE t.signer # NoAddr

\* TxnPool::verifyTxnSignatureAndFormat.
Verified(t) ==
  /\ t.id # NoId
  /\ IF t.from = Coinbase
       THEN t.kind = "CURRENCY" /\ t.to # NoRaw /\ t.amount > 0
       ELSE t.signer # NoAddr /\ t.signer = Norm[t.from]

IsReward(t) == t.kind = "CURRENCY" /\ t.from = Coinbase

\* The tests of State::applyTxn, by kind of transaction.
RewardApplies(t) == Norm[t.to] # NoAddr /\ t.amount \in (Reward - Eps)..(Reward + Eps)
                    /\ t.amount > 0

\* Mutant: the amount may be negative.
AnyAmountApplies(t, s) ==
  /\ Norm[t.to] # NoAddr /\ Norm[t.from] # NoAddr
  /\ s.bal[Norm[t.from]] + Eps >= t.amount

PaymentApplies(t, s) ==
  /\ Norm[t.to] # NoAddr /\ t.amount > 0
  /\ Norm[t.from] # NoAddr
  /\ s.bal[Norm[t.from]] + Eps >= t.amount

AssetApplies(t, s) ==
  /\ Norm[t.from] # NoAddr /\ Norm[t.to] # NoAddr /\ t.item # NoItem
  /\ \/ s.owner[t.item] = Unowned /\ Norm[t.from] = Norm[t.to]
     \/ s.owner[t.item] = Norm[t.from]

Applies(t, s) ==
  \/ IsReward(t) /\ RewardApplies(t)
  \/ t.kind = "CURRENCY" /\ ~IsReward(t) /\ PaymentApplies(t, s)
  \/ t.kind = "ASSET" /\ AssetApplies(t, s)

\* The assignments of State::applyTxn, in the order of the code: the debit
\* is stored before the credit reads the recipient's balance, and the item
\* leaves the sender's set before it enters the recipient's.
Credit(bal, a, n) == [bal EXCEPT ![a] = @ + n]

\* Mutant: the credit starts from the balance before the debit.
StaleDebited(t, s) ==
  IF Norm[t.from] = Norm[t.to] THEN s.bal
  ELSE [s.bal EXCEPT ![Norm[t.from]] = @ - t.amount]

Debited(t, s) == [s.bal EXCEPT ![Norm[t.from]] = @ - t.amount]

\* Mutant: the item enters the recipient's set before it leaves the sender's.
InsertFirstReindexed(t, s) ==
  LET entered == [s.assets EXCEPT ![Norm[t.to]] = @ \cup {t.item}]
  IN  IF s.owner[t.item] = Unowned THEN entered
      ELSE [entered EXCEPT ![Norm[t.from]] = @ \ {t.item}]

Reindexed(t, s) ==
  LET left == IF s.owner[t.item] = Unowned THEN s.assets
              ELSE [s.assets EXCEPT ![Norm[t.from]] = @ \ {t.item}]
  IN  [left EXCEPT ![Norm[t.to]] = @ \cup {t.item}]

\* Mutant: the new owner is stored as the transaction spells it.
RawOwnerEffect(t, s) ==
  CASE IsReward(t) -> [s EXCEPT !.bal = Credit(@, Norm[t.to], t.amount)]
    [] t.kind = "CURRENCY" /\ ~IsReward(t) ->
         [s EXCEPT !.bal = Credit(Debited(t, s), Norm[t.to], t.amount)]
    [] t.kind = "ASSET" -> [s EXCEPT !.owner[t.item] = t.to,
                                     !.assets = Reindexed(t, s)]

Effect(t, s) ==
  CASE IsReward(t) -> [s EXCEPT !.bal = Credit(@, Norm[t.to], t.amount)]
    [] t.kind = "CURRENCY" /\ ~IsReward(t) ->
         [s EXCEPT !.bal = Credit(Debited(t, s), Norm[t.to], t.amount)]
    [] t.kind = "ASSET" -> [s EXCEPT !.owner[t.item] = Norm[t.to],
                                     !.assets = Reindexed(t, s)]

-----------------------------------------------------------------------------
(* Derivation over blocks.  A body is the transaction list of one block.    *)
(* The two derivation loops verify a transaction, count it if it is a       *)
(* coinbase and apply it; they fail at the first test that fails, so they   *)
(* succeed when every transaction is verified, every body rewards once at   *)
(* most, and every transaction applies in turn.                            *)

\* The coinbase counter counts by "from" alone.
Coinbases(body) == Cardinality({k \in DOMAIN body : body[k].from = Coinbase})

Authentic(body) ==
  /\ \A k \in DOMAIN body : Verified(body[k])
  /\ Coinbases(body) <= 1

Step(s, t) == IF s.ok /\ Applies(t, s) THEN Effect(t, s) ELSE [s EXCEPT !.ok = FALSE]

\* Mutant: the result of one block overwrites that of the blocks before it.
LastResultApplyBody(s, body) == FoldLeft(Step, [s EXCEPT !.ok = TRUE], body)

ApplyBody(s, body) == FoldLeft(Step, s, body)

\* The state after the blocks of a chain; the genesis block is skipped.
Derive(chain) == FoldLeft(LAMBDA s, b : ApplyBody(s, b.txns), Fresh, Tail(chain))

\* State::deriveFromChain succeeds; State::validateFullChain.
Derivable(chain) ==
  /\ chain # <<>>
  /\ \A i \in 2..Len(chain) : Authentic(chain[i].txns)
  /\ Derive(chain).ok

\* Mutant: a block's transactions are not authenticated.
UnauthenticAppendValid(block, chain) ==
  Derivable(chain) /\ ApplyBody(Derive(chain), block.txns).ok

\* Mutant: a block's transactions are not applied.
UnappliedAppendValid(block, chain) == Derivable(chain) /\ Authentic(block.txns)

\* State::validateBlockAppend.
AppendValid(block, chain) ==
  /\ Derivable(chain)
  /\ Authentic(block.txns)
  /\ ApplyBody(Derive(chain), block.txns).ok

-----------------------------------------------------------------------------
(* State::validatePoolAdmission: the candidate against the chain's state,   *)
(* less what the same sender already has pending (a sequence, in the       *)
(* order of TxnPool::getTxn).                                              *)

Outflow(p, a) ==
  IF p.kind = "CURRENCY" /\ p.from # Coinbase /\ Norm[p.from] = a /\ p.amount > 0
    THEN p.amount ELSE 0

PendingOutflow(pending, a) ==
  FoldLeft(LAMBDA n, p : n + Outflow(p, a), 0, pending)

\* effectiveOwner: only pending transfers of items that already have an owner
\* are followed; a pending claim of an unowned item leaves it unowned.
EffectiveOwner(owner, pending) ==
  FoldLeft(LAMBDA o, p :
             IF p.kind = "ASSET" /\ o[p.item] # Unowned /\ o[p.item] = Norm[p.from]
               THEN [o EXCEPT ![p.item] = Norm[p.to]] ELSE o,
           owner, pending)

\* Mutant: pending payments of the same sender are not counted.
ConfirmedAffordsPayment(t, s, pending) == s.bal[Norm[t.from]] + Eps >= t.amount

AffordsPayment(t, s, pending) ==
  s.bal[Norm[t.from]] - PendingOutflow(pending, Norm[t.from]) + Eps >= t.amount

\* Mutant: an unowned item may be claimed for somebody else.
AnyClaimMayMoveItem(t, s, pending) ==
  EffectiveOwner(s.owner, pending)[t.item] \in {Unowned, Norm[t.from]}

MayMoveItem(t, s, pending) ==
  LET holder == EffectiveOwner(s.owner, pending)[t.item]
  IN  \/ holder = Unowned /\ Norm[t.from] = Norm[t.to]
      \/ holder = Norm[t.from]

PoolAdmission(t, chain, pending) ==
  /\ Verified(t) /\ t.from # Coinbase
  /\ Derivable(chain)
  /\ IF t.kind = "CURRENCY" THEN AffordsPayment(t, Derive(chain), pending)
     ELSE MayMoveItem(t, Derive(chain), pending)
=============================================================================
