--------------------------- MODULE MCBlockSync ----------------------------
(* Ledgers on which TLC checks BlockSync. *)
EXTENDS BlockSync, TLC

CONSTANTS g, d1, i1, l1, l2

\* The genesis block, then one block with two invocations under the same transaction id
\* (the second of them is in the block as DUPLICATE_TXID) and a deployment.
ShortLedger == (0 :> <<g>>) @@ (1 :> <<i1, i1, d1>>)
MCTxs == {g, d1, i1}

\* The genesis block and two small blocks.
LongLedger == (0 :> <<g>>) @@ (1 :> <<d1>>) @@ (2 :> <<i1>>)

\* The genesis block and a block whose second transaction deploys a chaincode.
DeployLedger == (0 :> <<g>>) @@ (1 :> <<i1, d1>>)

ListenerSymmetry == Permutations({l1, l2})
=============================================================================
