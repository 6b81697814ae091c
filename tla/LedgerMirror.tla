---------------------------- MODULE LedgerMirror ----------------------------
(***************************************************************************)
(* What the Fabric sync engine promises to whoever reads its database and  *)
(* its notifications, for one channel.  A block becomes visible in the     *)
(* database at once, with all its transactions, and stays; it is announced *)
(* to the browsers at most once, and only after it has become visible.     *)
(***************************************************************************)
EXTENDS Naturals

CONSTANTS Blocks,    \* block numbers of the channel, 0 is the genesis block
          Contents   \* Contents[b]: the set of transaction ids of block b

VARIABLES height,    \* the ledger holds the blocks below height
          mirrored,  \* <<b, txids>>: a block row with the transactions stored for it
          announced  \* blocks the clients were told about

vars == <<height, mirrored, announced>>

Init ==
  /\ height = 1
  /\ mirrored = {}
  /\ announced = {}

(* The ledger, outside Explorer, commits one more block. *)
Commit ==
  /\ height \in Blocks
  /\ height' = height + 1
  /\ UNCHANGED <<mirrored, announced>>

(* A committed block becomes visible, complete, for the first time. *)
Mirror(b) ==
  /\ b < height
  /\ \A m \in mirrored : m[1] # b
  /\ mirrored' = mirrored \cup {<<b, Contents[b]>>}
  /\ UNCHANGED <<height, announced>>

(* A visible block is announced, once. *)
Announce(b) ==
  /\ b \notin announced
  /\ \E m \in mirrored : m[1] = b
  /\ announced' = announced \cup {b}
  /\ UNCHANGED <<height, mirrored>>

Next ==
  \/ Commit
  \/ \E b \in Blocks : Mirror(b) \/ Announce(b)

Spec == Init /\ [][Next]_vars
=============================================================================
