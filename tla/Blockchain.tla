----------------------------- MODULE Blockchain -----------------------------
(***************************************************************************)
(* utils/common/blockchainUtils.ts: the Blockchain class, whose one field  *)
(* is the id of the snapshot its instance took last.  A call gives the     *)
(* instance and the node after it.                                         *)
(*                                                                         *)
(* The development node behind it comes first, as far as the TypeScript    *)
(* code uses it: contracts get the next address of the deployer, a block   *)
(* holds the logs of the transaction that made it, and evm_snapshot /      *)
(* evm_revert save and restore the whole chain.  Snapshot ids are never    *)
(* used again; a revert consumes its snapshot and all later ones, and a    *)
(* revert to an unknown id only answers false.                             *)
(***************************************************************************)
EXTENDS Integers, Sequences

genesis == [contracts |-> <<>>, blocks |-> 0, time |-> 0, logs |-> <<>>]

\* map with value at key.
put(map, key, value) == [k \in DOMAIN map \cup {key} |-> IF k = key THEN value ELSE map[k]]

freshNode == [chain |-> genesis, snapshots |-> <<>>, nextId |-> 1]

\* A transaction that deploys c and emits logs, mined in a block of its own.
evm_deploy(node, c, logs) ==
    [node EXCEPT !.chain.contracts = Append(@, c), !.chain.blocks = @ + 1, !.chain.logs = logs]

evm_mine(node, n) == [node EXCEPT !.chain.blocks = @ + n, !.chain.logs = <<>>]

evm_increaseTime(node, seconds) == [node EXCEPT !.chain.time = @ + seconds]

evm_setNextBlockTimestamp(node, t) == [node EXCEPT !.chain.time = t]

evm_snapshot(node) ==
    [node EXCEPT !.snapshots = put(@, node.nextId, node.chain), !.nextId = @ + 1]

evm_revert(node, id) ==
    IF id \in DOMAIN node.snapshots
    THEN [node EXCEPT !.chain = node.snapshots[id],
                      !.snapshots = [i \in {j \in DOMAIN @ : j < id} |-> @[i]]]
    ELSE node
-----------------------------------------------------------------------------
newBlockchain == [snapshotId |-> 0]

\* What saveSnapshotAsync returns is the new snapshotId.
saveSnapshotAsync(blockchain, node) ==
    [blockchain |-> [snapshotId |-> node.nextId], node |-> evm_snapshot(node)]

revertAsync(blockchain, node) == evm_revert(node, blockchain.snapshotId)

revertByIdAsync(node, id) == evm_revert(node, id)

increaseTimeAsync(node, duration) == evm_increaseTime(node, duration)

setNextBlockTimestamp(node, timestamp) == evm_setNextBlockTimestamp(node, timestamp)

waitBlocksAsync(node, count) == evm_mine(node, count)
=============================================================================
