-------------------------- MODULE MCParallelSweep --------------------------
(* Small instances of ParallelSweep for TLC.  The workloads mix trials that *)
(* fit together with trials that need the whole pool, in both orders, so    *)
(* that backfilling, waiting and out-of-order completion all happen.        *)
EXTENDS ParallelSweep

(* Over three GPUs, expensive trials before cheap ones. *)
MCWorkloads == {<<2, 1, 1>>, <<2, 2, 1>>, <<3, 1, 2>>}

MCPairs == {<<1, 1>>, <<2, 1>>, <<1, 2>>}
=============================================================================
