---------------------------- MODULE LiveStoreView ----------------------------
(***************************************************************************)
(* LiveStore, crashes, failed writes and branch switches included,         *)
(* implements TipView: block_headers are the chain, the current live-cell  *)
(* summary is what is shown, deep_fork_detected is the freeze.             *)
(***************************************************************************)
EXTENDS LiveStore

View == INSTANCE TipView WITH chain <- headers, shown <- current, frozen <- deepFork

\* Readers of the domain store see TipView: execute_reorg, cleanup_batch_range
\* and init_sync_start show a summary only of the tip they leave, and never
\* change the chain under a summary that is shown, wherever they are cut short.
ImplementsTipView == View!Spec
=============================================================================
