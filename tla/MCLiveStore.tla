----------------------------- MODULE MCLiveStore -----------------------------
(* LiveStore on a small instance: two labels, one pruned and one unpruned key *)
EXTENDS LiveStoreView

\* Blocks labelled a touch both keys, blocks labelled b only the pruned one.
MCTouch == [l \in {"a", "b"} |-> IF l = "a" THEN {"stats", "object"} ELSE {"stats"}]
=============================================================================
