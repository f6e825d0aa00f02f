------------------------------ MODULE ForkView ------------------------------
(***************************************************************************)
(* The API beside the writer of module ForkEvents: fork_view serves the    *)
(* event history from a memo of one slot, keyed by the canonical tip.  A   *)
(* request reads one pinned view of the store.                             *)
(***************************************************************************)
EXTENDS ForkEvents

VARIABLE memo   \* the tip the memo was built for and the events it holds

viewVars == <<vars, memo>>

NoMemo == [tip |-> <<0>>, events |-> <<>>]

ViewInit == Init /\ memo = NoMemo

\* TipMemo::get at the exact tip, tried when no reconciliation is pending.
MemoHit == db.pending = 0 /\ memo.tip = db.chain

\* A miss builds the view from the store, and keeps it when nothing is pending.
ServeForks ==
  /\ db.pending = 0 /\ ~MemoHit
  /\ memo' = [tip |-> db.chain, events |-> db.events]
  /\ UNCHANGED vars

\* The writer never touches the memo; a power loss restarts the API as well.
ViewNext ==
  \/ ServeForks
  \/ PowerLoss /\ memo' = NoMemo
  \/ (NodeGrows \/ NodeSwitches \/ Writer \/ WriteFails \/ DomainSync \/ Crash \/ Rest)
     /\ UNCHANGED memo

ViewSpec == ViewInit /\ [][ViewNext]_viewVars

-----------------------------------------------------------------------------
\* "a reader that sees no marker and an unchanged tip and deep-fork flag sees an
\* unchanged event history": what fork_view answers from its memo is what the
\* store holds.
ForkViewIsCurrent == MemoHit => memo.events = db.events
=============================================================================
