------------------------------ MODULE TipView ------------------------------
(***************************************************************************)
(* What the domain store promises its readers, abstractly: a linked chain  *)
(* of blocks with a public summary of its tip.  The chain grows only from  *)
(* a tip whose summary is shown, shrinks only while the summary is         *)
(* withdrawn, and freezes for good at a deep fork.                         *)
(***************************************************************************)
EXTENDS Integers, Sequences

VARIABLES
    chain,   \* the stored blocks above genesis, each its path from genesis
    shown,   \* the tip whose summary is served: {} when withdrawn
    frozen   \* a deep fork waits for the operator

view == <<chain, shown, frozen>>

BlockAt(c, h) == IF h = 0 THEN <<>> ELSE c[h]
TipOf(c) == BlockAt(c, Len(c))
Follows(b, parent) == Len(b) = Len(parent) + 1 /\ SubSeq(b, 1, Len(parent)) = parent
LinkedChain(c) == \A h \in 1..Len(c) : Follows(BlockAt(c, h), BlockAt(c, h - 1))

Init ==
    /\ LinkedChain(chain)
    /\ shown = {TipOf(chain)}
    /\ frozen = FALSE

\* A batch is committed: the chain and the summary move together.
Advance ==
    /\ ~frozen /\ shown = {TipOf(chain)}
    /\ Len(chain') > Len(chain) /\ SubSeq(chain', 1, Len(chain)) = chain
    /\ LinkedChain(chain')
    /\ shown' = {TipOf(chain')}
    /\ UNCHANGED frozen

Withdraw ==
    /\ ~frozen /\ shown = {TipOf(chain)}
    /\ shown' = {}
    /\ UNCHANGED <<chain, frozen>>

\* A rollback is committed, or (to the tip itself) given up by a restart.
Retract ==
    /\ ~frozen /\ shown = {}
    /\ \E h \in 0..Len(chain) : chain' = SubSeq(chain, 1, h)
    /\ shown' = {TipOf(chain')}
    /\ UNCHANGED frozen

Freeze ==
    /\ ~frozen /\ shown = {TipOf(chain)}
    /\ shown' = {} /\ frozen' = TRUE
    /\ UNCHANGED chain

Next == Advance \/ Withdraw \/ Retract \/ Freeze

Spec == Init /\ [][Next]_view
=============================================================================
