----------------------------- MODULE MCCrawler -----------------------------
EXTENDS Crawler, TLC

CONSTANTS boot, far, old

\* A bootnode, a peer it may tell of, and a peer with two aliases.
ThreePeers == (1 :> boot) @@ (2 :> far) @@ (3 :> old) @@ (4 :> old)
TwoPeers == (1 :> boot) @@ (2 :> old) @@ (3 :> old)
=============================================================================
