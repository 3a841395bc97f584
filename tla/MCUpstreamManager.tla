-------------------------- MODULE MCUpstreamManager --------------------------
(* Instances of UpstreamManager for TLC.                                   *)
EXTENDS UpstreamManager

CONSTANTS w1, w2, c1, b1, b2, one, other, both

\* "both" is a name that two upstreams list until the first drops it.
ListsOf(u, v) ==
  IF u = 1 THEN {one} \cup (IF v = 0 THEN {both} ELSE {}) ELSE {other, both}
MCOffers == [u \in Upstreams |-> [v \in Versions |-> ListsOf(u, v)]]
==============================================================================
