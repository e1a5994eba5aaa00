------------------------------ MODULE MCStores ------------------------------
(* Two servers, one of which has the other for a sibling.                   *)
EXTENDS Stores, TLC
CONSTANTS a, b
MCSiblings == (a :> {b}) @@ (b :> {})
MCInitially == [kind |-> "service", owners |-> {}, specs |-> (a :> 1) @@ (b :> 1)]
BothSiblings == (a :> {b}) @@ (b :> {a})
=============================================================================
