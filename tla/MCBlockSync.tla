---------------------------- MODULE MCBlockSync ----------------------------
(* Three branches of one block tree: 93 is a block the node refuses. *)
EXTENDS BlockSync, TLC

CONSTANTS p1, p2

MCChains == {<<1, 2, 3>>, <<1, 12>>, <<1, 2, 93>>}
MCTwoChains == {<<1, 2, 3>>, <<1, 12>>}
MCStart == <<1>>
MCRemoteStart == (p1 :> <<1, 2, 3>>) @@ (p2 :> <<1>>)
MCRemoteBehind == p1 :> <<1>>
=============================================================================
