---------------------------- MODULE MCChainStore ----------------------------
(***************************************************************************)
(* ChainStore for TLC, on the smallest tree with a reorganisation of more  *)
(* than one block above a common ancestor:                                 *)
(*                                                                         *)
(*      g --- a1 --- b2                nChainWork  1  2  3                 *)
(*              \                                                          *)
(*               c2 --- c3             nChainWork        3  4              *)
(***************************************************************************)
EXTENDS ChainStore

CONSTANTS a1, b2, c2, c3

MCPrev == a1 :> Genesis @@ b2 :> a1 @@ c2 :> a1 @@ c3 :> c2

MCAncestors[b \in Blocks] ==
    IF b = Genesis THEN {b} ELSE MCAncestors[MCPrev[b]] \cup {b}

MCChainWork[b \in Blocks] == IF b = Genesis THEN 1 ELSE 1 + MCChainWork[MCPrev[b]]

(* Without the blocks that AcceptBlock rejects, which are never stored. *)
MCInit == StoreInit /\ \A b \in Blocks : verdict[b] # "reject"
MCSpec == MCInit /\ [][StoreNext]_storeVars
=============================================================================
