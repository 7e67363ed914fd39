---------------------------- MODULE MCBlockChain ----------------------------
(***************************************************************************)
(* BlockChain for TLC, on a tree that forks above the genesis block:       *)
(*                                                                         *)
(*      g --- a1 --- b2 --- b3         nChainWork  1  2  3  4              *)
(*              \                                                          *)
(*               c2 --- c3             nChainWork        3  5              *)
(***************************************************************************)
EXTENDS BlockChain, TLC

CONSTANTS a1, b2, b3, c2, c3

MCPrev == a1 :> Genesis @@ b2 :> a1 @@ b3 :> b2 @@ c2 :> a1 @@ c3 :> c2

MCAncestors[b \in Blocks] ==
    IF b = Genesis THEN {b} ELSE MCAncestors[MCPrev[b]] \cup {b}

MCBlockWork == Genesis :> 1 @@ a1 :> 1 @@ b2 :> 1 @@ b3 :> 1 @@ c2 :> 1 @@ c3 :> 2

MCChainWork[b \in Blocks] ==
    MCBlockWork[b] + (IF b = Genesis THEN 0 ELSE MCChainWork[MCPrev[b]])
=============================================================================
