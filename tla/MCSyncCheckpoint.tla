-------------------------- MODULE MCSyncCheckpoint --------------------------
(***************************************************************************)
(* SyncCheckpoint for TLC.  The fork is above the hardened checkpoint a1,  *)
(* as no block at its height but a1 is accepted:                           *)
(*                                                                         *)
(*      g --- a1 --- b2                nChainWork  1  2  3                 *)
(*              \                                                          *)
(*               c2 --- c3             nChainWork        3  4              *)
(*                                                                         *)
(* Blocks that AcceptBlock rejects never reach the index: the initial      *)
(* states leave them out.                                                  *)
(***************************************************************************)
EXTENDS SyncCheckpoint, TLC

CONSTANTS a1, b2, c2, c3

MCPrev == a1 :> Genesis @@ b2 :> a1 @@ c2 :> a1 @@ c3 :> c2

MCAncestors[b \in Blocks] ==
    IF b = Genesis THEN {b} ELSE MCAncestors[MCPrev[b]] \cup {b}

MCChainWork[b \in Blocks] ==
    1 + (IF b = Genesis THEN 0 ELSE MCChainWork[MCPrev[b]])

MCInit     == CheckpointInit /\ \A b \in Blocks : verdict[b] # "reject"
MCSpec     == MCInit /\ [][CheckpointNext]_checkpointVars
MCLiveSpec == MCInit /\ CheckpointLiveSpec
=============================================================================
