----------------------------- MODULE MCMemPool -----------------------------
(***************************************************************************)
(* MemPool for TLC, on a tree that forks above the first block:            *)
(*                                                                         *)
(*      g --- a1 --- b2                nChainWork  1  2  3                 *)
(*              \                                                          *)
(*               c2 --- c3             nChainWork        3  4              *)
(*                                                                         *)
(* tp and tr spend the same output of tk, the coinbase of a1; tc spends    *)
(* tp, and td spends tc and another output of tk; te spends the coinbase   *)
(* of b2.                                                                  *)
(***************************************************************************)
EXTENDS MemPool

CONSTANTS g, a1, b2, c2, c3, tk, tj, tn, tm, tp, tr, tc, td, te

MCPrev == a1 :> g @@ b2 :> a1 @@ c2 :> a1 @@ c3 :> c2
MCAncestors[b \in {g, a1, b2, c2, c3}] ==
    IF b = g THEN {b} ELSE MCAncestors[MCPrev[b]] \cup {b}
MCChainWork == g :> 1 @@ a1 :> 2 @@ b2 :> 3 @@ c2 :> 3 @@ c3 :> 4

Out(h, i) == [hash |-> h, n |-> i]

MCVin ==
    tk :> << >> @@ tj :> << >> @@ tn :> << >> @@ tm :> << >>
    @@ tp :> <<Out(tk, 1)>>
    @@ tr :> <<Out(tk, 1)>>
    @@ tc :> <<Out(tp, 1)>>
    @@ td :> <<Out(tk, 2), Out(tc, 1)>>
    @@ te :> <<Out(tj, 1)>>

MCVoutValue ==
    tk :> <<4, 6>> @@ tj :> <<10>> @@ tn :> <<10>> @@ tm :> <<10>>
    @@ tp :> <<3>> @@ tr :> <<3>> @@ tc :> <<2>> @@ td :> <<7>> @@ te :> <<9>>

Contents(y2, z2, z3) == g :> << >> @@ a1 :> <<tk>> @@ b2 :> y2 @@ c2 :> z2 @@ c3 :> z3

(* The branches have nothing in common, or conflict, or confirm the same. *)
MCVtxChoices == {Contents(<<tj, tp, tc>>, <<tn>>, <<tm>>),
                 Contents(<<tj, tp>>, <<tn, tr>>, <<tm>>),
                 Contents(<<tj>>, <<tn, tp>>, <<tm, tc>>)}

MCVtxPrev == tp :> << >> @@ tr :> << >> @@ tc :> <<tp>> @@ td :> << >> @@ te :> << >>
=============================================================================
