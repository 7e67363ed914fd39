------------------------------ MODULE MCCoins ------------------------------
(***************************************************************************)
(* Coins for TLC, on a tree that forks above the first block:              *)
(*                                                                         *)
(*      g --- a1 --- b2 --- b3         nChainWork  1  2  3  4              *)
(*              \                                                          *)
(*               c2 --- c3             nChainWork        3  5              *)
(*                                                                         *)
(* tk is the coinbase of a1 and may be mined again; ts spends both         *)
(* outputs of tk in one transaction; tt and tu spend the same output of    *)
(* ts, and tu an output of a coinbase too; tx does not verify.             *)
(***************************************************************************)
EXTENDS Coins

CONSTANTS g, a1, b2, b3, c2, c3, tk, tj, tn, tq, ts, tt, tu, tx

MCPrev == a1 :> g @@ b2 :> a1 @@ b3 :> b2 @@ c2 :> a1 @@ c3 :> c2
MCAncestors[b \in {g, a1, b2, b3, c2, c3}] ==
    IF b = g THEN {b} ELSE MCAncestors[MCPrev[b]] \cup {b}
MCChainWork == g :> 1 @@ a1 :> 2 @@ b2 :> 3 @@ b3 :> 4 @@ c2 :> 3 @@ c3 :> 5

Out(h, i) == [hash |-> h, n |-> i]

MCVin ==
    tk :> << >> @@ tj :> << >> @@ tn :> << >> @@ tq :> << >>
    @@ ts :> <<Out(tk, 1), Out(tk, 2)>>
    @@ tt :> <<Out(ts, 1)>>
    @@ tu :> <<Out(tj, 1), Out(ts, 1)>>
    @@ tx :> <<Out(tk, 1)>>

MCVoutValue ==
    tk :> <<4, 6>> @@ tj :> <<10>> @@ tn :> <<10>> @@ tq :> <<12>>
    @@ ts :> <<5, 4>> @@ tt :> <<4>> @@ tu :> <<14>> @@ tx :> <<3>>

Second == {<<tj>>, <<tj, ts>>, <<tj, ts, tt>>, <<tq, ts, tt>>}
Third  == {<<tk>>, <<tq, tt>>, <<tn, tu>>, <<tn, ts>>, <<tn, tx>>}

(* Every first block of one branch with every second block of the other. *)
MCVtxChoices ==
    {g :> << >> @@ a1 :> <<tk>> @@ b2 :> y2 @@ b3 :> y3 @@ c2 :> z2 @@ c3 :> z3 :
        y2 \in Second, y3 \in {<<tn, tu>>, <<tn, ts>>},
        z2 \in {<<tj>>, <<tj, ts>>, <<tq, ts, tt>>}, z3 \in Third}
=============================================================================
