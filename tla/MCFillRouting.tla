---------------------------- MODULE MCFillRouting ----------------------------
(***************************************************************************)
(* Instances of FillRouting for TLC: an opening order of two units, the    *)
(* order that closes one of them, and an order of another position; one    *)
(* retired order's routing is kept.                                        *)
(***************************************************************************)
EXTENDS FillRouting, TLC

CONSTANTS opening, closing, other, pos1, pos2, v1, v2, v3

MCRequest ==
    opening :> [quantity |-> 2, buys |-> TRUE, position |-> pos1, id |-> v1]
    @@ closing :> [quantity |-> 1, buys |-> FALSE, position |-> pos1, id |-> v2]
    @@ other :> [quantity |-> 1, buys |-> TRUE, position |-> pos2, id |-> v3]

\* All three on one position, which the second opening order adds to again.
MCReentry == [MCRequest EXCEPT ![other].position = pos1]

MCHashOrders == {<<opening, closing, other>>, <<other, closing, opening>>}

MCSettings ==
    [totals : BOOLEAN, cancels : {{opening}, {other}}, splits : {FALSE},
     hash : {<<opening, closing, other>>}]
    \cup [totals : BOOLEAN, cancels : {{}}, splits : {TRUE}, hash : {<<other, closing, opening>>}]
=============================================================================
