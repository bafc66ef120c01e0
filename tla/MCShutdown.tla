----------------------------- MODULE MCShutdown -----------------------------
(***************************************************************************)
(* Instance of Shutdown for TLC: two exchanges, an open sent to one and a  *)
(* cancel to the other.                                                    *)
(***************************************************************************)
EXTENDS Shutdown, TLC

CONSTANTS x1, x2, r1, r2

MCExchangeOf == r1 :> x1 @@ r2 :> x2

Setting(how, m, b) == [how |-> how, market |-> m, breaks |-> b]

MCSettings ==
    {Setting("shutdown", 1, 0), Setting("abort", 1, 0), Setting("afterBacktest", 1, 0),
     Setting("afterBacktest", 0, 1)}
=============================================================================
