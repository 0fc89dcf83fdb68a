----------------------- MODULE MCMarketDataDisruptor -----------------------
(* Instances of MarketDataDisruptor for TLC.                               *)
EXTENDS MarketDataDisruptor
=============================================================================
