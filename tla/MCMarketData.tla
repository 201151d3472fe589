---------------------------- MODULE MCMarketData ----------------------------
(* Small instances of the market-data pipeline. *)
EXTENDS MarketData
=============================================================================
