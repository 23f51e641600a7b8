-------------------------- MODULE MCAdapterProcess --------------------------
(* Instances of the adapter process for TLC.                               *)
EXTENDS AdapterProcess

OneAdapter == {<<"BINANCE">>, <<"IB">>, <<"MT5">>}
OnlyBinance == {<<"BINANCE">>}
Venues == {"BINANCE", "IB", "MT5"}
===========================================================================
