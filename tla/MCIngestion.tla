----------------------------- MODULE MCIngestion -----------------------------
(* Small instances of the ingestion for TLC. *)
EXTENDS IngestionProperties

OnePerKind ==
    {<<"BTC">>, <<"GOLD">>, <<"WTI">>, <<"USD_IRR">>, <<"CMC", "TOTAL_MCAP">>, <<"FEAR_GREED">>}
AheadAndBehind == {-1, 0, 2}
=============================================================================
