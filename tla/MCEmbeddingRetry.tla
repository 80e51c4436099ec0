---------------------------- MODULE MCEmbeddingRetry ----------------------------
(* The provider as it is configured, with outages around its patience.          *)
EXTENDS EmbeddingRetry

MCOutages == 1 .. 40
================================================================================
