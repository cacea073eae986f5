--------------------------- MODULE MCGenesisCall ---------------------------
(* Both hosts the code knows.                                              *)
EXTENDS GenesisCall
=============================================================================
