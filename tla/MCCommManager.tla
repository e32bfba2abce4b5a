--------------------------- MODULE MCCommManager ---------------------------
EXTENDS CommManager

MCJob == [src : 1 .. Cardinality(Client), n : 1 .. MaxAsk]
=============================================================================
