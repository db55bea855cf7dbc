--------------------------- MODULE MCOnlineSpool ---------------------------
EXTENDS OnlineSpool

MCRecordSizes == {2, 3}
=============================================================================
