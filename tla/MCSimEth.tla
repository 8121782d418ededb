------------------------------ MODULE MCSimEth ------------------------------
EXTENDS SimEth
=============================================================================
