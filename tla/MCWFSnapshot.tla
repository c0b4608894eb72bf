---------------------------- MODULE MCWFSnapshot -----------------------------
EXTENDS WFSnapshot
=============================================================================
