---------------------------- MODULE MCPrimeConds ----------------------------
EXTENDS PrimeConds

\* For three workers: slices with one prime, with none and with two, and then a range
\* shorter than the number of workers and without a prime.
MCInput == <<<<3, 7>>, <<8, 10>>>>
=============================================================================
