--------------------------- MODULE MCRecLockList ----------------------------
EXTENDS RecLockList, TLC

CONSTANTS t1, t2

TwoEach == t1 :> <<2, 2>> @@ t2 :> <<2, 2>>
Uneven == t1 :> <<2, 1, 0, 1>> @@ t2 :> <<2>>
=============================================================================
