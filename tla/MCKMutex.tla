------------------------------ MODULE MCKMutex ------------------------------
(* Model-checking instance of KMutex: three threads, enough for the FIFO   *)
(* order to matter (A holds, B and C queue behind it).                     *)
EXTENDS KMutex

CONSTANTS t1, t2, t3

MCThreads == {t1, t2, t3}
=============================================================================
