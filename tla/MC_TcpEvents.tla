---------------------------- MODULE MC_TcpEvents ----------------------------
(* Instances of TcpEvents for TLC.                                          *)
EXTENDS TcpEvents

CONSTANTS t1, t2

OneThread  == {t1}
TwoThreads == {t1, t2}
=============================================================================
