--------------------------- MODULE MCDeviceJournal ---------------------------
(* Two tabs of one phone for safety, one tab that dies for liveness.         *)
EXTENDS DeviceJournal, TLC

CONSTANTS t1, t2

MCSymmetry == Permutations(Tabs)
=============================================================================
