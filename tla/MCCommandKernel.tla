--------------------------- MODULE MCCommandKernel ---------------------------
(* One driver: a first command, a second envelope that reuses its action id, *)
(* a rival that has seen the same activity revision, and a successor of the  *)
(* first command.  The liveness run leaves the rival and the reuse out.      *)
EXTENDS CommandKernel, TLC

CONSTANTS first, reused, rival, successor, a1, a2, a3, driver

MCCommands  == {first, reused, rival, successor}
MCActionOf  == [c \in Commands |-> CASE c \in {first, reused} -> a1
                                     [] c = rival -> a2
                                     [] c = successor -> a3]
MCDriverOf  == [c \in Commands |-> driver]
MCExpected  == [c \in Commands |-> IF c = successor THEN 1 ELSE 0]
MCDependsOn == [c \in Commands |-> IF c = successor THEN {a1} ELSE {}]
MCSymmetry  == Permutations(Sessions)
=============================================================================
