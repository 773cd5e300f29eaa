------------------------ MODULE MCSubprocessBackend ------------------------
(* Instances of SubprocessBackend for TLC: two jobs, of which one writes a    *)
(* chunk of output.                                                           *)
EXTENDS SubprocessBackend

CONSTANTS j1, j2

MCOutput == [j \in Jobs |-> IF j = j1 THEN 1 ELSE 0]
=============================================================================
