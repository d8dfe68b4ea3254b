------------------------------- MODULE MCTask2 -------------------------------
(* Instances of Task2: two cubes, the nearer one within reach of the start  *)
(* tolerance of a robot that may have been left anywhere.                    *)
EXTENDS Task2
TwoCubes == {1, 2}
=============================================================================
