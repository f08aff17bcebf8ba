---------------------------- MODULE MCTrainingCalls ----------------------------
(* Small instances of TrainingCalls for TLC. *)
EXTENDS TrainingCalls

CONSTANT c1

OneCall      == {c1}
AllOps       == Operation
FileSizes    == {0, 1, 3}
BatchChoices == {0, 1, 3}
================================================================================
