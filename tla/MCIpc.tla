------------------------------- MODULE MCIpc -------------------------------
(* Instances of Ipc for TLC.                                               *)
EXTENDS Ipc, TLC

TaskSymmetry == Permutations(Tasks)
=============================================================================
