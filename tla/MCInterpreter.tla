---------------------------- MODULE MCInterpreter ----------------------------
(* Instances of Interpreter for TLC: objects, keys and directories are model  *)
(* values and interchangeable.                                                *)
EXTENDS Interpreter, TLC

MCSymmetry == Permutations(Objects) \cup Permutations(Keys)
=============================================================================
