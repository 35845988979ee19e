--------------------------- MODULE MCDiffCompare ---------------------------
(***************************************************************************)
(* Instances of DiffCompare: all pairs of short machines over three kinds  *)
(* of instruction.                                                         *)
(***************************************************************************)
EXTENDS DiffCompare

CONSTANTS MaxLength, Kinds

Instructions ==
  {[pc |-> 1, rd |-> NoValue], [pc |-> 1, rd |-> 1], [pc |-> 2, rd |-> 2]}

\* The instruction that exits; in checkpoint mode, the registers at the exit.
Exits == {[pc |-> 2, rd |-> NoValue], [pc |-> 2, rd |-> 1]}

Traces ==
  UNION {{Append(t, e) : t \in [1 .. n -> Instructions], e \in Exits} : n \in 0 .. MaxLength - 1}

Machines(kinds) == [trace : Traces, exit_code : {0, 1}, kind : kinds]

AllPairs == [ref : Machines(Kinds), test : Machines({"inprocess"})]
=============================================================================
