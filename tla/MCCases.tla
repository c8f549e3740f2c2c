------------------------------ MODULE MCCases ------------------------------
(***************************************************************************)
(* Programs on which the code departs from what it or its documentation    *)
(* says, one family for each case.                                         *)
(***************************************************************************)
EXTENDS CursorParity, ProgramKit

CaseVars == {"R1", "R2"}

R2Plus(n)  == [var |-> "R2", plus |-> n]
Main(a, b) == Text3(a, b, <<>>)

(* Three FOR iterations, each jumping back once.                           *)
JumpPerIteration ==
  {Main(<<B(For("R1", Number(0), Number(2), "body"))>>,
        <<B(Assign("R2", Number(0))), At("L1", Assign("R2", R2Plus(1))),
          B(IfGoto([lhs |-> R2Plus(0), rel |-> "<", rhs |-> 2], "GOTOB", "L1"))>>)}

(* A FOR whose body sets the counter back.                                 *)
CounterReset ==
  {Main(<<B(For("R1", Number(0), Number(1), "body"))>>, <<B(Assign("R1", Number(0)))>>)}
=============================================================================
