----------------------- MODULE MCBytecodeInterpreter -----------------------
(* Instances of BytecodeInterpreter for TLC. *)
EXTENDS BytecodeInterpreter

MCTerms == {Comparison("Equal", 0, 1), Comparison("LessThan", 1, 1),
            Comparison("NotEqual", 1, 0), Comparison("GreaterThan", 0, 0),
            NullTest("IsNull", 0), NullTest("IsNotNull", 1)}
=============================================================================
