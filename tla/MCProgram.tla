------------------------------ MODULE MCProgram ------------------------------
(* Command lines of up to two arguments, every kind of file, any failure.   *)
EXTENDS Program

Arguments == {"-h", "a", "b"}
UpToTwo   == UNION {[1 .. n -> Arguments] : n \in 0 .. 2}

=============================================================================
