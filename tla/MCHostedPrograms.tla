-------------------------- MODULE MCHostedPrograms --------------------------
(***************************************************************************)
(* HostedPrograms with two programs that share one executable, and so one  *)
(* Tao name until one of them extends its own.                             *)
(***************************************************************************)
EXTENDS HostedPrograms, TLC

CONSTANTS p1, p2, h1

MCProg   == {p1, p2}
MCHash   == {h1}
MCHashOf == [p \in MCProg |-> h1]

\* The two programs are interchangeable: they run the same executable.
Symmetry == Permutations(MCProg)

=============================================================================
