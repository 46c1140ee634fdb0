----------------------------- MODULE MCRollback -----------------------------
(* Rollback with two labels and the calls of one or two hosted programs.   *)
EXTENDS Rollback, TLC

CONSTANTS t1, t2, e1, e2

OneCaller  == {t1}
TwoCallers == {t1, t2}
OneEntry   == {e1}
TwoEntries == {e1, e2}
ZeroOrTwo  == {0, 2}
Zero       == {0}

\* The two labels are interchangeable.
Symmetry == Permutations(TwoEntries)

=============================================================================
