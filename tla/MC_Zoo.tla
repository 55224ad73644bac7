------------------------------ MODULE MC_Zoo -------------------------------
(***************************************************************************)
(* The library alone, called by any process with any argument.             *)
(***************************************************************************)
EXTENDS Zoo, TLC

CONSTANTS p1, p2, p3, one, two, a

MCProc == {p1, p2, p3}
MCPid == {one, two}
MCTag == {a}

MCPrefixOf == a :> {a}

(* The two writers are interchangeable.                   *)
Symmetry == Permutations({p1, p2})
=============================================================================
