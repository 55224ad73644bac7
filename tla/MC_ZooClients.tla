--------------------------- MODULE MC_ZooClients ---------------------------
(***************************************************************************)
(* Two ltp-pan programs, and in some runs a ltp-bump, on one zoo file.     *)
(***************************************************************************)
EXTENDS ZooClients, TLC

CONSTANTS n1, n2, b1, pid1, pid2, c1, c2, zero, pan, po, t, tt

Pids == {pid1, pid2, c1, c2, zero}
Tags == {pan, po, t, tt}

(* The name "t" is a prefix of the tag "tt", "pan" one of "panorphan".     *)
Prefixes == pan :> {pan, po} @@ po :> {po} @@ t :> {t, tt} @@ tt :> {tt}

OnePan == {n1}
TwoPans == {n1, n2}
OneBump == {b1}
NoBump == {}
PansOnly == {n1, n2}
PansAndBump == {n1, n2, b1}
PanAndBump == {n1, b1}

OnePidOf == n1 :> pid1
TwoPidOf == n1 :> pid1 @@ n2 :> pid2
OnePanTag == n1 :> pan
TwoPanTag == n1 :> pan @@ n2 :> pan

(* Without ltp-bump no tag is looked up, and no pid of a test is named.    *)
Symmetry == Permutations({c1, c2})

(* How many tests each ltp-pan starts.                                     *)
ThreeTests == [n \in {n1} |-> 3]
TwoTests == [n \in {n1} |-> 2]
TwoAndOne == n1 :> 2 @@ n2 :> 1

OneBlank == <<zero>>
NoBlank == <<>>
=============================================================================
