------------------------------- MODULE MC_Pan -------------------------------
(***************************************************************************)
(* Instances of Pan.                                                       *)
(***************************************************************************)
EXTENDS Pan, TLC

CONSTANTS p1, p2, p3

(* An option set: the letters given, the argument of -s (-1 without).      *)
Opt(letters, n) ==
  [sequential |-> "S" \in letters, track_exit_stats |-> letters \cap {"A", "e"} # {},
   has_brakes |-> "A" \in letters, fork_in_road |-> "y" \in letters,
   timed |-> "t" \in letters, starts |-> n]

TwoPids == {p1, p2}
ThreePids == {p1, p2, p3}

WaitOptions == {Opt({"S", "A"}, 3), Opt({"S", "e", "y"}, 4)}
PollOptions == {Opt({"S", "e", "y"}, -1), Opt({"S", "t"}, -1)}
AnyOptions == {Opt({"S", "e", "y"}, 3)}
BrakeOptions == {Opt({"S", "A"}, -1)}
PlainOptions == {Opt({"S", "e"}, -1)}

Symmetry == Permutations(Pids)
=============================================================================
