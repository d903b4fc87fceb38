--------------------------- MODULE MCOrderService ---------------------------
(* OrderService on a few calls: model values, and the symmetry of the calls. *)
EXTENDS OrderService, TLC

CONSTANTS c1, c2, c3, i1, i2, k1, bad, b1, b2

TwoCalls   == {c1, c2}
ThreeCalls == {c1, c2, c3}

OneInstance  == {i1}
TwoInstances == {i1, i2}

OneKey  == {k1}
AnyKey  == {k1, bad}

TwoInputs == {b1, b2}
OneInput  == {b1}

CallSymmetry == Permutations(Calls) \cup Permutations(Inputs) \cup Permutations(Instances)
=============================================================================
