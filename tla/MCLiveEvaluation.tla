-------------------------- MODULE MCLiveEvaluation --------------------------
(* Small instances of LiveEvaluation for TLC: a point that may be viewed on*)
(* one node, and an item on the bench of the other.                        *)
EXTENDS LiveEvaluation

CONSTANTS n1, n2

OneItem == <<"b">>
OnTheOther == [s \in {"b"} |-> n2]

=============================================================================
