------------------------------- MODULE MCLiveView -------------------------------
(* Instances of LiveView for TLC. *)
EXTENDS LiveView

CONSTANTS boot, ready, error

ThreeLines == {boot, ready, error}

\* Nothing distinguishes the texts.
Texts == Permutations(ThreeLines)
=============================================================================
