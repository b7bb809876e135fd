---------------------------- MODULE MCNodeControl ----------------------------
(* Instances of NodeControlHistory for TLC. *)
EXTENDS NodeControlHistory, TLC

\* The blockchain client runs in a container, the privacy manager by script.
MixedControl == {"bc"}

\* Goroutines are interchangeable when all of them are Checkers.
GoroutineSymmetry == Permutations(Goroutines)

==============================================================================
