------------------------------ MODULE MCRunner ------------------------------
(* Runner for TLC: values for the constants a cfg cannot write.            *)
EXTENDS Runner

OnlyLinear == {Linear}
AnyJump == {Linear, EndIteration} \cup 1..NMain

=============================================================================
