------------------------------ MODULE MCSelector ------------------------------
\* Constants of Selector for TLC.
EXTENDS Selector, TLC

MCCopyInterests == {<<{"r"}, {"r", "w"}>>}
Symmetry == Permutations(Data)
=============================================================================
