---------------------------- MODULE MCGridLayout ----------------------------
(* Instances of GridLayout for TLC.                                        *)
EXTENDS GridLayout, TLC

CONSTANTS i1, i2, i3

ThreeInstances == {i1, i2, i3}
\* In the grid, and across its right edge.
Placements == {[x |-> 0, y |-> 0, w |-> 1, h |-> 1],
               [x |-> GridWidth - 1, y |-> 1, w |-> 2, h |-> 2]}
UnitSteps == {-1, 1}
Gaps == {1}
Steps == {2, 3}

Interchangeable == Permutations(Instance)
=============================================================================
