---------------------------- MODULE MCPaneReclaim ----------------------------
EXTENDS PaneReclaim

\* A reclaim and another operation, undisturbed; and a reclaim with two mishaps.
MCSlices == {[runs |-> 2, mishaps |-> 0], [runs |-> 1, mishaps |-> 2]}

\* For the properties without their exceptions
MCMixed == {[runs |-> 2, mishaps |-> 1]}
MCThree == {[runs |-> 1, mishaps |-> 3]}
=============================================================================
