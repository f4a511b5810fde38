------------------------- MODULE MCBranchLifecycle -------------------------
(* An instance of BranchLifecycle: two clients, a root and its child.      *)
EXTENDS BranchLifecycle, TLC

CONSTANTS c1, c2

TwoClients == {c1, c2}

Swap == Permutations(TwoClients)

Line == 1..2
LineParent == [s \in Line |-> s - 1]
============================================================================
