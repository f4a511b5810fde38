------------------------- MODULE MCMemoryAttachment -------------------------
(***************************************************************************)
(* Instances of MemoryAttachment for TLC.                                  *)
(***************************************************************************)
EXTENDS MemoryAttachment

CONSTANTS c1, c2, a, b

TwoClients == {c1, c2}
TwoBodies == {a, b}

\* The bodies of digests are interchangeable.
Swap == Permutations(TwoBodies)

=============================================================================
