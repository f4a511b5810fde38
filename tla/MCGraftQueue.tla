---------------------------- MODULE MCGraftQueue ----------------------------
(* Instances of GraftQueue for model checking. *)
EXTENDS GraftQueue

CONSTANTS head, x, y, v1, f1, p1

OneSnapshot == {head}
OneNodes == {head, x, y}
OneSaver == {v1}
OneFlusher == {f1}
OnePlanner == {p1}

\* A queue in the format without sequence numbers.
LegacyQueue ==
    {<<>>, <<[snapshot |-> head, parents |-> {x}, expected |-> 0, legacy |-> TRUE]>>}

============================================================================
