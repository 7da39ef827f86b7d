---------------------------- MODULE MCWriteGroup ----------------------------
(* WriteGroup on a small number of writers, given as model values by the    *)
(* configuration. Writers are interchangeable, but symmetry is not used,    *)
(* because the run also checks liveness.                                    *)
EXTENDS WriteGroup
============================================================================
