---------------------------- MODULE CognitClaims ----------------------------
(***************************************************************************)
(* What the comments, docstrings and the README of the COGNIT components   *)
(* say and the code does not keep.  Each is checked on its own, in the     *)
(* mildest environment in which it fails.                                  *)
(***************************************************************************)
EXTENDS CognitSystem

\* main.py:141 "Select the best cluster for this device based on requirements":
\* a cluster handed to a device meets the requirements in the document it asked
\* with.  The optimizer decides on the document named by the row it read at the
\* start of its cycle, and writes the decision into whatever row it finds at the
\* end of it; the frontend then serves that row as a cache hit.
ReplyMeetsRequirements ==
    fe.pc = "reply" /\ fe.cluster \in pool => fe.cluster \in Feasible(fe.req)
=============================================================================
