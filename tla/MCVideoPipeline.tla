--------------------------- MODULE MCVideoPipeline ---------------------------
(***************************************************************************)
(* TLC instances of VideoPipeline.  Only safety runs use the symmetry.      *)
(***************************************************************************)
EXTENDS VideoPipeline, TLC

CONSTANTS c1, c2, t1, t2, s1, s2, s3, s4, e1, e2, e3

MCCallers == {c1, c2}
MCTimers == {t1, t2}
MCSamples == {s1, s2, s3, s4}
MCEncoders == {e1, e2, e3}

(* Liveness: one timer thread, and the memory and names it can need. *)
MCOneTimer == {t1}
MCThreeSamples == {s1, s2, s3}
MCTwoEncoders == {e1, e2}

MCSymmetry == Permutations(MCCallers) \cup Permutations(MCTimers)
                \cup Permutations(MCSamples) \cup Permutations(MCEncoders)
=============================================================================
