------------------------------ MODULE MCFanout ------------------------------
(* Three streams: one held, one whose second ending is still to come, and  *)
(* one to reopen on.  The ceiling is four doublings above the base.        *)
EXTENDS Fanout

CONSTANTS s1, s2, s3

MCStreams == {s1, s2, s3}
=============================================================================
