--------------------------- MODULE MCEventStreams ---------------------------
(* Two browsers, so that one stream's ending can disturb another's; a      *)
(* light, and two kinds of Invalidation so that one can overwrite the      *)
(* other in the buffer.                                                    *)
EXTENDS EventStreams

CONSTANTS b1, b2, l1

TwoBrowsers == {b1, b2}
OneLight == {l1}
TwoKinds == {"changed", "removed"}
=============================================================================
