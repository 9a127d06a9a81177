--------------------------- MODULE MCSharedReads ---------------------------
(* Three reads over two keys: two that share, and one of another key or a  *)
(* third sharer; a change, so that an answer can show it or not.           *)
EXTENDS SharedReads

CONSTANTS r1, r2, r3, lights, light1

ThreeReads == {r1, r2, r3}
TwoKeys == {lights, light1}
=============================================================================
