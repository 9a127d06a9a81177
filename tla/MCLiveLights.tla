---------------------------- MODULE MCLiveLights ----------------------------
(* One Console and one light, beside the list that holds it too.           *)
EXTENDS LiveLights

CONSTANTS l1

ThisConsole == {Console}
OneLight == {l1}
Changed == {"changed"}
AllKinds == {"added", "changed", "removed"}
=============================================================================
