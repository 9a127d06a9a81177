---------------------------- MODULE Subscription ----------------------------
(***************************************************************************)
(* What the rest of the Console API may rely on about the one `Subscribe`  *)
(* this process makes to the Gateway (`Fanout` in events/fanout.ts and     *)
(* `Subscription` in gateway/adapter.ts), with none of how it is kept:     *)
(* no timers, no handles, no per-stream flags.                             *)
(*                                                                         *)
(* The one variable says where the subscription stands:                    *)
(*                                                                         *)
(*   "calling"   a Subscribe has been made and not yet answered            *)
(*   "standing"  the Gateway has accepted it and is sending on it          *)
(*   "waiting"   the last one ended, and the next has not been made        *)
(*   "closing"   stop() was called, and the stream has not yet ended       *)
(*   "stopped"   stop() was called, and nothing is left of the stream      *)
(***************************************************************************)

VARIABLE sub

SubStates == {"calling", "standing", "waiting", "closing", "stopped"}

(* `subscribed()`: set before the call is made, cleared by its ending or by *)
(* stop().  Note that "calling" already counts.                             *)
Subscribed == sub \in {"calling", "standing"}

(* Whether something said on the stream can still reach a listener. *)
Carrying == sub \in {"standing", "closing"}

SubInit == sub \in {"calling", "waiting"}

Call   == sub = "waiting" /\ sub' = "calling"
Accept == sub = "calling" /\ sub' = "standing"
Lose   == Subscribed /\ sub' = "waiting"

(* stop(): final whatever it interrupts. *)
StopSub ==
    \/ Subscribed      /\ sub' = "closing"
    \/ sub = "waiting" /\ sub' = "stopped"

(* The Gateway's agreement to a cancelled stream. *)
LetGo == sub = "closing" /\ sub' = "stopped"

SubNext == Call \/ Accept \/ Lose \/ StopSub \/ LetGo

SubSpec == SubInit /\ [][SubNext]_sub
=============================================================================
