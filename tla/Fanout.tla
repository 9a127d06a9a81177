------------------------------- MODULE Fanout -------------------------------
(***************************************************************************)
(* The one gRPC subscription the Console API makes to the Gateway, kept    *)
(* open across losses: `fanoutEvents` and `delays` (events/), `subscribe`  *)
(* and `close` of gateway/adapter.ts, and the calls `stop` in server.ts    *)
(* makes on them.                                                          *)
(*                                                                         *)
(* Everything here runs on one JavaScript thread, so an action is one      *)
(* callback run to its end: a timer, an event of a gRPC stream, a signal.  *)
(* What interleaves is the order in which those callbacks arrive.  The     *)
(* streams are library objects: an attempt takes one of `Streams`, and a   *)
(* stream that can raise no further event may be taken again.              *)
(*                                                                         *)
(* Time is left out: a timer that is armed may fire at any later step.     *)
(* Listeners, and what the stream carries to them, are EventStreams'.      *)
(***************************************************************************)
EXTENDS Naturals

CONSTANTS
    Streams,    \* the gRPC streams an attempt may be made on
    NoStream,   \* `undefined`, in the two handles that may be unset
    BaseMs,     \* Backoff.baseMs
    CeilingMs   \* Backoff.ceilingMs

ASSUME StreamsAssumption == NoStream \notin Streams

(* `delays` throws on anything else. *)
ASSUME BackoffAssumption ==
    BaseMs \in Nat /\ CeilingMs \in Nat /\ BaseMs <= CeilingMs

VARIABLES
    open,       \* fanout: what `subscribed()` answers
    stopped,    \* fanout: stop() has been called
    listening,  \* fanout: the subscription stop() would cancel
    reopens,    \* fanout: how many reopening timers are armed
    confirming, \* fanout: the stream whose confirming timer is armed
    ceiling,    \* backoff: the ceiling the next delay is drawn from
    stream,     \* adapter: how far each stream has got
    ended,      \* adapter: streams whose subscriber was told of the end
    cancelled   \* adapter: streams this process has cancelled

vars == <<open, stopped, listening, reopens, confirming, ceiling,
          stream, ended, cancelled>>

(* "calling"  made, nothing heard;  "accepted"  initial metadata arrived;  *)
(* "failing"  an error was raised, and grpc-js has an end still to raise;  *)
(* "over"     nothing more will be raised.                                 *)
StreamStates == {"unused", "calling", "accepted", "failing", "over"}

Live(s) == stream[s] \in {"calling", "accepted"}
Spent(s) == stream[s] \in {"unused", "over"}

TypeOK ==
    /\ open \in BOOLEAN
    /\ stopped \in BOOLEAN
    /\ listening \in Streams
    /\ reopens \in Nat
    /\ confirming \in Streams \cup {NoStream}
    /\ ceiling \in BaseMs..CeilingMs
    /\ stream \in [Streams -> StreamStates]
    /\ ended \subseteq Streams
    /\ cancelled \subseteq Streams

-----------------------------------------------------------------------------
(* events/backoff.ts *)

(* Mutant: the doubling never stops. *)
DoubledForever(c) == 2 * c

(* The ceiling after one more wait has been drawn. *)
Doubled(c) == IF 2 * c <= CeilingMs THEN 2 * c ELSE CeilingMs

(* Mutant: the confirming timer of a stream that ended is left armed. *)
OnEndedLeavesConfirming ==
    /\ open' = FALSE
    /\ UNCHANGED confirming
    /\ IF stopped
          THEN UNCHANGED <<reopens, ceiling>>
          ELSE reopens' = reopens + 1 /\ ceiling' = Doubled(ceiling)

(* Mutant: the subscription is not reopened. *)
OnEndedGivesUp ==
    /\ open' = FALSE
    /\ confirming' = NoStream
    /\ UNCHANGED <<reopens, ceiling>>

(* fanout's onEnded: clear the confirming timer and, unless this process is *)
(* stopping, arm a reopening one with the next delay.                       *)
OnEnded ==
    /\ open' = FALSE
    /\ confirming' = NoStream
    /\ IF stopped
          THEN UNCHANGED <<reopens, ceiling>>
          ELSE reopens' = reopens + 1 /\ ceiling' = Doubled(ceiling)

-----------------------------------------------------------------------------
(* gateway/adapter.ts: subscribe *)

(* Mutant: the error and the end of one stream are both passed on. *)
TellEndedTwice(s) ==
    /\ ended' = ended \cup {s}
    /\ OnEnded

(* `end`: the subscriber is told once, whichever event comes first. *)
TellEnded(s) ==
    IF s \in ended
       THEN UNCHANGED <<open, confirming, reopens, ceiling, ended>>
       ELSE ended' = ended \cup {s} /\ OnEnded

(* The stream is made, and stands when `subscribe` returns. *)
SubscribeStands(s) ==
    /\ Spent(s)
    /\ stream' = [stream EXCEPT ![s] = "calling"]
    /\ ended' = ended \ {s}
    /\ cancelled' = cancelled \ {s}
    /\ listening' = s
    /\ open' = TRUE
    /\ UNCHANGED <<confirming, ceiling>>

(* Mutant: `open` is assigned after the call instead of before it. *)
SubscribeFailsInsideThenOpen(s) ==
    /\ Spent(s)
    /\ stream' = [stream EXCEPT ![s] = "failing"]
    /\ ended' = ended \cup {s}
    /\ cancelled' = cancelled \ {s}
    /\ listening' = s
    /\ open' = TRUE
    /\ confirming' = NoStream
    /\ ceiling' = Doubled(ceiling)

(* The stream fails before `subscribe` has returned: onEnded runs inside   *)
(* `start`, between its `open = true` and its assignment of `listening`.   *)
SubscribeFailsInside(s) ==
    /\ Spent(s)
    /\ stream' = [stream EXCEPT ![s] = "failing"]
    /\ ended' = ended \cup {s}
    /\ cancelled' = cancelled \ {s}
    /\ listening' = s
    /\ open' = FALSE
    /\ confirming' = NoStream
    /\ ceiling' = Doubled(ceiling)

-----------------------------------------------------------------------------
(* `fanoutEvents` calls `start` once before it returns. *)
Init ==
    /\ stopped = FALSE
    /\ listening \in Streams
    /\ confirming = NoStream
    /\ cancelled = {}
    /\ \/ /\ open = TRUE
          /\ stream = [s \in Streams |->
                          IF s = listening THEN "calling" ELSE "unused"]
          /\ ended = {}
          /\ reopens = 0
          /\ ceiling = BaseMs
       \/ /\ open = FALSE
          /\ stream = [s \in Streams |->
                          IF s = listening THEN "failing" ELSE "unused"]
          /\ ended = {listening}
          /\ reopens = 1
          /\ ceiling = Doubled(BaseMs)

(* A reopening timer fires and runs `start`.  A stream that fails inside it *)
(* has armed the next timer by the time this one is done.                   *)
Reopen(s) ==
    /\ reopens > 0
    /\ \/ SubscribeStands(s) /\ reopens' = reopens - 1
       \/ SubscribeFailsInside(s) /\ UNCHANGED reopens
    /\ UNCHANGED stopped

(* Initial metadata: onOpened re-arms the confirming timer. *)
Opened(s) ==
    /\ stream[s] = "calling"
    /\ stream' = [stream EXCEPT ![s] = "accepted"]
    /\ confirming' = s
    /\ UNCHANGED <<open, stopped, listening, reopens, ceiling, ended, cancelled>>

(* The confirming timer fires: a fresh schedule. *)
Confirmed ==
    /\ confirming # NoStream
    /\ confirming' = NoStream
    /\ ceiling' = BaseMs
    /\ UNCHANGED <<open, stopped, listening, reopens, stream, ended, cancelled>>

(* The stream raises `error`, or its only `end`. *)
StreamEnds(s) ==
    /\ Live(s)
    /\ \E after \in {"failing", "over"} :
          stream' = [stream EXCEPT ![s] = after]
    /\ TellEnded(s)
    /\ UNCHANGED <<stopped, listening, cancelled>>

(* The `end` that follows an `error`. *)
StreamEndsAgain(s) ==
    /\ stream[s] = "failing"
    /\ stream' = [stream EXCEPT ![s] = "over"]
    /\ TellEnded(s)
    /\ UNCHANGED <<stopped, listening, cancelled>>

(* Mutant: the pending reopening is not cancelled. *)
StopLeavesTimer ==
    /\ stopped' = TRUE
    /\ confirming' = NoStream
    /\ cancelled' = cancelled \cup {listening}
    /\ open' = FALSE
    /\ UNCHANGED <<reopens, listening, ceiling, stream, ended>>

(* Mutant: the stream is not cancelled. *)
StopWithoutCancel ==
    /\ stopped' = TRUE
    /\ reopens' = IF reopens > 0 THEN reopens - 1 ELSE 0
    /\ confirming' = NoStream
    /\ open' = FALSE
    /\ UNCHANGED <<cancelled, listening, ceiling, stream, ended>>

(* stop(), which either signal may call, and both may. *)
Stop ==
    /\ stopped' = TRUE
    /\ reopens' = IF reopens > 0 THEN reopens - 1 ELSE 0
    /\ confirming' = NoStream
    /\ cancelled' = cancelled \cup {listening}
    /\ open' = FALSE
    /\ UNCHANGED <<listening, ceiling, stream, ended>>

(* close(), once the HTTP server has closed behind a stop(): every stream   *)
(* whose end was not told is cancelled.                                     *)
CloseGateway ==
    /\ stopped
    /\ cancelled' = cancelled \cup {s \in Streams : ~Spent(s) /\ s \notin ended}
    /\ UNCHANGED <<open, stopped, listening, reopens, confirming, ceiling,
                   stream, ended>>

Next ==
    \/ \E s \in Streams :
          Reopen(s) \/ Opened(s) \/ StreamEnds(s) \/ StreamEndsAgain(s)
    \/ Confirmed
    \/ Stop
    \/ CloseGateway

(* A timer that is armed fires, an error is followed by its end, and a      *)
(* cancelled stream ends.  Nothing makes the Gateway accept a call, or drop *)
(* one, and nobody has to stop the process.                                 *)
Fairness ==
    /\ WF_vars(\E s \in Streams : Reopen(s))
    /\ WF_vars(Confirmed)
    /\ \A s \in Streams :
          /\ WF_vars(StreamEndsAgain(s))
          /\ WF_vars(s \in cancelled /\ StreamEnds(s))

Spec == Init /\ [][Next]_vars
FairSpec == Spec /\ Fairness

-----------------------------------------------------------------------------
(* Properties *)

(* Any stream that can still carry something is the one `listening` names: *)
(* a second subscription is never held beside it, and there is none that   *)
(* stop() would fail to cancel.                                            *)
OnlyTheHeldStreamLives ==
    \A s \in Streams : Live(s) => s = listening

(* Until it is stopped the fanout has a live stream or exactly one armed   *)
(* reopening timer, never both and never neither: it neither reopens twice *)
(* for one loss nor forgets to reopen.                                     *)
StreamOrTimer ==
    ~stopped => reopens = (IF Live(listening) THEN 0 ELSE 1)

(* At most one subscription at any time, one attempt for each that is      *)
(* lost, and none forgotten.                                               *)
OneStreamOrOneTimer == OnlyTheHeldStreamLives /\ StreamOrTimer

(* `subscribed()` tells the truth about this side of the call, an ending   *)
(* inside `subscribe` and a stop() whose cancel is still unanswered        *)
(* included.                                                               *)
SubscribedIsTrue ==
    open <=> (~stopped /\ \E s \in Streams : Live(s))

(* Only a stream that was accepted and still stands resets the schedule: a *)
(* Gateway that accepts and at once fails climbs to the ceiling.           *)
ResetIsEarned ==
    [][ceiling' < ceiling => stream[listening] = "accepted"]_vars

(* Once stop() was called no subscription is ever made again, whichever    *)
(* timer or ending was on its way when it was called.                      *)
StopIsFinal ==
    [][stopped => \A s \in Streams : Live(s)' => Live(s)]_vars

(* A fanout that stays unsubscribed keeps trying, forever. *)
KeepsTrying ==
    <>[](~open /\ ~stopped) => []<><<\E s \in Streams : Reopen(s)>>_vars

(* A stopped fanout lets go of every stream it ever made. *)
LetsGo == stopped ~> (\A s \in Streams : Spent(s))

-----------------------------------------------------------------------------
(* What the rest of the Console API sees. *)
SubState ==
    IF Live(listening)
       THEN IF stopped THEN "closing"
            ELSE IF stream[listening] = "accepted" THEN "standing" ELSE "calling"
       ELSE IF stopped THEN "stopped" ELSE "waiting"

Abstract == INSTANCE Subscription WITH sub <- SubState

(* The fanout, timers and all, is a Subscription. *)
IsASubscription == Abstract!SubSpec
=============================================================================
