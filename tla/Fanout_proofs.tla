--------------------------- MODULE Fanout_proofs ---------------------------
(***************************************************************************)
(* What MCFanout checks with three streams, for every set of streams and   *)
(* every base and ceiling: the safety properties of Fanout, and that it    *)
(* implements Subscription.  No fairness is used.                          *)
(***************************************************************************)
EXTENDS Fanout, TLAPS

(* An ending that was raised has been told, and a stream that can still end *)
(* has not been told of an end.                                             *)
ToldWhenRaised ==
    \A s \in Streams : /\ stream[s] = "failing" => s \in ended
                       /\ Live(s) => s \notin ended

(* The confirming timer belongs to the accepted stream that is held. *)
ConfirmsTheHeldStream ==
    confirming # NoStream =>
        confirming = listening /\ stream[listening] = "accepted"

StoppedHasNoTimer == stopped => reopens = 0

IInv ==
    /\ TypeOK
    /\ OnlyTheHeldStreamLives
    /\ StreamOrTimer
    /\ SubscribedIsTrue
    /\ ToldWhenRaised
    /\ ConfirmsTheHeldStream
    /\ StoppedHasNoTimer

-----------------------------------------------------------------------------
(* The next ceiling is between this one and the last. *)
LEMMA DoubledBounds ==
    ASSUME NEW c \in BaseMs..CeilingMs
    PROVE  Doubled(c) \in BaseMs..CeilingMs /\ Doubled(c) >= c
BY BackoffAssumption DEF Doubled

(* The fanout starts with the invariant: its first attempt stands, or its *)
(* first reopening timer is armed.                                        *)
LEMMA InitIInv == Init => IInv
<1> SUFFICES ASSUME Init PROVE IInv
  OBVIOUS
<1>1. BaseMs \in BaseMs..CeilingMs
  BY BackoffAssumption
<1>2. ceiling \in BaseMs..CeilingMs
  <2>1. Doubled(BaseMs) \in BaseMs..CeilingMs
    BY <1>1, DoubledBounds
  <2> QED BY <1>1, <2>1 DEF Init
<1>3. stream \in [Streams -> StreamStates]
  BY DEF Init, StreamStates
<1>4. TypeOK
  <2>1. open \in BOOLEAN /\ stopped \in BOOLEAN
    <3>1. open = TRUE \/ open = FALSE
      BY Zenon DEF Init
    <3> QED BY <3>1 DEF Init
  <2>2. reopens \in Nat /\ ended \subseteq Streams /\ cancelled \subseteq Streams
    BY DEF Init
  <2>3. listening \in Streams /\ confirming \in Streams \cup {NoStream}
    BY DEF Init
  <2> QED BY <1>2, <1>3, <2>1, <2>2, <2>3 DEF TypeOK
<1>5. OnlyTheHeldStreamLives /\ StreamOrTimer /\ SubscribedIsTrue
  BY DEF Init, OnlyTheHeldStreamLives, StreamOrTimer, SubscribedIsTrue, Live
<1>6. ToldWhenRaised /\ ConfirmsTheHeldStream /\ StoppedHasNoTimer
  BY DEF Init, ToldWhenRaised, ConfirmsTheHeldStream, StoppedHasNoTimer, Live
<1> QED
  BY <1>4, <1>5, <1>6 DEF IInv

(* A reopening keeps it: a timer is armed only when no stream lives. *)
LEMMA ReopenIInv ==
    ASSUME IInv, NEW s \in Streams, Reopen(s)
    PROVE  IInv'
<1> USE DEF IInv
<1>1. ~stopped /\ reopens = 1 /\ ~Live(listening)
  BY DEF Reopen, StreamOrTimer, StoppedHasNoTimer, TypeOK
<1>2. \A t \in Streams : ~Live(t)
  BY <1>1 DEF OnlyTheHeldStreamLives
<1>3. confirming = NoStream
  BY <1>1, <1>2 DEF ConfirmsTheHeldStream, Live, TypeOK
<1>4. CASE SubscribeStands(s) /\ reopens' = reopens - 1
  <2>1. TypeOK'
    BY <1>1, <1>4 DEF Reopen, SubscribeStands, TypeOK, StreamStates
  <2>2. stream'[s] = "calling" /\ \A t \in Streams \ {s} : stream'[t] = stream[t]
    BY <1>4 DEF SubscribeStands, TypeOK
  <2>3. OnlyTheHeldStreamLives' /\ StreamOrTimer' /\ SubscribedIsTrue'
    BY <1>1, <1>2, <1>4, <2>1, <2>2
    DEF Reopen, SubscribeStands, OnlyTheHeldStreamLives, StreamOrTimer,
        SubscribedIsTrue, Live, TypeOK
  <2>4. ToldWhenRaised' /\ ConfirmsTheHeldStream' /\ StoppedHasNoTimer'
    BY <1>1, <1>2, <1>3, <1>4, <2>2
    DEF Reopen, SubscribeStands, ToldWhenRaised, ConfirmsTheHeldStream,
        StoppedHasNoTimer, Live
  <2> QED BY <2>1, <2>3, <2>4
<1>5. CASE SubscribeFailsInside(s) /\ UNCHANGED reopens
  <2>1. TypeOK'
    BY <1>1, <1>5, DoubledBounds
    DEF Reopen, SubscribeFailsInside, TypeOK, StreamStates
  <2>2. stream'[s] = "failing" /\ \A t \in Streams \ {s} : stream'[t] = stream[t]
    BY <1>5 DEF SubscribeFailsInside, TypeOK
  <2>3. OnlyTheHeldStreamLives' /\ StreamOrTimer' /\ SubscribedIsTrue'
    BY <1>1, <1>2, <1>5, <2>1, <2>2
    DEF Reopen, SubscribeFailsInside, OnlyTheHeldStreamLives, StreamOrTimer,
        SubscribedIsTrue, Live, TypeOK
  <2>4. ToldWhenRaised' /\ ConfirmsTheHeldStream' /\ StoppedHasNoTimer'
    BY <1>1, <1>2, <1>5, <2>2
    DEF Reopen, SubscribeFailsInside, ToldWhenRaised, ConfirmsTheHeldStream,
        StoppedHasNoTimer, Live
  <2> QED BY <2>1, <2>3, <2>4
<1> QED
  BY <1>4, <1>5 DEF Reopen

(* So does a stream's end, told or already told. *)
LEMMA EndIInv ==
    ASSUME IInv, NEW s \in Streams, StreamEnds(s) \/ StreamEndsAgain(s)
    PROVE  IInv'
<1> USE DEF IInv
<1>1. CASE StreamEnds(s)
  <2>1. s = listening /\ s \notin ended
    BY <1>1 DEF StreamEnds, OnlyTheHeldStreamLives, ToldWhenRaised
  <2>2. OnEnded /\ ended' = ended \cup {s}
    BY <1>1, <2>1 DEF StreamEnds, TellEnded
  <2>3. /\ stream'[s] \in {"failing", "over"}
        /\ \A t \in Streams \ {s} : stream'[t] = stream[t]
        /\ stream' \in [Streams -> StreamStates]
    BY <1>1 DEF StreamEnds, TypeOK, StreamStates
  <2>4. \A t \in Streams : ~Live(t)'
    BY <2>1, <2>3 DEF OnlyTheHeldStreamLives, Live
  <2>5. TypeOK'
    <3>1. reopens' \in Nat /\ ceiling' \in BaseMs..CeilingMs
      BY <2>2, DoubledBounds DEF OnEnded, TypeOK
    <3>2. open' \in BOOLEAN /\ confirming' \in Streams \cup {NoStream}
      BY <2>2 DEF OnEnded
    <3>3. ended' \subseteq Streams
      BY <2>2 DEF TypeOK
    <3> QED BY <1>1, <2>3, <3>1, <3>2, <3>3 DEF StreamEnds, TypeOK
  <2>6. OnlyTheHeldStreamLives' /\ StreamOrTimer' /\ SubscribedIsTrue'
    BY <1>1, <2>1, <2>2, <2>4
    DEF StreamEnds, OnEnded, OnlyTheHeldStreamLives, StreamOrTimer,
        SubscribedIsTrue, TypeOK, Live
  <2>7. ToldWhenRaised' /\ ConfirmsTheHeldStream' /\ StoppedHasNoTimer'
    BY <1>1, <2>2, <2>3, <2>4
    DEF StreamEnds, OnEnded, ToldWhenRaised, ConfirmsTheHeldStream,
        StoppedHasNoTimer, Live
  <2> QED BY <2>5, <2>6, <2>7
<1>2. CASE StreamEndsAgain(s)
  <2>1. s \in ended
    BY <1>2 DEF StreamEndsAgain, ToldWhenRaised
  <2>2. UNCHANGED <<open, confirming, reopens, ceiling, ended, stopped, listening, cancelled>>
    BY <1>2, <2>1 DEF StreamEndsAgain, TellEnded
  <2>3. /\ stream[s] = "failing" /\ stream'[s] = "over"
        /\ \A t \in Streams \ {s} : stream'[t] = stream[t]
        /\ stream' \in [Streams -> StreamStates]
    BY <1>2 DEF StreamEndsAgain, TypeOK, StreamStates
  <2>4. \A t \in Streams : Live(t)' <=> Live(t)
    BY <2>3 DEF Live
  <2>5. TypeOK'
    BY <2>2, <2>3 DEF TypeOK
  <2>6. OnlyTheHeldStreamLives' /\ StreamOrTimer' /\ SubscribedIsTrue'
    BY <2>2, <2>4
    DEF OnlyTheHeldStreamLives, StreamOrTimer, SubscribedIsTrue, TypeOK
  <2>7. ToldWhenRaised' /\ ConfirmsTheHeldStream' /\ StoppedHasNoTimer'
    BY <2>2, <2>3, <2>4
    DEF ToldWhenRaised, ConfirmsTheHeldStream, StoppedHasNoTimer, TypeOK
  <2> QED BY <2>5, <2>6, <2>7
<1> QED
  BY <1>1, <1>2

(* Every step of the fanout keeps the invariant. *)
LEMMA NextIInv == IInv /\ [Next]_vars => IInv'
<1> SUFFICES ASSUME IInv, [Next]_vars PROVE IInv'
  OBVIOUS
<1> USE DEF IInv
<1>1. ASSUME NEW s \in Streams, Reopen(s) PROVE IInv'
  BY <1>1, ReopenIInv
<1>2. ASSUME NEW s \in Streams, Opened(s) PROVE IInv'
  <2>1. s = listening
    BY <1>2 DEF Opened, OnlyTheHeldStreamLives, Live
  <2>2. /\ stream[s] = "calling" /\ stream'[s] = "accepted"
        /\ \A t \in Streams \ {s} : stream'[t] = stream[t]
        /\ stream' \in [Streams -> StreamStates]
    BY <1>2 DEF Opened, TypeOK, StreamStates
  <2>3. \A t \in Streams : Live(t)' <=> Live(t)
    BY <2>2 DEF Live
  <2>4. TypeOK'
    BY <1>2, <2>2 DEF Opened, TypeOK
  <2>5. OnlyTheHeldStreamLives' /\ StreamOrTimer' /\ SubscribedIsTrue'
    BY <1>2, <2>3
    DEF Opened, OnlyTheHeldStreamLives, StreamOrTimer, SubscribedIsTrue, TypeOK
  <2>6. ToldWhenRaised' /\ ConfirmsTheHeldStream' /\ StoppedHasNoTimer'
    BY <1>2, <2>1, <2>2, <2>3
    DEF Opened, ToldWhenRaised, ConfirmsTheHeldStream, StoppedHasNoTimer
  <2> QED BY <2>4, <2>5, <2>6
<1>3. ASSUME NEW s \in Streams, StreamEnds(s) \/ StreamEndsAgain(s) PROVE IInv'
  BY <1>3, EndIInv
<1>4. CASE Confirmed
  <2>1. TypeOK'
    BY <1>4, BackoffAssumption DEF Confirmed, TypeOK
  <2> QED
    BY <1>4, <2>1
    DEF Confirmed, OnlyTheHeldStreamLives, StreamOrTimer, SubscribedIsTrue,
        ToldWhenRaised, ConfirmsTheHeldStream, StoppedHasNoTimer, Live
<1>5. CASE Stop
  <2>1. reopens' = 0
    BY <1>5 DEF Stop, StreamOrTimer, StoppedHasNoTimer, TypeOK
  <2>2. TypeOK'
    <3>1. stopped' \in BOOLEAN /\ open' \in BOOLEAN
      BY <1>5 DEF Stop
    <3>2. cancelled' \subseteq Streams
      BY <1>5 DEF Stop, TypeOK
    <3> QED BY <1>5, <2>1, <3>1, <3>2 DEF Stop, TypeOK
  <2> QED
    BY <1>5, <2>1, <2>2
    DEF Stop, OnlyTheHeldStreamLives, StreamOrTimer, SubscribedIsTrue,
        ToldWhenRaised, ConfirmsTheHeldStream, StoppedHasNoTimer, Live
<1>6. CASE CloseGateway
  BY <1>6
  DEF CloseGateway, TypeOK, OnlyTheHeldStreamLives, StreamOrTimer,
      SubscribedIsTrue, ToldWhenRaised, ConfirmsTheHeldStream,
      StoppedHasNoTimer, Live
<1>7. CASE UNCHANGED vars
  BY <1>7
  DEF vars, TypeOK, OnlyTheHeldStreamLives, StreamOrTimer, SubscribedIsTrue,
      ToldWhenRaised, ConfirmsTheHeldStream, StoppedHasNoTimer, Live
<1> QED
  BY <1>1, <1>2, <1>3, <1>4, <1>5, <1>6, <1>7 DEF Next

(* The inductive invariant holds throughout. *)
LEMMA SpecIInv == Spec => []IInv
  BY InitIInv, NextIInv, PTL DEF Spec

-----------------------------------------------------------------------------
(* Every variable of the fanout keeps its type, the ceiling its bounds. *)
THEOREM FanoutTyped == Spec => []TypeOK
  BY SpecIInv, PTL DEF IInv

(* There is never a second subscription, nor one stop() would not cancel,  *)
(* and one loss is answered with one reopening.                            *)
THEOREM OneTimerPerLoss == Spec => []OneStreamOrOneTimer
<1>1. IInv => OneStreamOrOneTimer
  BY DEF IInv, OneStreamOrOneTimer
<1> QED
  BY <1>1, SpecIInv, PTL

(* `subscribed()` is true exactly while a stream lives and nobody stopped. *)
THEOREM SubscribedTruthful == Spec => []SubscribedIsTrue
  BY SpecIInv, PTL DEF IInv

(* The backoff schedule is reset only under an accepted stream. *)
THEOREM BackoffResetEarned == Spec => ResetIsEarned
<1>1. IInv /\ [Next]_vars => [ceiling' < ceiling => stream[listening] = "accepted"]_vars
  <2> SUFFICES ASSUME IInv, Next, ceiling' < ceiling
               PROVE  stream[listening] = "accepted"
    OBVIOUS
  <2> USE DEF IInv, TypeOK
  <2>1. ~(ceiling < ceiling) /\ ~(Doubled(ceiling) < ceiling)
    BY DoubledBounds, BackoffAssumption DEF Doubled
  <2>2. CASE Confirmed
    BY <2>2 DEF Confirmed, ConfirmsTheHeldStream
  <2>3. CASE \E s \in Streams : Reopen(s) \/ Opened(s) \/ StreamEnds(s) \/ StreamEndsAgain(s)
    BY <2>1, <2>3
    DEF Reopen, SubscribeStands, SubscribeFailsInside, Opened, StreamEnds,
        StreamEndsAgain, TellEnded, OnEnded
  <2>4. CASE Stop \/ CloseGateway
    BY <2>1, <2>4 DEF Stop, CloseGateway
  <2> QED
    BY <2>2, <2>3, <2>4 DEF Next
<1> QED
  BY <1>1, SpecIInv, PTL DEF Spec, ResetIsEarned

(* A stopped fanout never subscribes again. *)
THEOREM StoppedForGood == Spec => StopIsFinal
<1>1. IInv /\ [Next]_vars =>
        [stopped => \A s \in Streams : Live(s)' => Live(s)]_vars
  <2> SUFFICES ASSUME IInv, Next, stopped, NEW t \in Streams, Live(t)'
               PROVE  Live(t)
    OBVIOUS
  <2> USE DEF IInv, TypeOK
  <2>1. ASSUME NEW s \in Streams, Reopen(s) PROVE FALSE
    BY <2>1 DEF Reopen, StoppedHasNoTimer
  <2>2. ASSUME NEW s \in Streams, Opened(s) PROVE Live(t)
    BY <2>2 DEF Opened, Live
  <2>3. ASSUME NEW s \in Streams, StreamEnds(s) \/ StreamEndsAgain(s) PROVE Live(t)
    BY <2>3 DEF StreamEnds, StreamEndsAgain, Live
  <2>4. CASE Confirmed \/ Stop \/ CloseGateway
    BY <2>4 DEF Confirmed, Stop, CloseGateway, Live
  <2> QED
    BY <2>1, <2>2, <2>3, <2>4 DEF Next
<1> QED
  BY <1>1, SpecIInv, PTL DEF Spec, StopIsFinal

-----------------------------------------------------------------------------
(* Refinement *)

(* A first attempt that stands is "calling", one that failed "waiting". *)
LEMMA InitRefines == Init => Abstract!SubInit
  BY DEF Init, Abstract!SubInit, SubState, Live

(* Every step of the fanout is one of Subscription's, or changes nothing it *)
(* sees.                                                                    *)
LEMMA StepRefines == IInv /\ [Next]_vars => [Abstract!SubNext]_SubState
<1> SUFFICES ASSUME IInv, [Next]_vars PROVE [Abstract!SubNext]_SubState
  OBVIOUS
<1> USE DEF IInv, Abstract!SubNext, Abstract!Call, Abstract!Accept, Abstract!Lose,
            Abstract!StopSub, Abstract!LetGo, Abstract!Subscribed
<1>1. ASSUME NEW s \in Streams, Reopen(s) PROVE [Abstract!SubNext]_SubState
  <2>1. ~stopped /\ ~Live(listening)
    BY <1>1 DEF Reopen, StreamOrTimer, StoppedHasNoTimer, TypeOK
  <2>2. SubState = "waiting"
    BY <2>1 DEF SubState
  <2>3. SubscribeStands(s) => SubState' = "calling"
    BY <1>1, <2>1 DEF Reopen, SubscribeStands, SubState, Live, TypeOK
  <2>4. SubscribeFailsInside(s) => SubState' = "waiting"
    BY <1>1, <2>1 DEF Reopen, SubscribeFailsInside, SubState, Live, TypeOK
  <2> QED
    BY <1>1, <2>2, <2>3, <2>4 DEF Reopen
<1>2. ASSUME NEW s \in Streams, Opened(s) PROVE [Abstract!SubNext]_SubState
  <2>1. s = listening
    BY <1>2 DEF Opened, OnlyTheHeldStreamLives, Live
  <2> QED
    BY <1>2, <2>1 DEF Opened, SubState, Live, TypeOK
<1>3. ASSUME NEW s \in Streams, StreamEnds(s) PROVE [Abstract!SubNext]_SubState
  <2>1. s = listening
    BY <1>3 DEF StreamEnds, OnlyTheHeldStreamLives
  <2>2. SubState \in {"calling", "standing", "closing"}
    BY <1>3, <2>1 DEF StreamEnds, SubState
  <2>3. ~Live(listening)' /\ stopped' = stopped
    BY <1>3, <2>1 DEF StreamEnds, Live, TypeOK
  <2> QED
    BY <2>2, <2>3 DEF SubState
<1>4. ASSUME NEW s \in Streams, StreamEndsAgain(s) PROVE [Abstract!SubNext]_SubState
  BY <1>4 DEF StreamEndsAgain, SubState, Live, TypeOK
<1>5. CASE Stop
  BY <1>5 DEF Stop, SubState, Live
<1>6. CASE Confirmed \/ CloseGateway \/ UNCHANGED vars
  BY <1>6 DEF Confirmed, CloseGateway, vars, SubState, Live
<1> QED
  BY <1>1, <1>2, <1>3, <1>4, <1>5, <1>6 DEF Next

(* The fanout implements the subscription the other modules rely on. *)
THEOREM FanoutImplementsSubscription == Spec => IsASubscription
  BY InitRefines, StepRefines, SpecIInv, PTL
  DEF Spec, IsASubscription, Abstract!SubSpec
=============================================================================
