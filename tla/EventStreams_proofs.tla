------------------------ MODULE EventStreams_proofs ------------------------
(***************************************************************************)
(* What MCEventStreams checks of the streams' safety with two browsers,    *)
(* for every set of browsers, lights and kinds.  No fairness is used.      *)
(***************************************************************************)
EXTENDS EventStreams, TLAPS

IInv == TypeOK /\ NothingOutlivesItsStream /\ NoLightDropped

streamsOnly == <<conn, listeners, tracked, timers>>
bufferOnly == <<dirty, owed>>

-----------------------------------------------------------------------------
(* Ending some streams of those open keeps the invariant, however they are *)
(* chosen: a disconnection, an expired session, and shutdown are this.     *)
LEMMA EndIInv ==
    ASSUME IInv, NEW S, End(S), sub' \in SubStates,
           server' \in {"up", "closing", "closed"}, UNCHANGED gaps
    PROVE  IInv'
<1> USE DEF IInv
<1>1. TypeOK'
  <2>1. /\ conn' \in [Browsers -> {"none", "arriving", "open"}]
        /\ resyncing' \in [Browsers -> BOOLEAN]
        /\ lastSent' \in [Browsers -> Statuses \cup {NotSent}]
        /\ owed' \in [Browsers -> SUBSET Lights]
    BY DEF End, TypeOK
  <2>2. dirty' \in [Browsers -> [Lights -> Kinds \cup {"clean"}]]
    BY DEF End, TypeOK, Clean
  <2>3. /\ listeners' \subseteq Browsers /\ tracked' \subseteq Browsers
        /\ timers' \subseteq Browsers /\ expired' \subseteq Browsers
    BY DEF End, TypeOK
  <2> QED BY <2>1, <2>2, <2>3 DEF TypeOK
<1>2. NothingOutlivesItsStream'
  BY DEF End, NothingOutlivesItsStream, Open, TypeOK
<1>3. NoLightDropped'
  BY DEF End, NoLightDropped, Open, Framed, TypeOK
<1> QED BY <1>1, <1>2, <1>3

(* A step that moves no connection and no buffer. *)
LEMMA AsideIInv ==
    ASSUME IInv, UNCHANGED streamsOnly, UNCHANGED bufferOnly, TypeOK'
    PROVE  IInv'
BY DEF IInv, NothingOutlivesItsStream, NoLightDropped, Open, Framed,
       streamsOnly, bufferOnly

LEMMA InitIInv == Init => IInv
<1> SUFFICES ASSUME Init PROVE IInv
  OBVIOUS
<1>1. TypeOK
  <2>1. sub \in SubStates
    BY DEF Init, SubInit, SubStates
  <2>2. \A b \in Browsers : NotSent \in Statuses \cup {NotSent}
    OBVIOUS
  <2>3. dirty \in [Browsers -> [Lights -> Kinds \cup {"clean"}]]
    BY DEF Init, Clean
  <2> QED BY <2>1, <2>2, <2>3, GapsAssumption DEF Init, TypeOK
<1>2. NothingOutlivesItsStream
  BY DEF Init, NothingOutlivesItsStream, Open
<1>3. NoLightDropped
  BY DEF Init, NoLightDropped, Open
<1> QED BY <1>1, <1>2, <1>3 DEF IInv

(* What a stream says of the subscription is one of the four statuses. *)
LEMMA StatusTyped ==
    ASSUME TypeOK, NEW b \in Browsers
    PROVE  /\ StatusOf(b) \in Statuses
           /\ [StatusOf(b) EXCEPT !.resyncing = FALSE] \in Statuses
BY DEF StatusOf, Statuses, TypeOK

LEMMA ConnectIInv ==
    ASSUME IInv, NEW b \in Browsers, Connect(b)
    PROVE  IInv'
<1> USE DEF IInv
<1>1. TypeOK'
  BY DEF Connect, TypeOK
<1>2. \A c \in Browsers : Open(c)' <=> Open(c)
  BY DEF Connect, TypeOK, Open
<1>3. NothingOutlivesItsStream'
  BY <1>2 DEF Connect, NothingOutlivesItsStream
<1>4. NoLightDropped'
  BY <1>2 DEF Connect, NoLightDropped, Framed
<1> QED BY <1>1, <1>3, <1>4

(* Opening: the buffer starts clean and nothing is owed. *)
LEMMA OpenStreamIInv ==
    ASSUME IInv, NEW b \in Browsers, OpenStream(b)
    PROVE  IInv'
<1> USE DEF IInv
<1>1. TypeOK'
  <2>1. Clean \in [Lights -> Kinds \cup {"clean"}]
    BY DEF Clean
  <2>2. dirty' \in [Browsers -> [Lights -> Kinds \cup {"clean"}]]
    BY <2>1 DEF OpenStream, TypeOK
  <2>3. lastSent' \in [Browsers -> Statuses \cup {NotSent}]
    BY StatusTyped DEF OpenStream, TypeOK
  <2> QED BY <2>2, <2>3 DEF OpenStream, TypeOK
<1>2. NothingOutlivesItsStream'
  BY DEF OpenStream, NothingOutlivesItsStream, Open, TypeOK
<1>3. NoLightDropped'
  <2> SUFFICES ASSUME NEW c \in Browsers, conn'[c] = "open"
               PROVE  owed'[c] = Framed(c)'
    BY DEF NoLightDropped, Open
  <2>1. CASE c = b
    BY <2>1 DEF OpenStream, Framed, Clean, TypeOK
  <2>2. CASE c # b
    BY <2>2 DEF OpenStream, Framed, NoLightDropped, Open, TypeOK
  <2> QED BY <2>1, <2>2
<1> QED BY <1>1, <1>2, <1>3

(* A flush writes exactly what is owed. *)
LEMMA FlushTimerIInv ==
    ASSUME IInv, NEW b \in Browsers, FlushTimer(b)
    PROVE  IInv'
<1> USE DEF IInv
<1>1. TypeOK'
  <2>1. Clean \in [Lights -> Kinds \cup {"clean"}]
    BY DEF Clean
  <2>2. dirty' \in [Browsers -> [Lights -> Kinds \cup {"clean"}]]
    BY <2>1 DEF FlushTimer, Flush, TypeOK
  <2>3. lastSent' \in [Browsers -> Statuses \cup {NotSent}]
    BY StatusTyped DEF FlushTimer, Flush, TypeOK
  <2> QED BY <2>2, <2>3 DEF FlushTimer, Flush, TypeOK
<1>2. NothingOutlivesItsStream'
  BY DEF FlushTimer, NothingOutlivesItsStream, Open
<1>3. NoLightDropped'
  <2> SUFFICES ASSUME NEW c \in Browsers, conn[c] = "open"
               PROVE  owed'[c] = Framed(c)'
    BY DEF NoLightDropped, Open, FlushTimer
  <2>1. CASE c = b
    BY <2>1 DEF FlushTimer, Flush, Framed, Clean, NoLightDropped, Open, TypeOK
  <2>2. CASE c # b
    BY <2>2 DEF FlushTimer, Flush, Framed, NoLightDropped, Open, TypeOK
  <2> QED BY <2>1, <2>2
<1> QED BY <1>1, <1>2, <1>3

(* An Invalidation is buffered by every open stream, whatever was there:   *)
(* this is where the listeners' being the open streams is used.            *)
LEMMA NoticeIInv ==
    ASSUME IInv, NEW l \in Lights, NEW kind \in Kinds, Notice(l, kind)
    PROVE  IInv'
<1> USE DEF IInv
<1>1. TypeOK'
  <2>1. dirty' \in [Browsers -> [Lights -> Kinds \cup {"clean"}]]
    BY DEF Notice, TypeOK
  <2>2. owed' \in [Browsers -> SUBSET Lights]
    BY DEF Notice, TypeOK
  <2> QED BY <2>1, <2>2 DEF Notice, TypeOK
<1>2. NothingOutlivesItsStream'
  BY DEF Notice, NothingOutlivesItsStream, Open
<1>3. NoLightDropped'
  <2> SUFFICES ASSUME NEW c \in Browsers, conn[c] = "open"
               PROVE  owed'[c] = Framed(c)'
    BY DEF NoLightDropped, Open, Notice
  <2>1. c \in listeners
    BY DEF NothingOutlivesItsStream, Open
  <2>2. dirty'[c] = [dirty[c] EXCEPT ![l] = kind]
    BY <2>1 DEF Notice
  <2>3. owed'[c] = owed[c] \cup {l}
    BY DEF Notice
  <2>4. kind # "clean"
    BY KindsAssumption
  <2>5. owed[c] = Framed(c)
    BY DEF NoLightDropped, Open
  <2>6. dirty[c] \in [Lights -> Kinds \cup {"clean"}]
    BY DEF TypeOK
  <2> QED BY <2>2, <2>3, <2>4, <2>5, <2>6 DEF Framed
<1> QED BY <1>1, <1>2, <1>3

LEMMA DisconnectIInv ==
    ASSUME IInv, NEW b \in Browsers, Disconnect(b)
    PROVE  IInv'
<1> USE DEF IInv
<1>1. CASE b \in tracked
  BY <1>1, EndIInv DEF Disconnect, TypeOK
<1>2. CASE b \notin tracked
  <2>1. TypeOK'
    BY <1>2 DEF Disconnect, TypeOK
  <2>2. ~Open(b)
    BY <1>2 DEF NothingOutlivesItsStream
  <2>3. \A c \in Browsers : Open(c)' <=> Open(c)
    BY <1>2, <2>2 DEF Disconnect, TypeOK, Open
  <2>4. NothingOutlivesItsStream'
    BY <1>2, <2>3 DEF Disconnect, NothingOutlivesItsStream
  <2>5. NoLightDropped'
    BY <1>2, <2>3 DEF Disconnect, NoLightDropped, Framed
  <2> QED BY <2>1, <2>4, <2>5
<1> QED BY <1>1, <1>2

(* What the subscription does by itself stays among its states. *)
LEMMA SubTyped ==
    ASSUME sub \in SubStates, SubNext
    PROVE  sub' \in SubStates
BY DEF SubNext, Call, Accept, Lose, StopSub, LetGo, Subscribed, SubStates

LEMMA NextIInv == IInv /\ [Next]_vars => IInv'
<1> SUFFICES ASSUME IInv, [Next]_vars PROVE IInv'
  OBVIOUS
<1> USE DEF IInv
<1>1. ASSUME NEW b \in Browsers, Connect(b) PROVE IInv'
  BY <1>1, ConnectIInv
<1>2. ASSUME NEW b \in Browsers, OpenStream(b) PROVE IInv'
  BY <1>2, OpenStreamIInv
<1>3. ASSUME NEW b \in Browsers, FlushTimer(b) PROVE IInv'
  BY <1>3, FlushTimerIInv
<1>4. ASSUME NEW b \in Browsers, Expire(b) PROVE IInv'
  <2>1. TypeOK'
    BY <1>4 DEF Expire, TypeOK
  <2> QED BY <1>4, <2>1, AsideIInv DEF Expire, streamsOnly, bufferOnly
<1>5. ASSUME NEW b \in Browsers, Heartbeat(b) PROVE IInv'
  BY <1>5, EndIInv DEF Heartbeat, TypeOK
<1>6. ASSUME NEW b \in Browsers, Disconnect(b) PROVE IInv'
  BY <1>6, DisconnectIInv
<1>7. ASSUME NEW l \in Lights, NEW kind \in Kinds, Notice(l, kind) PROVE IInv'
  BY <1>7, NoticeIInv
<1>8. CASE Gap
  <2>1. resyncing' \in [Browsers -> BOOLEAN]
    BY <1>8 DEF Gap
  <2>2. gaps' \in 0..MaxGaps
    BY <1>8, GapsAssumption DEF Gap, TypeOK
  <2>3. TypeOK'
    BY <1>8, <2>1, <2>2 DEF Gap, TypeOK
  <2> QED BY <1>8, <2>3, AsideIInv DEF Gap, streamsOnly, bufferOnly
<1>9. CASE SubStep
  <2>1. sub' \in SubStates
    BY <1>9, SubTyped DEF SubStep, SubNext, TypeOK
  <2>2. TypeOK'
    BY <1>9, <2>1 DEF SubStep, streamVars, TypeOK
  <2> QED
    BY <1>9, <2>2, AsideIInv DEF SubStep, streamVars, streamsOnly, bufferOnly
<1>10. CASE Shutdown
  <2>1. sub' \in SubStates
    BY <1>10, SubTyped DEF Shutdown, SubNext, TypeOK
  <2> QED BY <1>10, <2>1, EndIInv DEF Shutdown
<1>11. CASE SignalAgain
  BY <1>11, EndIInv DEF SignalAgain, TypeOK
<1>12. CASE Closed
  <2>1. TypeOK'
    BY <1>12 DEF Closed, streamVars, TypeOK
  <2> QED
    BY <1>12, <2>1, AsideIInv DEF Closed, streamVars, streamsOnly, bufferOnly
<1>13. CASE UNCHANGED vars
  <2>1. TypeOK'
    BY <1>13 DEF vars, streamVars, TypeOK
  <2> QED
    BY <1>13, <2>1, AsideIInv DEF vars, streamVars, streamsOnly, bufferOnly
<1> QED
  BY <1>1, <1>2, <1>3, <1>4, <1>5, <1>6, <1>7, <1>8, <1>9, <1>10, <1>11,
     <1>12, <1>13 DEF Next

(* Every reachable state satisfies the invariant. *)
THEOREM StreamsInvariant == Spec => []IInv
BY InitIInv, NextIInv, PTL DEF Spec

(* Every variable stays in its type. *)
THEOREM StreamsTyped == Spec => []TypeOK
<1>1. IInv => TypeOK
  BY DEF IInv
<1> QED BY <1>1, StreamsInvariant, PTL

(* No listener, timer or registration is left behind by a stream, and none *)
(* is missing from one that is open.                                       *)
THEOREM StreamsTidy == Spec => []NothingOutlivesItsStream
<1>1. IInv => NothingOutlivesItsStream
  BY DEF IInv
<1> QED BY <1>1, StreamsInvariant, PTL

(* No light a stream was told of leaves its buffer unwritten. *)
THEOREM LightsKept == Spec => []NoLightDropped
<1>1. IInv => NoLightDropped
  BY DEF IInv
<1> QED BY <1>1, StreamsInvariant, PTL

(* A step from serving to shutting down leaves no stream open: it can only *)
(* be `stop`, which ends every registered one, and those are all of them.  *)
LEMMA ShutdownStep ==
    ASSUME IInv, [Next]_vars, server = "up", server' = "closing",
           NEW b \in Browsers, conn[b] = "open"
    PROVE  conn'[b] = "none"
<1>1. Shutdown
  BY DEF Next, Connect, OpenStream, FlushTimer, Expire, Heartbeat, Disconnect,
         Notice, Gap, SubStep, SignalAgain, Closed, vars
<1>2. b \in tracked
  BY DEF IInv, NothingOutlivesItsStream, Open
<1> QED BY <1>1, <1>2 DEF Shutdown, End

(* Shutdown ends every stream that is open when it runs. *)
THEOREM ShutdownFindsEveryStream == Spec => ShutdownEndsEveryStream
<1>1. IInv /\ [Next]_vars =>
          [server = "up" /\ server' = "closing" =>
              \A b \in Browsers : conn[b] = "open" => conn'[b] = "none"]_vars
  BY ShutdownStep
<1> QED BY <1>1, StreamsInvariant, PTL DEF Spec, ShutdownEndsEveryStream
=============================================================================
