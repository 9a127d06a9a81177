---------------------------- MODULE EventStreams ----------------------------
(***************************************************************************)
(* `GET /api/v1/events`: every browser's Server-Sent Events stream over    *)
(* the one subscription (http/events.ts), the registry that lets shutdown  *)
(* end them, and the shutdown itself (`stop` in server.ts).                *)
(*                                                                         *)
(* The subscription is Subscription's, which Fanout implements.  A browser *)
(* has one stream at a time: no connection, one the server has accepted    *)
(* and whose request it has not read yet ("arriving"), or an open stream.  *)
(* What the stream writes is told apart by what it says: lights, and a     *)
(* status.  Heartbeat comments carry nothing and are left out.             *)
(***************************************************************************)
EXTENDS Subscription, Naturals

CONSTANTS
    Browsers,
    Lights,
    Kinds,      \* the kinds of Invalidation that occur
    MaxGaps     \* bound: how many Gaps the Gateway announces

ASSUME KindsAssumption == Kinds \subseteq {"added", "changed", "removed"}
ASSUME GapsAssumption == MaxGaps \in Nat

VARIABLES
    server,     \* "up", "closing" (server.close called), "closed" (gateway too)
    conn,       \* each browser's connection to the events route
    listeners,  \* fanout: the streams registered to be told
    tracked,    \* registry: the streams shutdown would end
    timers,     \* the streams whose two intervals are running
    dirty,      \* per stream: light -> kind of its last Invalidation, or "clean"
    resyncing,  \* per stream: a Gap has arrived since the last flush
    lastSent,   \* per stream: the last status written
    expired,    \* the streams whose opening cookie has expired
    owed,       \* history: lights heard of and not yet written, per stream
    gaps        \* how many Gaps there have been

streamVars == <<conn, listeners, tracked, timers, dirty, resyncing, lastSent,
                expired, owed>>
vars == <<sub, server, streamVars, gaps>>

NotSent == [gateway |-> "unsaid", resyncing |-> FALSE]

Statuses == [gateway : {"connected", "reconnecting"}, resyncing : BOOLEAN]

Clean == [l \in Lights |-> "clean"]

TypeOK ==
    /\ sub \in SubStates
    /\ server \in {"up", "closing", "closed"}
    /\ conn \in [Browsers -> {"none", "arriving", "open"}]
    /\ listeners \subseteq Browsers
    /\ tracked \subseteq Browsers
    /\ timers \subseteq Browsers
    /\ dirty \in [Browsers -> [Lights -> Kinds \cup {"clean"}]]
    /\ resyncing \in [Browsers -> BOOLEAN]
    /\ lastSent \in [Browsers -> Statuses \cup {NotSent}]
    /\ expired \subseteq Browsers
    /\ owed \in [Browsers -> SUBSET Lights]
    /\ gaps \in 0..MaxGaps

-----------------------------------------------------------------------------
(* One stream *)

StatusOf(b) ==
    [gateway   |-> IF Subscribed THEN "connected" ELSE "reconnecting",
     resyncing |-> resyncing[b]]

(* The lights a flush writes a frame for. *)
Framed(b) == {l \in Lights : dirty[b][l] # "clean"}

(* Mutant: the pulse is taken back before the status is worked out. *)
FlushForgetsResyncing(b) ==
    /\ dirty' = [dirty EXCEPT ![b] = Clean]
    /\ owed' = [owed EXCEPT ![b] = @ \ Framed(b)]
    /\ lastSent' = [lastSent EXCEPT
                       ![b] = [StatusOf(b) EXCEPT !.resyncing = FALSE]]
    /\ resyncing' = [resyncing EXCEPT ![b] = FALSE]

(* Mutant: the status is written once and never again. *)
FlushSaysStatusOnce(b) ==
    /\ dirty' = [dirty EXCEPT ![b] = Clean]
    /\ owed' = [owed EXCEPT ![b] = @ \ Framed(b)]
    /\ lastSent' = [lastSent EXCEPT
                       ![b] = IF @ = NotSent THEN StatusOf(b) ELSE @]
    /\ resyncing' = [resyncing EXCEPT ![b] = FALSE]

(* Mutant: the buffer is cleared before it is walked. *)
FlushClearsFirst(b) ==
    /\ dirty' = [dirty EXCEPT ![b] = Clean]
    /\ lastSent' = [lastSent EXCEPT ![b] = StatusOf(b)]
    /\ resyncing' = [resyncing EXCEPT ![b] = FALSE]
    /\ UNCHANGED owed

(* `flush`: a frame for each dirty light, then the status if it is not the *)
(* one last written.                                                       *)
Flush(b) ==
    /\ dirty' = [dirty EXCEPT ![b] = Clean]
    /\ owed' = [owed EXCEPT ![b] = @ \ Framed(b)]
    /\ lastSent' = [lastSent EXCEPT ![b] = StatusOf(b)]
    /\ resyncing' = [resyncing EXCEPT ![b] = FALSE]

(* Mutant: a stream that ended goes on listening. *)
EndStillListening(S) ==
    /\ conn' = [b \in Browsers |-> IF b \in S THEN "none" ELSE conn[b]]
    /\ timers' = timers \ S
    /\ tracked' = tracked \ S
    /\ UNCHANGED <<listeners, dirty, resyncing, lastSent, expired, owed>>

(* `end`, for each stream of S: both intervals, the listener and the       *)
(* registration go with it, and nothing refers to its buffer any more.     *)
End(S) ==
    LET Without(f, blank) == [b \in Browsers |-> IF b \in S THEN blank ELSE f[b]]
    IN  /\ conn' = Without(conn, "none")
        /\ timers' = timers \ S
        /\ listeners' = listeners \ S
        /\ tracked' = tracked \ S
        /\ expired' = expired \ S
        /\ dirty' = Without(dirty, Clean)
        /\ owed' = Without(owed, {})
        /\ resyncing' = Without(resyncing, FALSE)
        /\ lastSent' = Without(lastSent, NotSent)

-----------------------------------------------------------------------------
Init ==
    /\ SubInit
    /\ server = "up"
    /\ conn = [b \in Browsers |-> "none"]
    /\ listeners = {}
    /\ tracked = {}
    /\ timers = {}
    /\ dirty = [b \in Browsers |-> Clean]
    /\ resyncing = [b \in Browsers |-> FALSE]
    /\ lastSent = [b \in Browsers |-> NotSent]
    /\ expired = {}
    /\ owed = [b \in Browsers |-> {}]
    /\ gaps = 0

(* The server accepts a browser's connection; its request is still to come. *)
Connect(b) ==
    /\ server = "up"
    /\ conn[b] = "none"
    /\ conn' = [conn EXCEPT ![b] = "arriving"]
    /\ UNCHANGED <<sub, server, listeners, tracked, timers, dirty, resyncing,
                   lastSent, expired, owed, gaps>>

(* `openStream`, run to its end: the first flush, then the intervals, the  *)
(* listener and the registration.  server.close() does not refuse the      *)
(* request of a connection it had already accepted.                        *)
OpenStream(b) ==
    /\ server # "closed"
    /\ conn[b] = "arriving"
    /\ conn' = [conn EXCEPT ![b] = "open"]
    /\ dirty' = [dirty EXCEPT ![b] = Clean]
    /\ owed' = [owed EXCEPT ![b] = {}]
    /\ resyncing' = [resyncing EXCEPT ![b] = FALSE]
    /\ lastSent' = [lastSent EXCEPT
                       ![b] = [StatusOf(b) EXCEPT !.resyncing = FALSE]]
    /\ timers' = timers \cup {b}
    /\ listeners' = listeners \cup {b}
    /\ tracked' = tracked \cup {b}
    /\ expired' = expired \ {b}
    /\ UNCHANGED <<sub, server, gaps>>

FlushTimer(b) ==
    /\ b \in timers
    /\ Flush(b)
    /\ UNCHANGED <<sub, server, conn, listeners, tracked, timers, expired, gaps>>

(* The cookie the stream was opened under runs out. *)
Expire(b) ==
    /\ conn[b] = "open"
    /\ expired' = expired \cup {b}
    /\ UNCHANGED <<sub, server, conn, listeners, tracked, timers, dirty,
                   resyncing, lastSent, owed, gaps>>

(* Mutant: the cookie is not looked at again once the stream is open. *)
HeartbeatOnly(b) ==
    /\ b \in timers
    /\ UNCHANGED vars

(* The heartbeat that finds it expired; any other writes its comment. *)
Heartbeat(b) ==
    /\ b \in timers
    /\ b \in expired
    /\ End({b})
    /\ UNCHANGED <<sub, server, gaps>>

(* `close` on the request, or `error` on the response. *)
Disconnect(b) ==
    /\ conn[b] # "none"
    /\ IF b \in tracked
          THEN End({b})
          ELSE /\ conn' = [conn EXCEPT ![b] = "none"]
               /\ UNCHANGED <<listeners, tracked, timers, dirty, resyncing,
                              lastSent, expired, owed>>
    /\ UNCHANGED <<sub, server, gaps>>

(* An Invalidation of a light reaches the fanout, and every listener: the  *)
(* last kind to arrive before a flush overwrites the one before it.        *)
Notice(l, kind) ==
    /\ Carrying
    /\ dirty' = [b \in Browsers |->
                    IF b \in listeners
                       THEN [dirty[b] EXCEPT ![l] = kind] ELSE dirty[b]]
    /\ owed' = [b \in Browsers |->
                   IF conn[b] = "open" THEN owed[b] \cup {l} ELSE owed[b]]
    /\ UNCHANGED <<sub, server, conn, listeners, tracked, timers, resyncing,
                   lastSent, expired, gaps>>

(* A Gap, of either cause. *)
Gap ==
    /\ Carrying
    /\ gaps < MaxGaps
    /\ gaps' = gaps + 1
    /\ resyncing' = [b \in Browsers |-> resyncing[b] \/ b \in listeners]
    /\ UNCHANGED <<sub, server, conn, listeners, tracked, timers, dirty,
                   lastSent, expired, owed>>

(* Nothing the subscription does by itself touches a stream. *)
SubStep ==
    /\ Call \/ Accept \/ Lose \/ LetGo
    /\ UNCHANGED <<server, streamVars, gaps>>

(* `stop`: the subscription first, then every stream the registry holds,   *)
(* then the server.                                                        *)
Shutdown ==
    /\ server = "up"
    /\ server' = "closing"
    /\ StopSub
    /\ End(tracked)
    /\ UNCHANGED gaps

(* A second signal runs `stop` again, over whatever has opened since. *)
SignalAgain ==
    /\ server = "closing"
    /\ tracked # {}
    /\ End(tracked)
    /\ UNCHANGED <<sub, server, gaps>>

(* server.close()'s callback, once no connection is left: gateway.close(). *)
Closed ==
    /\ server = "closing"
    /\ \A b \in Browsers : conn[b] = "none"
    /\ server' = "closed"
    /\ UNCHANGED <<sub, streamVars, gaps>>

Next ==
    \/ \E b \in Browsers :
          \/ Connect(b) \/ OpenStream(b) \/ FlushTimer(b)
          \/ Expire(b) \/ Heartbeat(b) \/ Disconnect(b)
    \/ \E l \in Lights, kind \in Kinds : Notice(l, kind)
    \/ Gap \/ SubStep \/ Shutdown \/ SignalAgain \/ Closed

(* The process's own timers and callbacks run, a request that was sent is  *)
(* read, and a cancelled subscription ends.  No browser has to connect or  *)
(* to go, no cookie to expire, and nobody has to stop the process.         *)
Fairness ==
    /\ \A b \in Browsers :
          /\ WF_vars(OpenStream(b))
          /\ WF_vars(FlushTimer(b))
          /\ WF_vars(Heartbeat(b))
    /\ WF_vars(LetGo /\ SubStep)
    /\ WF_vars(Closed)

Spec == Init /\ [][Next]_vars
FairSpec == Spec /\ Fairness

-----------------------------------------------------------------------------
(* Properties *)

Open(b) == conn[b] = "open"

(* A stream's listener, its registration and its two intervals come with   *)
(* it and go with it, however it ends: none is left running for a browser  *)
(* that has gone, and no open stream is one shutdown would not find.       *)
NothingOutlivesItsStream ==
    LET opened == {b \in Browsers : Open(b)}
    IN  listeners = opened /\ tracked = opened /\ timers = opened

(* What an open stream was told of and has not yet written is what is in   *)
(* its buffer: collapsing Invalidations by id loses no light.              *)
NoLightDropped ==
    \A b \in Browsers : Open(b) => owed[b] = Framed(b)

(* Every light an open stream is told of is written, and soon; every Gap   *)
(* shows as a pulse of `resyncing` on every open stream, and no stream is  *)
(* left saying `resyncing` once the Gaps are over.                         *)
WhatIsToldIsWritten ==
    \A b \in Browsers :
        /\ \A l \in Lights :
              l \in owed[b] /\ Open(b) ~> l \notin owed[b] \/ ~Open(b)
        /\ resyncing[b] /\ Open(b) ~> lastSent[b].resyncing \/ ~Open(b)
        /\ lastSent[b].resyncing /\ Open(b) ~> ~lastSent[b].resyncing \/ ~Open(b)

(* A stream that stays open ends up saying what the subscription is. *)
StatusSettles ==
    \A b \in Browsers :
        /\ <>[](Open(b) /\ Subscribed) =>
               <>[](lastSent[b].gateway = "connected")
        /\ <>[](Open(b) /\ ~Subscribed) =>
               <>[](lastSent[b].gateway = "reconnecting")

(* No stream outlives the session it was opened under. *)
ExpiredStreamEnds ==
    \A b \in Browsers : Open(b) /\ b \in expired ~> ~Open(b)

(* Shutdown ends every stream that is open when it runs. *)
ShutdownEndsEveryStream ==
    [][server = "up" /\ server' = "closing" =>
           \A b \in Browsers : conn[b] = "open" => conn'[b] = "none"]_vars
=============================================================================
