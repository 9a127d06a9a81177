----------------------------- MODULE LiveLights -----------------------------
(***************************************************************************)
(* From the Bridge to the screen: one Console over the Console API's event *)
(* stream (EventStreams, whose actions are used as they are) and over its  *)
(* reads, which the API shares with every other browser's: a read joins    *)
(* the RPC already in flight for its key (gateway/single-flight.ts).  The  *)
(* Console's part is openEventStream (events/eventStream.ts),              *)
(* LiveLightsProvider, raceAwareInvalidate and invalidateLight, on top of  *)
(* the query cache, which is TanStack Query's and modelled from its use.   *)
(*                                                                         *)
(* What a cached copy holds is told apart only by whether something has    *)
(* happened that it does not show, and the same of an RPC in flight and of *)
(* an answer on its way.  One page is on screen at a time, over one query: *)
(* the list, or a light's detail.                                          *)
(*                                                                         *)
(* Nothing promises that a word of every change is heard.  What is lost is *)
(* kept in a history variable, `missed`, to which only the steps that lose *)
(* something add; the properties say what holds of everything else.        *)
(***************************************************************************)
EXTENDS EventStreams, SequencesExt

CONSTANTS
    Console,        \* the browser
    NoPage,         \* no query is on screen
    MaxChanges,     \* bound: changes at the Bridge
    MaxLosses,      \* bound: losses of the subscription; at 0, it loses no word
    MaxDrops,       \* bound: ends of the Console's own stream, however it ends
    MaxFails,       \* bound: reads that fail
    MaxOthers,      \* bound: reads other browsers make
    MaxTroubles,    \* bound: all of these, and Gaps, taken together
    MaxWire         \* bound: a flush waits for a backlog to be read

ASSUME ConsoleAssumption == Browsers = {Console}
ASSUME PageAssumption == NoPage \notin Lights \cup {"list"}
ASSUME LightsAssumption == IsFiniteSet(Lights) /\ "list" \notin Lights

VARIABLES
    roster,     \* each light: "later" (not paired yet), "here", "gone"
    onStream,   \* Invalidations the Gateway has sent and the API not yet read
    wire,       \* frames written to the Console's stream and not yet read
    rpc,        \* single flight: each key's RPC: "none", "asked", or what it
                \* will be answered with: "fresh", or "old" when something
                \* happened since the Bridge was read for it
    source,     \* the EventSource: "open", or "closed" for good
    live,       \* useLiveStatus: "connecting", "connected", "disconnected"
    previousGateway,    \* the last status heard, or "unsaid"
    page,       \* the query on screen
    data,       \* each query's cached copy: "none", "fresh", "stale"
    fetch,      \* its fetch: "idle"; "asked", until the API has the request;
                \* "waiting" for the RPC; or the answer on its way: "fresh",
                \* "old" like the RPC's, or "refused"
    invalid,    \* the queries marked invalid
    errored,    \* the queries whose last fetch failed
    followUps,  \* the scopes waiting in raceAwareInvalidate, first come first
    missed,     \* history: the queries a word of which was lost, or that were
                \* answered with less than was asked for, and not read since
    spent       \* bounds: how many of each thing has happened

cacheVars == <<data, fetch, invalid, errored, followUps>>
consoleVars == <<source, live, previousGateway, page, cacheVars>>
gatewayVars == <<roster, onStream>>
apiVars == <<sub, server, streamVars, gaps>>
llVars == <<apiVars, gatewayVars, wire, rpc, consoleVars, missed, spent>>

Queries == {"list"} \cup Lights

(* The scopes raceAwareInvalidate is called with: one key, or the prefix. *)
One(q) == {q}
Everything == Queries

NoticeFrame == [light : Lights, kind : Kinds]
StatusFrame == [gateway : {"connected", "reconnecting"}]

RpcStates == {"none", "asked", "fresh", "old"}
FetchStates == {"idle", "asked", "waiting", "fresh", "old", "refused"}
Bounded == {"changes", "losses", "drops", "fails", "others"}

LiveTypeOK ==
    /\ TypeOK
    /\ roster \in [Lights -> {"later", "here", "gone"}]
    /\ onStream \in Seq(NoticeFrame)
    /\ wire \in Seq(NoticeFrame \cup StatusFrame)
    /\ rpc \in [Queries -> RpcStates]
    /\ source \in {"open", "closed"}
    /\ live \in {"connecting", "connected", "disconnected"}
    /\ previousGateway \in {"unsaid", "connected", "reconnecting"}
    /\ page \in Queries \cup {NoPage}
    /\ data \in [Queries -> {"none", "fresh", "stale"}]
    /\ fetch \in [Queries -> FetchStates]
    /\ invalid \subseteq Queries
    /\ errored \subseteq Queries
    /\ followUps \in Seq({One(q) : q \in Queries} \cup {Everything})
    /\ IsInjective(followUps)
    /\ missed \subseteq Queries
    /\ spent \in [Bounded -> Nat]

Spend(what, bound) ==
    /\ spent[what] < bound
    /\ spent' = [spent EXCEPT ![what] = @ + 1]

Troubles ==
    spent["losses"] + spent["drops"] + spent["fails"] + spent["others"] + gaps

Trouble(what, bound) == Troubles < MaxTroubles /\ Spend(what, bound)

-----------------------------------------------------------------------------
(* The query cache, as a value: what invalidating and settling do to it *)

Cache == [fetch |-> fetch, invalid |-> invalid, followUps |-> followUps]

Becomes(c) ==
    /\ fetch' = c.fetch
    /\ invalid' = c.invalid
    /\ followUps' = c.followUps

StillFetching(c, scope) == \E q \in scope : c.fetch[q] # "idle"

(* `invalidateQueries`: the copies are marked, and the one on screen is    *)
(* read again.                                                             *)
Invalidated(c, scope) ==
    [c EXCEPT !.invalid = @ \cup scope,
              !.fetch = [q \in Queries |->
                            IF q \in scope \cap {page} THEN "asked" ELSE @[q]]]

(* Mutant: the Invalidation joins whatever fetch is running. *)
NoFollowUp(c, scope) ==
    IF StillFetching(c, scope) THEN c ELSE Invalidated(c, scope)

(* Mutant: the follow-up is scheduled whether or not one is. *)
FollowUpTwice(c, scope) ==
    IF StillFetching(c, scope)
       THEN [c EXCEPT !.followUps = Append(@, scope)]
       ELSE Invalidated(c, scope)

(* Mutant: one is scheduled without looking whether anything is fetching. *)
FollowUpAlways(c, scope) ==
    IF Contains(c.followUps, scope)
       THEN c
       ELSE [c EXCEPT !.followUps = Append(@, scope)]

(* `raceAwareInvalidate`. *)
RaceAware(c, scope) ==
    IF ~StillFetching(c, scope)
       THEN Invalidated(c, scope)
       ELSE IF Contains(c.followUps, scope)
               THEN c
               ELSE [c EXCEPT !.followUps = Append(@, scope)]

(* A follow-up told that the cache has changed: it goes on waiting, or     *)
(* invalidates and is done.                                                *)
FollowUp(c, scope) ==
    IF StillFetching(c, scope)
       THEN [c EXCEPT !.followUps = Append(@, scope)]
       ELSE Invalidated(c, scope)

(* A fetch has settled, and every follow-up is told, in turn. *)
Told(c) ==
    LET waiting == c.followUps
        told[n \in 0..Len(waiting)] ==
            IF n = 0 THEN [c EXCEPT !.followUps = <<>>]
            ELSE FollowUp(told[n - 1], waiting[n])
    IN  told[Len(waiting)]

(* Mutant: the detail alone is invalidated. *)
DetailOnly(c, l) == RaceAware(c, One(l))

(* `invalidateLight`: the detail, then the list. *)
InvalidateLight(c, l) == RaceAware(RaceAware(c, One(l)), One("list"))

-----------------------------------------------------------------------------
(* What misses something, and what is still to come of it *)

(* A copy, or an answer to the Console, that does not show all that has    *)
(* happened.                                                               *)
Behind(q) == fetch[q] = "old" \/ (fetch[q] = "waiting" /\ rpc[q] = "old")
Outdated(q) == data[q] = "stale" \/ Behind(q)

Names(notice, q) == q = "list" \/ (q = notice.light /\ notice.kind = "changed")

(* A word of what q misses is on its way: on the subscription, in the      *)
(* stream's buffer, on the wire.                                           *)
WordOnItsWay(q) ==
    \/ \E i \in DOMAIN onStream : Names(onStream[i], q)
    \/ /\ conn[Console] = "open"
       /\ \E l \in Framed(Console) :
              Names([light |-> l, kind |-> dirty[Console][l]], q)
    \/ \E i \in DOMAIN wire : wire[i] \in NoticeFrame /\ Names(wire[i], q)

Outage == [gateway |-> "reconnecting"]

(* The Console has been told of an outage and not of its end, or will be.  *)
FullReadDue ==
    /\ source = "open"
    /\ \/ sub = "waiting"
       \/ previousGateway = "reconnecting"
       \/ \E i \in DOMAIN wire : wire[i] = Outage

Coming(q) == WordOnItsWay(q) \/ FullReadDue

(* What a step loses: it was to come for a query that misses something,    *)
(* and comes no more.                                                      *)
Loses ==
    missed' = missed \cup
        {q \in Queries : Coming(q) /\ ~Coming(q)' /\ Outdated(q)'}

LosesUnless(heard) == IF heard THEN UNCHANGED missed ELSE Loses

-----------------------------------------------------------------------------
LiveInit ==
    /\ Init
    /\ roster \in [Lights -> {"later", "here"}]
    /\ onStream = <<>>
    /\ wire = <<>>
    /\ rpc = [q \in Queries |-> "none"]
    /\ source = "open"
    /\ live = "connecting"
    /\ previousGateway = "unsaid"
    /\ page = NoPage
    /\ data = [q \in Queries |-> "none"]
    /\ fetch = [q \in Queries |-> "idle"]
    /\ invalid = {}
    /\ errored = {}
    /\ followUps = <<>>
    /\ missed = {}
    /\ spent = [w \in Bounded |-> 0]

(* The Bridge and the Gateway *)

(* The copies, the RPCs that have read the Bridge, and the answers on      *)
(* their way, that show it no longer.                                      *)
Outdates(S) ==
    LET Ages(f, old) == [q \in Queries |->
                            IF q \in S /\ f[q] = "fresh" THEN old ELSE f[q]]
    IN  /\ data' = Ages(data, "stale")
        /\ fetch' = Ages(fetch, "old")
        /\ rpc' = Ages(rpc, "old")

Happens(l, kind) ==
    \/ /\ kind = "changed"
       /\ roster[l] = "here"
       /\ UNCHANGED roster
       /\ Outdates({"list", l})
    \/ /\ kind = "added"
       /\ roster[l] = "later"
       /\ roster' = [roster EXCEPT ![l] = "here"]
       /\ Outdates({"list"})
    \/ /\ kind = "removed"
       /\ roster[l] = "here"
       /\ roster' = [roster EXCEPT ![l] = "gone"]
       /\ Outdates({"list"})

(* Something happens at the Bridge.  A subscription that stands is told; a *)
(* Subscribe still unanswered, or cancelled, may have reached the Gateway  *)
(* or not; one that is lost is told nothing, then or later.                *)
Change(l, kind) ==
    LET notice == [light |-> l, kind |-> kind]
    IN  /\ Spend("changes", MaxChanges)
        /\ Happens(l, kind)
        /\ \/ /\ sub \in {"calling", "standing", "closing"}
              /\ onStream' = Append(onStream, notice)
              /\ UNCHANGED missed
           \/ /\ sub # "standing" /\ MaxLosses > 0
              /\ UNCHANGED onStream
              /\ missed' = missed \cup
                     {q \in Queries : Names(notice, q) /\ ~Coming(q) /\ Outdated(q)'}
        /\ UNCHANGED <<apiVars, wire, source, live, previousGateway, page,
                       invalid, errored, followUps>>

(* The API reads the next Invalidation off the subscription; a Console     *)
(* whose stream is not open then never hears of it.                        *)
Deliver ==
    /\ onStream # <<>>
    /\ Notice(Head(onStream).light, Head(onStream).kind)
    /\ onStream' = Tail(onStream)
    /\ UNCHANGED <<roster, wire, rpc, consoleVars, spent>>
    /\ LosesUnless(Console \in listeners)

(* A Gap the Gateway makes good by a Resync, whose Invalidations come like *)
(* any other.                                                              *)
Resynced ==
    /\ Troubles < MaxTroubles
    /\ Gap
    /\ UNCHANGED <<gatewayVars, wire, rpc, consoleVars, missed, spent>>

(* `subscriber_behind`: the Gateway has let go of some of what it queued   *)
(* for the API, and nothing resyncs that.                                  *)
FallBehind ==
    /\ Troubles < MaxTroubles
    /\ Gap
    /\ \E kept \in 0..(Len(onStream) - 1) : onStream' = SubSeq(onStream, 1, kept)
    /\ UNCHANGED <<roster, wire, rpc, consoleVars, spent>>
    /\ Loses

BySubscription(A) ==
    /\ A
    /\ UNCHANGED <<server, streamVars, gaps, roster, wire, rpc, consoleVars>>

GatewayLost ==
    /\ BySubscription(Lose)
    /\ Trouble("losses", MaxLosses)
    /\ onStream' = <<>>
    /\ Loses

(* An outage the Console's stream has not spoken of by now it never will.  *)
Reopen ==
    /\ BySubscription(Call)
    /\ UNCHANGED <<onStream, spent>>
    /\ LosesUnless(Open(Console) /\ lastSent[Console].gateway = "reconnecting")

Accepted == BySubscription(Accept) /\ UNCHANGED <<onStream, missed, spent>>

(* A cancelled subscription has ended. *)
Ended ==
    /\ BySubscription(LetGo)
    /\ onStream' = <<>>
    /\ UNCHANGED spent
    /\ Loses

-----------------------------------------------------------------------------
(* The event stream *)

Said(status) == [gateway |-> status.gateway]

(* What a flush writes: a frame a light, and the status if it is new. *)
Frames ==
    SetToSeq({[light |-> l, kind |-> dirty[Console][l]] : l \in Framed(Console)})
    \o IF StatusOf(Console) = lastSent[Console]
          THEN <<>> ELSE <<Said(StatusOf(Console))>>

FlushToWire ==
    /\ Len(wire) < MaxWire
    /\ FlushTimer(Console)
    /\ wire' = wire \o Frames
    /\ UNCHANGED <<gatewayVars, rpc, consoleVars, missed, spent>>

(* The EventSource asks for the stream, at first and again after an error. *)
Ask ==
    /\ source = "open"
    /\ live # "connected"
    /\ wire = <<>>
    /\ Connect(Console)
    /\ UNCHANGED <<gatewayVars, wire, rpc, consoleVars, missed, spent>>

Opened ==
    /\ OpenStream(Console)
    /\ wire' = <<Said(StatusOf(Console))>>
    /\ UNCHANGED <<gatewayVars, rpc, consoleVars, missed, spent>>

CookieExpires ==
    /\ spent["drops"] < MaxDrops /\ Troubles < MaxTroubles
    /\ Expire(Console)
    /\ UNCHANGED <<gatewayVars, wire, rpc, consoleVars, missed, spent>>

(* The API ends the stream: the session has expired, or the process has    *)
(* been told to stop.  What it wrote before arrives; what it had not       *)
(* flushed does not.                                                       *)
EndedByApi ==
    /\ \/ Trouble("drops", MaxDrops) /\ Heartbeat(Console) /\ UNCHANGED onStream
       \/ Trouble("drops", MaxDrops) /\ Shutdown /\ UNCHANGED onStream
       \/ SignalAgain /\ UNCHANGED <<onStream, spent>>
    /\ UNCHANGED <<roster, wire, rpc, consoleVars>>
    /\ Loses

ServerClosed ==
    /\ Closed
    /\ UNCHANGED <<gatewayVars, wire, rpc, consoleVars, missed, spent>>

NoStreamAtTheApi == conn[Console] = "none" /\ UNCHANGED apiVars

(* The connection breaks: what was on the wire is lost with it. *)
Drop ==
    /\ \/ Disconnect(Console)
       \/ NoStreamAtTheApi /\ wire # <<>>
    /\ Trouble("drops", MaxDrops)
    /\ wire' = <<>>
    /\ live' = "disconnected"
    /\ UNCHANGED <<gatewayVars, rpc, source, previousGateway, page, cacheVars>>
    /\ Loses

(* The EventSource asks again and is answered with anything but a stream,  *)
(* by the API or by the proxy in front of it: it has closed for good.      *)
TurnedAway ==
    /\ source = "open"
    /\ live # "connected"
    /\ wire = <<>>
    /\ \/ Disconnect(Console) /\ ~Open(Console)
       \/ NoStreamAtTheApi
    /\ Trouble("drops", MaxDrops)
    /\ source' = "closed"
    /\ live' = "disconnected"
    /\ UNCHANGED <<gatewayVars, wire, rpc, previousGateway, page, cacheVars>>
    /\ Loses

(* The end of a stream the API ended, behind all it had written. *)
HearEnd ==
    /\ live = "connected"
    /\ wire = <<>>
    /\ conn[Console] = "none"
    /\ live' = "disconnected"
    /\ UNCHANGED <<apiVars, gatewayVars, wire, rpc, source, previousGateway,
                   page, cacheVars, missed, spent>>

(* `onLightNotice`. *)
HearOfLight ==
    /\ wire # <<>>
    /\ Head(wire) \in NoticeFrame
    /\ wire' = Tail(wire)
    /\ LET frame == Head(wire)
       IN  Becomes(IF frame.kind = "changed"
                      THEN InvalidateLight(Cache, frame.light)
                      ELSE RaceAware(Cache, One("list")))
    /\ UNCHANGED <<apiVars, gatewayVars, rpc, source, live, previousGateway,
                   page, data, errored, missed, spent>>

(* Mutant: everything is re-read as an outage begins, not as it ends. *)
HearStatusAtItsStart ==
    /\ wire # <<>>
    /\ Head(wire) \in StatusFrame
    /\ wire' = Tail(wire)
    /\ live' = "connected"
    /\ previousGateway' = Head(wire).gateway
    /\ Becomes(IF previousGateway = "connected" /\ Head(wire).gateway = "reconnecting"
                  THEN RaceAware(Cache, Everything) ELSE Cache)
    /\ UNCHANGED <<apiVars, gatewayVars, rpc, source, page, data, errored,
                   missed, spent>>

(* `onConnectionStatus`: on the one transition, everything is re-read. *)
HearStatus ==
    /\ wire # <<>>
    /\ Head(wire) \in StatusFrame
    /\ wire' = Tail(wire)
    /\ live' = "connected"
    /\ previousGateway' = Head(wire).gateway
    /\ Becomes(IF previousGateway = "reconnecting" /\ Head(wire).gateway = "connected"
                  THEN RaceAware(Cache, Everything) ELSE Cache)
    /\ UNCHANGED <<apiVars, gatewayVars, rpc, source, page, data, errored,
                   missed, spent>>

-----------------------------------------------------------------------------
(* Pages and reads *)

(* A page mounts its query, which reads if it has no copy or an invalid    *)
(* one, and is not reading already; none mounts before the stream has      *)
(* connected or failed.                                                    *)
Visit(q) ==
    /\ live # "connecting"
    /\ page # q
    /\ page' = q
    /\ fetch' = IF (data[q] = "none" \/ q \in invalid) /\ fetch[q] = "idle"
                   THEN [fetch EXCEPT ![q] = "asked"] ELSE fetch
    /\ UNCHANGED <<apiVars, gatewayVars, wire, rpc, source, live,
                   previousGateway, data, invalid, errored, followUps, missed,
                   spent>>

(* The window is returned to: the query on screen reads if its copy is bad. *)
Focus ==
    /\ page # NoPage
    /\ data[page] = "none" \/ page \in invalid
    /\ fetch[page] = "idle"
    /\ fetch' = [fetch EXCEPT ![page] = "asked"]
    /\ UNCHANGED <<apiVars, gatewayVars, wire, rpc, source, live,
                   previousGateway, page, data, invalid, errored, followUps,
                   missed, spent>>

ReadAside == UNCHANGED <<apiVars, gatewayVars, wire, source, live,
                         previousGateway, page>>

(* The request reaches the API, which joins it to the RPC already in       *)
(* flight for the key, whatever that one has read, or makes one.           *)
Join(q) ==
    /\ server # "closed"
    /\ fetch[q] = "asked"
    /\ fetch' = [fetch EXCEPT ![q] = "waiting"]
    /\ rpc' = [rpc EXCEPT ![q] = IF @ = "none" THEN "asked" ELSE @]
    /\ missed' = IF rpc[q] = "old" /\ ~Coming(q) THEN missed \cup {q} ELSE missed
    /\ ReadAside /\ UNCHANGED <<data, invalid, errored, followUps, spent>>

(* Another browser reads the same. *)
OthersAsk(q) ==
    /\ server # "closed"
    /\ Trouble("others", MaxOthers)
    /\ rpc[q] = "none"
    /\ rpc' = [rpc EXCEPT ![q] = "asked"]
    /\ ReadAside /\ UNCHANGED <<cacheVars, missed>>

(* The Gateway reads the Bridge for it. *)
Sample(q) ==
    /\ rpc[q] = "asked"
    /\ rpc' = [rpc EXCEPT ![q] = "fresh"]
    /\ ReadAside /\ UNCHANGED <<cacheVars, missed, spent>>

(* The RPC is over: its entry goes, and with it everyone who waited.       *)
RpcEnds(q, answer) ==
    /\ rpc' = [rpc EXCEPT ![q] = "none"]
    /\ fetch' = [fetch EXCEPT ![q] = IF @ = "waiting" THEN answer ELSE @]
    /\ ReadAside /\ UNCHANGED <<data, invalid, errored, followUps, missed>>

RpcAnswers(q) ==
    /\ rpc[q] \in {"fresh", "old"}
    /\ RpcEnds(q, rpc[q])
    /\ UNCHANGED spent

RpcFails(q) ==
    /\ rpc[q] # "none"
    /\ Trouble("fails", MaxFails)
    /\ RpcEnds(q, "refused")

Answer(q) ==
    /\ fetch[q] \in {"fresh", "old"}
    /\ data' = [data EXCEPT ![q] = IF fetch[q] = "fresh" THEN "fresh" ELSE "stale"]
    /\ errored' = errored \ {q}
    /\ Becomes(Told([Cache EXCEPT !.fetch[q] = "idle", !.invalid = @ \ {q}]))
    /\ missed' = IF fetch[q] = "fresh" THEN missed \ {q} ELSE missed
    /\ ReadAside /\ UNCHANGED <<rpc, spent>>

(* A failed read is not retried; it leaves the copy it had, invalid.       *)
ReadFails(q) ==
    /\ errored' = errored \cup {q}
    /\ Becomes(Told([Cache EXCEPT !.fetch[q] = "idle", !.invalid = @ \cup {q}]))
    /\ ReadAside /\ UNCHANGED <<rpc, data, missed>>

Refused(q) == fetch[q] = "refused" /\ ReadFails(q) /\ UNCHANGED spent

(* The exchange with the API breaks, wherever it is; the RPC goes on.      *)
Fail(q) ==
    /\ fetch[q] # "idle"
    /\ Trouble("fails", MaxFails)
    /\ ReadFails(q)

LiveNext ==
    \/ \E l \in Lights, kind \in Kinds : Change(l, kind)
    \/ Deliver \/ Resynced \/ FallBehind
    \/ GatewayLost \/ Reopen \/ Accepted \/ Ended
    \/ FlushToWire \/ Ask \/ Opened \/ CookieExpires \/ EndedByApi
    \/ ServerClosed \/ Drop \/ TurnedAway
    \/ HearEnd \/ HearOfLight \/ HearStatus
    \/ \E q \in Queries :
          \/ Visit(q) \/ Join(q) \/ OthersAsk(q) \/ Sample(q)
          \/ RpcAnswers(q) \/ RpcFails(q) \/ Answer(q) \/ Refused(q) \/ Fail(q)
    \/ Focus

(* What has been sent arrives, the API's timers fire, a lost subscription  *)
(* is made again, and an RPC is over by its deadline.  Nothing has to      *)
(* happen at the Bridge, nothing has to be lost, nobody has to go          *)
(* anywhere, the EventSource need not ask again and the Gateway need not   *)
(* accept a Subscribe it has sent nothing on.                              *)
LiveFairness ==
    /\ WF_llVars(Deliver) /\ WF_llVars(Reopen) /\ WF_llVars(FlushToWire)
    /\ WF_llVars(onStream # <<>> /\ Accepted)
    /\ WF_llVars(HearEnd \/ HearOfLight \/ HearStatus)
    /\ \A q \in Queries :
          /\ WF_llVars(Join(q) \/ Answer(q) \/ Refused(q))
          /\ WF_llVars(Sample(q) \/ RpcAnswers(q) \/ RpcFails(q))

LiveSpec == LiveInit /\ [][LiveNext]_llVars
LiveFairSpec == LiveSpec /\ LiveFairness

-----------------------------------------------------------------------------
(* Properties *)

(* A light that is gone keeps its last detail: light.removed invalidates   *)
(* the list alone.  Nothing is asked of that page.                         *)
Misleads(q) ==
    /\ page = q
    /\ data[q] = "stale"
    /\ q \notin errored
    /\ q = "list" \/ roster[q] = "here"

(* A read that will show it is under way, or waits its turn, or the word   *)
(* that will cause one is on its way.                                      *)
Repairing(q) ==
    \/ fetch[q] # "idle" /\ ~Behind(q)
    \/ \E i \in DOMAIN followUps : q \in followUps[i]
    \/ Coming(q)

(* A copy on screen that misses something is never just left there, unless *)
(* a word of it was lost or its read was answered with less: whatever      *)
(* reads, follow-ups, statuses and pages come to overlap.                  *)
StaleIsBeingRepaired ==
    \A q \in Queries : Misleads(q) => Repairing(q) \/ q \in missed

(* A copy nobody is looking at that misses something will not be shown as  *)
(* it is, under the same exception: it is marked, being read, or word of   *)
(* it is on its way.                                                       *)
StaleIsMarked ==
    \A q \in Queries :
        data[q] = "stale" /\ page # q /\ (q = "list" \/ roster[q] = "here") =>
            q \in invalid \/ Repairing(q) \/ q \in missed

(* Every follow-up waits on a fetch: none is left with nothing to wake it. *)
FollowUpsHaveAFetch ==
    \A i \in DOMAIN followUps : StillFetching(Cache, followUps[i])

(* While the process runs, what is on screen and out of date catches up,   *)
(* or the screen says its stream is down, or a word of it was lost or its  *)
(* read was answered with less.                                            *)
CatchesUpUnlessMissed ==
    \A q \in Queries :
        Misleads(q) ~> \/ ~Misleads(q) \/ q \in missed
                       \/ live = "disconnected" \/ server # "up"

(* The read that follows an Invalidation shows all the Console has heard   *)
(* of: whatever it may be answered without, the word is still to come.     *)
FreshReadFollows ==
    [][\A q \in Queries :
          q \in invalid /\ fetch[q] = "asked" /\ fetch'[q] = "waiting" =>
              (Behind(q)' => Coming(q)')]_llVars

(* What is on screen and out of date catches up, unless the screen says    *)
(* its stream is down.                                                     *)
ScreenCatchesUp ==
    \A q \in Queries : Misleads(q) ~> ~Misleads(q) \/ live = "disconnected"
=============================================================================
