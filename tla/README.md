# A verification project for Sharpn's Console and Console API

Sharpn is a web console for the lights of a house. Between a person and a lamp
there are four programs, of which this repository holds the first two:

    Console (browser) --HTTP, SSE--> Console API (Node) --gRPC--> Gateway --> Bridge

The Console API keeps no state of the lights. It turns one HTTP request into one
gRPC call, and one gRPC subscription into every browser's event stream. An
Invalidation ("Light L changed") carries an id and nothing else (ADR 0002), and an
Acknowledgement of a Command carries no state either (ADR 0001): everything a
person sees is a read, and everything that keeps it true is the order of reads,
Invalidations and Commands. That order is what this project is about. Nearly all
of the code runs on two JavaScript threads (the API's and the browser's), so what
interleaves are callbacks: timers, stream events, answers, signals, navigation.

The modules are TLA+, checked by TLC on small instances; the theorems in the
`*_proofs` modules are checked by TLAPS for every value of the constants.
`PROJECT.json` lists the components, the runs, the source lines every definition
stands for, the hazards, and for every checked property a *mutant*.

## Running it

    tlc -config Fanout.cfg MCFanout            # any row of the table of runs
    tlapm Fanout_proofs.tla                    # any *_proofs module

An operator commented `Mutant:` stands just before a definition and is that
definition with a plausible bug in it. No specification uses it; replacing the
definition's body by it must make the property that PROJECT.json names fail. It
records that the property can tell the code from a broken version of it.

## Inventory

| Component (source) | State it keeps | Operations | What is hard | What makes it correct |
| --- | --- | --- | --- | --- |
| Event fanout (`events/fanout.ts`, `backoff.ts`) | whether it is subscribed, stopped, two timers, the backoff's ceiling | `start`, `onOpened`, `onNotice`, `onEnded`, `stop` | endings inside `subscribe`, timers racing `stop()` | one subscription, one timer per loss, final stop, earned backoff reset |
| Gateway adapter (`gateway/adapter.ts`, `single-flight.ts`) | per stream: told of its end, cancelled; the reads in flight | `subscribe`, `close`, `listLights`, `getLight`, `updateLight` | `error` and `end` raised for one stream; shared reads; deadlines | each ending told once; sharing is not caching; an update is never retried |
| Meter (`http/meter.ts`) | the times of recent spends, per key | `spend` | window edges, sweep of other keys | no window over the limit; `Retry-After` enough and tight |
| Event streams (`http/events.ts`) | per stream: buffer of dirty ids, last status, two intervals; the registry | `openStream`, `flush`, `onNotice`, heartbeat, `end`, `closeAll` | five ways to end; collapsing; a status that settles | no leak, no light lost, true status |
| Shutdown (`server.ts`) | whether it has begun | `stop` on either signal | order of four closings; connections accepted and not yet read | every stream and the subscription end |
| Readiness, health (`readiness.ts`, `http/health.ts`) | none of its own | reads `subscribed()` and the channel | - | `subscribed()` is true when it says so |
| Sessions (`auth/session.ts`, `http/session.ts`, `api/client.ts`, `LoginPage`, `useAuthRedirect`, `AccountMenu`) | the browser's one cookie | mint, verify, renew; sign in, sign out, 401 | answers arriving out of order; a renewal after a sign-out | every cookie honoured comes from a counted sign-in; signing out lasts |
| Edge (`http/app.ts`) | none | guards, meters, body reader, routes in mount order | the order | nothing is read or counted for a request that is refused before it |
| Light routes, answer, failure table, codec (`http/lights.ts`, `http/answer.ts`, `gateway/status.ts`, `gateway/codec.ts`) | none | one call each | which failure may have been applied; values that are zero or missing | `MUTATION_OUTCOME_UNKNOWN` exactly when nobody knows; a Light is what was reported |
| Contract (`contract/*.ts`) | none | schemas and refusals | ranges, colour exclusivity (ADR 0005) | accepts what the Gateway accepts, answers as it says |
| Generated bindings (`gen/**`) | none | `encode`, `decode`, `toJSON`, `fromJSON` of every message | presence, oneofs, a Gateway newer than the build | nothing set is lost, nothing unset is made up |
| Messages (`api/apiError.ts`, `domain/acknowledgementMessage.ts`, `OutageView`) | none | which tier, which words | four tiers fail in like ways | the right tier is named; nothing is denied that was done |
| Live Lights (`events/eventStream.ts`, `LiveLightsProvider`, `queries/*`) | stream status, last status heard, the follow-ups waiting | EventSource handlers, `invalidateLight`, `raceAwareInvalidate`, queries | an Invalidation during a read; outages nobody announces | what is out of date is being repaired |
| Sending Commands (`useUpdateLight`, `pending/*`) | the held Command per light, Pending Commands | `send`, `fire`, `settle`, `clearPending` | commits during a PATCH; pages left; late answers | the last commit is sent; nothing pending in vain |
| Mirek, kelvin, list order (`domain/colorTemperature.ts`, `domain/sortLights.ts`) | none | pure functions | rounding twice | what is let go where it was stays as it was |
| Colour geometry, layout, configuration, credentials, OpenAPI document, proxy, e2e harness | - | - | - | - |

They interact by plain calls inside a process (the fanout calls each stream's
listener; the shutdown calls `fanout.stop()`, `closeAll()`, `server.close()` and,
in that one's callback, `gateway.close()`), and by messages between them: gRPC
stream events, SSE frames, HTTP answers.

## Modules

| Module | Models | Built on |
| --- | --- | --- |
| `Subscription` | the abstract subscription: calling, standing, waiting, closing, stopped. What the rest of the API may rely on | |
| `Fanout` | `fanoutEvents`, `delays`, the adapter's `subscribe`/`close`: timers, handles, per-stream flags. Implements `Subscription` | `Subscription` by INSTANCE |
| `Meter` | `meterAtMost(...).spend` on a millisecond clock | |
| `EventStreams` | `eventRoutes`, `openStream`, the registry, `server.ts`'s `stop` | EXTENDS `Subscription` |
| `SharedReads` | `singleFlight` around `listLights`/`getLight` | |
| `LiveLights` | Bridge, Gateway, the API's streams, the wire and the Console, end to end | EXTENDS `EventStreams`, whose actions it uses as they are |
| `UpdateLight` | `useUpdateLight`, Pending Commands, the PATCH and its RPC as far as the Bridge | |
| `Edge` | what `consoleApi` mounts, in which order, and what each gate answers, as one sequence a request walks | |
| `Sessions` | the signed cookie, the two routes of `/session`, the gate that renews, and one Console with one cookie | EXTENDS `Edge` |
| `Bindings` | the generated messages and enumerations, as tables of fields; presence, and enumerations by name | |
| `Wire` | what `encode`, `decode`, `toJSON` and `fromJSON` do with a table, and a newer writer | EXTENDS `Bindings` |
| `Contract` | the Command a body is read as, the codes of failures, the shapes of answers | |
| `Codec` | protobuf to Lights, Acknowledgements and Notices, Commands to protobuf | EXTENDS `Bindings`, `Contract` |
| `Answers` | a failure from the RPC's status to the words a person reads | EXTENDS `Contract` |
| `Exchange` | one read, PATCH or event, through every tier, any of which may break | EXTENDS `Codec`, `Answers`; `MCExchange` gives it `Wire` |
| `Domain` | mirek and kelvin, what the slider commits, the order of the list | |
| `MC*` | the small instances | one of the above |
| `*_proofs` | the theorems | one of the above (`Exchange_proofs` on `Domain` too) |

### How the code is read

**Fanout.** An action is one callback run to its end. `Reopen(s)` is the reopening
timer, and contains the call of `start`, of `subscribe`, and the case in which the
stream fails inside `subscribe`, when `onEnded` runs between `open = true` and the
assignment of `listening` (`SubscribeFailsInside`). `StreamEnds` is the first event
that ends a stream, `StreamEndsAgain` the `end` that grpc-js raises after an
`error`; `TellEnded` is the adapter's `ended` flag between them and `OnEnded`.
`Stop` is `stop()` with the `cancel` it makes; `CloseGateway` is the adapter's
`close()`. Time is abstracted: an armed timer may fire at any step. The backoff
keeps its numbers, because the reset and the ceiling are what is at stake, but not
the jitter, which any delay covers. Stream objects are drawn from a finite set and
reused once nothing more can come of them.

**Meter.** One action for a spend that is allowed and one for one that is refused,
each with the sweep of every key that comes first. A `Pass` moves the clock. An
entry is a time and a serial number, so that two spends of one millisecond are two.

**EventStreams.** `OpenStream` is the handler of `GET /api/v1/events` (listener,
registration, two intervals, first status), `Flush` the body of `flush`, `End` what
`end` undoes; disconnection, heartbeat on an expired session, and `closeAll` all go
through it. It is one step because `end` calls nothing that could call it again before
it has returned: the `close` that `res.end()` brings comes in a later turn and meets
the `ended` flag, so a second `end` is a step that changes nothing. `Connect` comes before `OpenStream` because a server that is closing
still serves a connection it has accepted. `owed` is history: the lights a stream
was told of and has not written.

**SharedReads.** A read is a slot; `Join` and `Start` are the two branches of
`singleFlight`. `truth` counts changes of the house, and an answer is told apart by
how many it shows. `floor` is history: what the answer must at least show.

**LiveLights.** The query cache is TanStack Query's and is modelled from its use
(marked external): `invalidateQueries` marks, and refetches what is on screen;
a fetch that succeeds clears the mark; `refetchOnMount` and `refetchOnWindowFocus`
read what is marked. `RaceAware` is `raceAwareInvalidate`, with the set of
scheduled scopes in the order their cache subscriptions were made, and `Told` runs
them when a fetch settles. A cached copy, an RPC in flight and an answer under way
are "fresh" or not, which is all the properties ask.

A read goes through `singleFlight` here as well: `Join` is the request reaching the
API, which joins it to the RPC in flight for its key or makes one, `Sample` the
Gateway's reading of the Bridge for that RPC, `RpcAnswers` and `RpcFails` its end, for
everyone who waited. `OthersAsk` is the read of a browser other than this one, so
that the RPC joined may have sampled before the change that the read was made for.

The stream is `EventStreams`', with all of its endings: `Drop` (the connection breaks, and what
is on the wire goes with it), `EndedByApi` (an expired session, found by the heartbeat, or a
shutdown; what was written still arrives, and `HearEnd` is behind it), and
`TurnedAway`, an EventSource answered with something that is not a stream, which by
the browser's rule closes it for good. A Gap is one the Gateway makes good by a Resync
(`Resynced`) or one it does not (`FallBehind`, `subscriber_behind`). The resyncing flag
is left out here because no Console code acts upon it except to show it.

`missed` is history: the queries that miss something of which no word is to come,
and those whose read was answered with less than had been announced. A step adds
to it what it loses (`Loses`: a word was on its way, or a full read was due, for a query
that misses something, and is no more), and no step adds anything else; a fresh answer
takes the query out again.

**UpdateLight.** An instance is one `useUpdateLight()`; a page mounts some, and `Leave`
may unmount them at any time, with whatever they hold. `Enter` mounts new ones, so that
the PATCHes of an earlier visit travel beside those of this one. `Fire`, `Hold` and
`Settle` are `fire`, the held branch of `send` and `settle` with the callbacks that
call it. That a mutation's callbacks run only for the last `mutate` of a component
still mounted (TanStack's rule) is `Hears`; a PATCH that settles unheard clears nothing
and sends nothing. The PATCH's RPC ends in an Acknowledgement, in its deadline, or in a
broken connection; one that was given up on may still be acted upon (`ActLate`). An
Invalidation may be lost (`LoseWord`) and a read may fail (`ReadFails`). `since` numbers
the PATCHes of earlier visits; `wanted`, `dropped`, `crossing` and `forlorn` are history.

An instance is of one light. The list is a page of cards, one for each light, so what
is observed of one card of it is a page of one instance; that filtering the list
unmounts a card, and clearing the filter mounts a new one, is that page left and
returned to.

**Edge and Sessions.** `Mounts` is the list of `app.use` calls; `Reached` the gates
a request gets to, each with the condition under which it answers instead of
calling `next()`. `Receive` is one walk, up to the first point where the code gives
up the thread: the reading of a body (`ReadBody`), the Gateway (`Relay`), the
password check (`WrongPassword`, `SignIn`); a renewal is worked out there and takes
effect only when the browser has the answer (`Arrive`). Whether a meter has room is
a choice, since `Meter` answers for that, and what it counts against is kept with
the request. A signature is the secret it was made with. `Rotate` is the restart
with another secret; `Fail` a connection lost on the way there or back.

**Bindings and Wire.** ts-proto writes some forty lines for a field, by one rule for
each kind of field, so a message is a table: number, name, type and one of five rules
(implicit, explicit, repeated, packed, member of a oneof). `Encode` and `Decode` follow
the rule, skip what no field knows and what comes with another wire type, and let the
last entry win, of a oneof too; `FromJSON` keeps the first member in the table's order.
Bytes are not modelled: the wire is a sequence of tagged values.

**Contract, Codec, Answers.** One operator per function of the source, under its name.
JSON not yet read is a record that says its kind; numbers are thousandths, which tells
apart an integer from one that is not; a key that is undefined is not in the DOMAIN of
its record, on both sides, so that presence is what it is in the code. The words of a
message are its code.

**Exchange.** The handler of a light's route in its order: the body is read and may be
refused without asking (`RefuseWithoutAsking`), the RPC goes out (`Ask`), it ends
(`Answer` and the ways not to), the answer is relayed (`Relay`), arrives (`Arrive`).
The Gateway is external: it answers anything a report may hold, refuses, gives up with
the update done or not, or is never heard; its `newer` form writes an unknown field, and
one with a changed type, into every message. `meant`, `applied` and `broke` are history.
How a message is laid out on the wire is three constant operators, `encode`, `decode`
and `newer`, which `Exchange.cfg` gives as `Wire`'s `Encode`, `Decode` and `Newer`: the
run goes through the bindings as they are, and the proofs through anything that reads
back what it writes.

**Domain.** `reciprocalMillion` is integer arithmetic, halves up as `Math.round` does.
A name stands for its place in the collation.

## Runs

| Run | Instance | Shows |
| --- | --- | --- |
| `fanout` | 3 streams, ceiling four doublings above the base | the safety of the subscription, refinement of `Subscription`, `KeepsTrying`, `LetsGo` |
| `meter` | 2 keys, limit 2, the real 60 000 ms, steps of 29 500 and 30 000 ms | the window and `Retry-After` |
| `streams` | 2 browsers, 1 light, 2 kinds, 1 Gap | leaks, lost lights, pulses, settled status, expiry |
| `reads` | 3 reads, 2 keys, 1 change | single flight: one RPC per key, no answer older than its read, none left waiting |
| `live` | 1 light added, changed, removed: 2 changes, and one trouble: an outage of the subscription, a failed read, or a read of another browser's | `StaleIsBeingRepaired`, `StaleIsMarked`, `FollowUpsHaveAFetch` |
| `live_catchup` | 1 change, and one trouble: an outage, a Gap of either kind, or a stream of the browser's that breaks, expires, is shut down or turned away | `CatchesUpUnlessMissed` |
| `live_streamdrop` | 1 change, 1 such end of the stream | `ScreenCatchesUp` is **violated** |
| `live_shared` | 1 change, 1 read of another browser's | `FreshReadFollows` is **violated** |
| `sessions` | 2 requests at once, 2 sign-ins, 1 change of the secret, a clock of 3 instants | the order of the edge, the descent of every cookie, `SignedOutStaysOut` |
| `update` | 2 instances for one light, the card and the controls, their pages left and returned to at any time; 3 commits of 2 Commands | `OneAtATime`, `OnlyLeavingDrops`, `BridgeHasLastWord`, `NothingPendingInVain`, `PendingIsAwaited` |
| `update_left` | the same with 2 commits | `LastCommitIsSent` is **violated** |
| `exchange` | bodies with every key absent, at and past its ends, null or of the wrong type, in all combinations; reports whole, bare, of zeros and of halves; a Gateway as old as the build or newer; every tier breaking at every step | what is asked, what is shown, what is said |

Deadlock is checked where the system never stops (`fanout`: CloseGateway is always
possible once stopped; `meter`; `reads`; `sessions`). Elsewhere one exchange that has
ended, a closed server, or a house in
which the bounded number of changes has happened and everybody has gone, may stop.

### Bounds, and why they are enough

* Streams: one held, one that has raised its error and not its end, one to reopen
  on. More add nothing, since `OneStreamOrOneTimer` allows no second attempt at a time;
  and the safety is proved for any number.
* The meter's two steps are chosen so that sums land half a second before the end
  of a window (59 500, where `Retry-After` has to round up), on it (60 000), and
  well after it (88 500 and more). A limit of two is the least in which "the oldest of
  several" is meant. Proved for any.
* Two changes are the least in which one Invalidation meets a fetch and another
  meets its follow-up. `MaxTroubles` counts outages, Gaps, ends of the stream, failed
  reads and other browsers' reads together: `live` and `live_catchup` take one at a time, and
  each of them meets every order of changes, flushes, reads and pages. Between the two
  runs every action is taken. That the safety of `live` needs no more is proved, for
  any number of each.
* Three commits are the least in which a held Command is replaced, and in which the
  PATCH of one visit travels beside one of the next and a third is held for it. The two pages are
  alike, and the two Commands: `Alike` is sound because no property of `update` tells
  one from the other, and all of them are invariants. Proved for any.
* Two requests at once are the least in which one answer overtakes another; two
  sign-ins in which a cookie of an earlier session meets a later one; a session
  lasts one tick of a clock with two, so that it expires and is renewed past its
  first end. The descent of cookies and signing out are proved for any.
* `exchange` follows one exchange, since nothing of one is left for the next. Each key
  of a body meets each other, so that an optional value is tried with and without every
  other; ranges are tried at both ends and just past them, and with a fraction. Ids are
  not empty. Beside the run, `MCExchange` assumes and TLC evaluates: every message of
  the bindings, with its fields unset, zero and set, is read back from the wire and
  from JSON as it was (`RoundTrip`); wire numbers are distinct; of two colours one is
  kept; the Console's copy of the mirek range is the contract's; the slider's kelvins (every
  one of three bulbs' ranges); the list's order (every
  order of four lights that share names and ids).
* `MaxWire` makes a flush wait for a backlog; it stands for TCP's own, and the
  buffer by id that the code keeps meanwhile is what is examined.
* `MaxGaps`, `MaxChanges`, `MaxLosses`, `MaxDrops`, `MaxFails`, `MaxOthers`,
  `MaxTroubles`, `MaxSends`, `MaxNow`,
  `MaxLogins`, `MaxRotations`
  count what would otherwise be unbounded, and appear in guards alone.

### Fairness, and why the code justifies it

Only what the process does by itself is fair: an armed timer fires, an interval
ticks, an error is followed by its end, a cancelled stream ends, an RPC is answered
or its deadline passes (every RPC of the adapter has one), a frame that was written
is read unless its connection breaks. All of it is weak fairness. Nothing makes a
browser come, a person send, an EventSource ask again, or anything go wrong or stop;
and nothing makes the Gateway accept a Subscribe, unless it has sent something on it
already. `UpdateLight` assumes no fairness at all: what a Pending Command is left
with is stated as an invariant, `PendingIsAwaited`.

### What may be lost, and how the properties say so

Nothing in this system promises that an Invalidation arrives, or that a read shows what
it was made for, and no constant switches the losing off. The properties except
exactly what was lost, by history variables that only the losing steps add to.

`missed` of `LiveLights`, of which `StaleIsBeingRepaired`, `StaleIsMarked` and
`CatchesUpUnlessMissed` speak, is added to when

* the subscription is reopened before a stream has said `reconnecting`: full jitter may
  draw a delay shorter than a flush, the status then never differs, and what was missed is
  never read;
* something changes while a Subscribe is unanswered: `subscribed()` is true from the
  moment the call is made, so the full read may be over before the Gateway accepts, and
  a change in between is announced to nobody;
* the browser's own stream is down, or breaks with frames on it: the status it
  returns with is the one it went with;
* the API falls behind its subscription (`subscriber_behind`), which nothing resyncs;
* a read joins an RPC that had sampled the Bridge before what the read is for.

`ScreenCatchesUp` is `CatchesUpUnlessMissed` without the exceptions, and fails. What is
left is a promise worth having: in every other overlap of Invalidations, fetches,
follow-ups, statuses and pages, nothing out of date is left alone.

In `UpdateLight`, leaving a page is what loses. A Command held then is `dropped`;
`OnlyLeavingDrops` says that nothing else drops the last commit. A PATCH fired beside
one of an earlier visit is `crossing`, and may be overtaken; `BridgeHasLastWord` is of
the others. `OneAtATime` is of one visit: across two, the claim of
`useUpdateLight.ts:13-14` that a light never has more than one Command outstanding
does not hold, as the comments at `PendingCommandsProvider.tsx:27-31` and
`useUpdateLight.ts:102-105` know. A light is `forlorn` when, since its last
Command was fired, word of it never came, a read of it failed, or its PATCH failed with
nobody to hear: its Pending Command is then shown until some later read, and
`PendingIsAwaited` says that it is in no other case.

### Where the code and its comments part

The three violation runs are disagreements between a comment and what the code
does, and PROJECT.json's findings quote each: a change announced while a browser's
own stream was down is not re-read; the read that follows an Invalidation need not be
fresh, because it may join another browser's; and a held Command can be dropped.
Lesser ones came up while modelling, and no run is spent on them:

* a request accepted before a signal and read after `closeAll()` opens a stream the
  shutdown has passed by (`EventStreams`);
* a read asked for before a Command and arriving after it settles it, since
  `dataUpdatedAt` is the time of arrival (`UpdateLight`);
* a request answered after a sign-out brings the browser's cookie back, renewed
  (`Sessions`; `overtaken` in `SignedOutStaysOut` is what the property leaves out);
* `useUpdateLight.ts:16-17` has it that after a transport failure nothing was applied.
  The browser's own connection may break after the Gateway has applied a Command, and
  the Gateway itself may end an update with UNAVAILABLE or INTERNAL after its Bridge
  acted. `ToldTrue` therefore leaves those endings out. It says the rest: an answer
  that denies is never given for what was applied, an update whose deadline passed is
  told as one nobody can confirm, and a success is one;
* the page the proxy answers with while the API is down names no tier, and the Console
  takes it for a `GATEWAY_ERROR` (`client.ts:73-76`);
  `OutageNamesTheTier` says that much of it and no more;
* `LightControls.tsx:31` has words for an `ApiError` alone, so an update whose
  connection breaks shows nothing at all (`MessageOf`);
* `status.ts:72-75` has every DEADLINE_EXCEEDED be the client's own. The model lets the
  Gateway send one as well, and nothing depends on which it was;
* a held Command of one field is replaced by one of another field. That is the rule as
  written, and `UpdateLight` keeps it.

## Theorems

TLAPS checks, in eight modules, for every value of the constants that satisfies the
named assumptions in the modules (`BackoffAssumption`, `WindowAssumption`,
`LimitAssumption`, `NobodyAssumption`, `NoCookieAssumption`, `LightsAssumption`,
`MessagesAssumption`, ...). TLC evaluates every assumption on the run of its module.

* `Fanout_proofs`: `TypeOK`, `OneStreamOrOneTimer`, `SubscribedIsTrue`,
  `ResetIsEarned`, `StopIsFinal`, and that `Fanout` implements `Subscription`.
  The properties are not inductive by themselves. What they need is
  that an ending that was raised has been told and a stream that can still end has
  not been (`ToldWhenRaised`: without it an `end` after an `error` would arm a second
  timer); that the confirming timer belongs to the accepted stream that is held
  (`ConfirmsTheHeldStream`: without it the reset is not earned); and that a stopped
  fanout has no timer. Refinement follows step by step: each of Fanout's is a
  Call, an Accept, a Lose, a StopSub, a LetGo or a stutter.
* `Meter_proofs`: the limit in every window, what is remembered, and both sides of
  `Retry-After`. The invariant adds that what was allowed is finite and in the past,
  that the array is never longer than the limit, and `RoomWhenTold`: at the time a
  refused key was told, part of what filled its window will have left. The action
  property that a waiting key is not refused again is that, and the clock.
* `EventStreams_proofs`: types, no leak, no light lost, and that shutdown ends every
  stream that is open when it runs. Every ending goes through one lemma (`EndIInv`).
* `SharedReads_proofs`: one RPC per key, and that sharing is not caching. The
  invariant adds that a read waits on a running RPC of its own key and floor, that
  the starter waits on its own, and that an answer sampled since it was asked.
* `Sessions_proofs`: types, all three safety properties. `PastTheGates` reads the list
  of mounts once: who reaches the body reader or a route has passed every gate of
  its area. `Descent` is the inductive form of `EverySessionWasSignedIn`: it speaks of
  expired cookies and of earlier secrets too, because the clock and the secret
  change what verifies and no record of a sign-in; it needs `CountedBeforeRead` for
  the step that mints. `SigningOut` adds to `SignedOutStaysOut` that an answer brings
  a cookie only to who came with one or signed in, that signing out is answered in
  the turn it is read in, and that after an unovertaken sign-out nothing in flight
  carries the old cookie.

* `UpdateLight_proofs`, for pages left and returned to at any time, any number of
  instances, lights, Commands and commits: types, `OneAtATime`, `OnlyLeavingDrops`,
  `BridgeHasLastWord`, `NothingPendingInVain`, `PendingIsAwaited`. What is assumed is that
  no page mounts two instances of one light (`PagesAssumption`). The invariant is
  `Policy`; none of the five is inductive by itself. That the last commit goes out needs that what an
  instance holds is what was committed last, and that its key is taken exactly
  while the PATCH it observes is outstanding (`Observer`): then `Committed` survives the
  settling. One at a time needs that an outstanding PATCH of this visit is observed
  (`Observed`). The Bridge's last word needs that, while no PATCH was given up on and the last
  was fired with none outstanding, the earlier ones are settled and the lamp is as the
  last left it (`Follows`). That a Pending Command awaits something needs its PATCH's
  stage: one acted upon without success is still to be told of, one acted upon with
  success has announced itself (`Awaits`). Each action changes one PATCH or adds one, and
  two lemmas about the sequence (`PatchAdded`, `PatchReplaced`) carry that through
  every conjunct.
* `LiveLights_proofs`, for any lights, kinds and bounds: types; that no
  follow-up is left without a fetch to wake it; and that `LiveLights` implements
  `EventStreams`, step by step, so that `NothingOutlivesItsStream` and the rest hold with
  the Console at the other end. The invariant is `EventStreams`' own, with the types of
  the rest and `CacheKept`: no scope waits twice, and each waits on a fetch. The hard step
  is the end of a fetch, in which `Told` runs every follow-up and each may put itself
  back. `Told` is a recursive function, and the library's induction takes an operator
  as a parameter; `UpTo` does without, by the well-foundedness of the finite subsets
  of Nat under strict inclusion: if a number were left out, the least interval that ends
  at such a one would have a lesser. With it `Iterates` unrolls the function and `ToldIs`
  says what is left of it: whoever waited has been acted upon or waits again, on a fetch.

  Then `StaleIsBeingRepaired` and `StaleIsMarked`, with every loss the model has and no
  assumption beside those on the constants' types. The invariant (`RepairInvariant`) has two
  more parts. `Words` is what may be on its way: a light's words come in the order of its
  life (`AddedIsFirst`, `NoRemovedWord`, `LaterIsUnsaid`: without them a word that is
  buffered could be collapsed into one that means less), and an outage the stream
  last spoke of is one the Console has not been told the end of (`SaidLast`: without
  it the full read after an outage would not be due). `Copies` is what may be
  out of date: a copy that misses something is marked, followed up, missed for the record, or
  a word of it is coming (`StaleIsDue`); so is an answer under way, or an RPC it waits on, that
  will miss something (`OldIsDue`: this is what raceAwareInvalidate is for, and without
  it the answer that clears the mark would end the repair); and what is
  marked and on screen is being read or failed (`ShownIsRead`). That a step which
  takes the last word of something away has it in `missed` is `Accounted`.
* `Exchange_proofs`: all seven properties of `Exchange`, for every body, report, list,
  event, Acknowledgement, and way to end, where the run has some four hundred bodies and a handful
  of the others.
  It assumes: that JSON holds what its kind says (`BodiesAssumption`); that a message has
  its fields' types, that the Bridge names its resources, and that of a oneof one member
  is set (`MessagesAssumption`); and that what is written for a call is read as it was
  meant, whether the writer is newer or not (`WireAssumption`, which the run evaluates
  for the bindings with `Wire`'s `Encode`, `Decode` and `Newer`). First come
  lemmas on the functions of the codec and the contract, each of which says what the
  function returns key by key (`LightIs`, `PutIs`, `AcceptedIs`, ...). The
  invariant, `ExchangeInv`, then says of each step of the way what it was made of:
  the request (`Asked`), the answer as the Gateway meant it (`Answered`), whether the
  Bridge acted (`Applied`), the response (`Responded`), what is shown (`Shown`) and the tier
  it broke at (`Broke`). `ToldTrue` needs the fourth and the third together, because what
  denies an update is a code chosen before the Bridge is done with it; `OutageNamesTheTier`
  needs `Broke`, because a connection of the browser's may be lost after the RPC has failed.

  Of the slider (`Domain`): dragging back to the kelvin shown commits the mirek it was
  shown for, for every mirek to a thousand (two roundings that undo each other because
  there a mirek is never finer than a kelvin), and every commit is inside the
  bulb's range, with both ends in reach.

Only model-checked: every liveness property (TLAPS here has no ENABLED and no
fairness: `KeepsTrying`, `LetsGo`, `WhatIsToldIsWritten`, `StatusSettles`, `ExpiredStreamEnds`,
`EveryReadAnswered`, `CatchesUpUnlessMissed`); and what `Wire` does with a table (`RoundTrip`, and `WireAssumption` of the
bindings), because messages contain messages and it reads and writes them with
RECURSIVE operators, which the provers do not take.

The type invariants of `Meter`, `EventStreams`, `SharedReads`, `Sessions` and
`UpdateLight` are proved and no run is spent on them; those of `Fanout` and
`LiveLights` are checked and proved.

## Not modelled, and why

* `hsvToXy` and `gamutTriangle`: floating-point geometry, which neither TLC nor the
  provers have, and of which rounding to integers would be another program.
* `google.protobuf.Struct` and hue.v1's `Event`: generated, and no call of the two
  services carries them. Of the bindings that are modelled, the layout in bytes, Dates,
  `create` and `fromPartial`, group tags and the limit on nesting.
* The OpenAPI document: the contract's own schemas, written out for readers.
* Configuration and credentials are read once, before anything runs, and end the
  process when they are wrong.
* What the temperature slider shows while it is dragged, layout, the banner and
  wording: they change nothing that anything else reads.
* The proxy and the compose file configure other programs; the end-to-end harness is
  a stand-in Gateway. Third-party code is modelled only from its use.
* The next process of the API, after a shutdown: `LiveLights` ends with the server
  closed, and its Console asks in vain. What a Console finds at a process that has only
  just started is what it finds at first.
* A second instance for one light on one page: the Console mounts none.

## Plan

1. Done: `Subscription`, `Fanout`, `Meter`, `EventStreams`, `SharedReads`, `Sessions`
   over `Edge`, `UpdateLight`, `LiveLights`, `Exchange`, `Domain`, all with their proofs.
2. `UpdateLight` with Commands of several fields, so that a held brightness replaced
   by a colour is told apart from one replaced by a brightness.
3. `Wire` with `Encode` and `Decode` as recursive functions on the types, in the order in
   which they contain each other, so that `UpTo`'s argument proves `WireAssumption` of the
   bindings rather than the run evaluating it.
4. Two Consoles over one `SharedReads`, each the other's "other browser", so that what
   `missed` holds after a shared read is told apart by who made it.
