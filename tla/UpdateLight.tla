---------------------------- MODULE UpdateLight ----------------------------
(***************************************************************************)
(* Sending a Command: `useUpdateLight` and its slider policy, the Pending  *)
(* Commands it leaves (pending/), and the one unretried RPC each PATCH     *)
(* becomes (`updateLight` in gateway/adapter.ts), as far as the Bridge.    *)
(*                                                                         *)
(* An instance is one useUpdateLight(), of one light's card or of the      *)
(* controls of its detail page.  A page mounts some of them, and leaving   *)
(* it, at any time, unmounts them: what a PATCH comes to after that nobody *)
(* hears.  PATCHes are numbered in the order they are fired.  The reads    *)
(* that settle a Pending Command are LiveLights's; here they come or fail, *)
(* and one is told apart by whether it was asked for after the newest      *)
(* Command.                                                                *)
(***************************************************************************)
EXTENDS Integers, Sequences

CONSTANTS
    Instances,
    Lights,
    LightOf,        \* the light each instance is of, and sends for
    Pages,          \* the instances each page mounts
    Commands,
    Free, Empty,    \* inFlight.current: no key; a key with nothing held
    MaxSends        \* bound: calls of send

ASSUME LightAssumption == LightOf \in [Instances -> Lights]
ASSUME PagesAssumption ==
    /\ Pages \subseteq SUBSET Instances
    /\ \A page \in Pages : \A i, j \in page : LightOf[i] = LightOf[j] => i = j
ASSUME SlotAssumption == Free # Empty /\ {Free, Empty} \cap Commands = {}
ASSUME BoundsAssumption == MaxSends \in Nat

VARIABLES
    mounted,    \* the instances of the page on screen; none between pages
    since,      \* how many PATCHes had been fired when the last was left
    slot,       \* inFlight.current of each instance, for its light
    observing,  \* the PATCH whose callbacks each instance's mutation would run
    patches,    \* every PATCH fired so far, in order
    pending,    \* per light: the PATCH its Pending Command came from, or 0
    lamp,       \* per light: the PATCH the Bridge last acted on, or 0
    due,        \* lights with an Invalidation on its way or unread
    reading,    \* per light: "idle", or a read "older" or "newer" than
                \* the last Command fired
    thisInstant,    \* the lights whose Pending Command was sent at Date.now()
    sends,      \* how many times send was called
    wanted,     \* history: the last Command a person committed, or Free
    dropped,    \* history: lights left, since then, with a Command held
    crossing,   \* history: lights whose last PATCH was fired with another
                \* outstanding
    forlorn     \* history: lights of which, since the last Command fired,
                \* word never came, a read failed, or a PATCH failed unheard

uiVars == <<mounted, since, slot, observing, pending, thisInstant>>
vars == <<uiVars, patches, lamp, due, reading, sends, wanted, dropped,
          crossing, forlorn>>

Outcomes == {"success", "partial", "rejected", "unknown"}

(* What a PATCH came to: an Acknowledgement's Outcome, or an error; only    *)
(* MUTATION_OUTCOME_UNKNOWN is told apart from the others.                  *)
Replies == Outcomes \cup {"outcome_unknown", "error"}

Patch == [light : Lights, command : Commands,
          stage : {"travelling", "acted", "lost", "settled"},
          reply : Replies \cup {"none"}]

TypeOK ==
    /\ mounted \subseteq Instances
    /\ since \in 0..Len(patches)
    /\ slot \in [Instances -> Commands \cup {Free, Empty}]
    /\ patches \in Seq(Patch)
    /\ observing \in [Instances -> 0..Len(patches)]
    /\ pending \in [Lights -> 0..Len(patches)]
    /\ lamp \in [Lights -> 0..Len(patches)]
    /\ due \subseteq Lights
    /\ reading \in [Lights -> {"idle", "older", "newer"}]
    /\ thisInstant \subseteq Lights
    /\ sends \in 0..MaxSends
    /\ wanted \in [Lights -> Commands \cup {Free}]
    /\ dropped \subseteq Lights /\ crossing \subseteq Lights
    /\ forlorn \subseteq Lights

Numbers == DOMAIN patches
Outstanding(p) == patches[p].stage \in {"travelling", "acted"}
OutstandingFor(l) == {p \in Numbers : Outstanding(p) /\ patches[p].light = l}

Shown(l) == \E i \in mounted : LightOf[i] = l

-----------------------------------------------------------------------------
Init ==
    /\ mounted = {}
    /\ since = 0
    /\ slot = [i \in Instances |-> Free]
    /\ observing = [i \in Instances |-> 0]
    /\ patches = <<>>
    /\ pending = [l \in Lights |-> 0]
    /\ lamp = [l \in Lights |-> 0]
    /\ due = {}
    /\ reading = [l \in Lights |-> "idle"]
    /\ thisInstant = {}
    /\ sends = 0
    /\ wanted = [l \in Lights |-> Free]
    /\ dropped = {} /\ crossing = {} /\ forlorn = {}

(* The clock moves on. *)
Tick ==
    /\ thisInstant # {}
    /\ thisInstant' = {}
    /\ UNCHANGED <<mounted, since, slot, observing, pending, patches, lamp, due,
                   reading, sends, wanted, dropped, crossing, forlorn>>

(* A page is shown: its instances are new, hold nothing and observe        *)
(* nothing.                                                                *)
Enter(page) ==
    /\ mounted = {}
    /\ mounted' = page
    /\ UNCHANGED <<since, slot, observing, pending, patches, thisInstant, lamp, due,
                   reading, sends, wanted, dropped, crossing, forlorn>>

(* It is left, or replaced by an outage view: whatever its instances held  *)
(* goes with them.                                                         *)
Leave ==
    /\ mounted # {}
    /\ mounted' = {}
    /\ since' = Len(patches)
    /\ slot' = [i \in Instances |-> Free]
    /\ observing' = [i \in Instances |-> 0]
    /\ dropped' = dropped \cup {LightOf[i] : i \in {j \in mounted : slot[j] \in Commands}}
    /\ UNCHANGED <<pending, patches, thisInstant, lamp, due, reading, sends,
                   wanted, crossing, forlorn>>

(* One more PATCH, on the sequence of those so far. *)
WithPatch(ps, i, c) ==
    Append(ps, [light |-> LightOf[i], command |-> c,
                stage |-> "travelling", reply |-> "none"])

(* A read that is on its way when a Command is fired did not know of it. *)
Aged(l) == [reading EXCEPT ![l] = IF @ = "newer" THEN "older" ELSE @]

(* `fire`: the key is taken, the Command is pending, and the instance's    *)
(* one mutation observes the new PATCH and no other.                       *)
Fire(ps, i, c) ==
    /\ patches' = WithPatch(ps, i, c)
    /\ slot' = [slot EXCEPT ![i] = Empty]
    /\ pending' = [pending EXCEPT ![LightOf[i]] = Len(ps) + 1]
    /\ observing' = [observing EXCEPT ![i] = Len(ps) + 1]
    /\ reading' = Aged(LightOf[i])
    /\ thisInstant' = thisInstant \cup {LightOf[i]}
    /\ crossing' = IF \E p \in OutstandingFor(LightOf[i]) : observing[i] # p
                      THEN crossing \cup {LightOf[i]}
                      ELSE crossing \ {LightOf[i]}
    /\ forlorn' = forlorn \ {LightOf[i]}

(* Mutant: the value held is the first that came, not the last. *)
HoldFirst(i, c) ==
    /\ slot[i] # Free
    /\ slot' = [slot EXCEPT ![i] = IF @ = Empty THEN c ELSE @]
    /\ UNCHANGED <<patches, pending, thisInstant, observing, reading,
                   crossing, forlorn>>

(* Mutant: nothing is held; the PATCH goes out beside the other. *)
HoldNothing(i, c) ==
    /\ slot[i] # Free
    /\ Fire(patches, i, c)

(* `send`, with a PATCH of this instance's outstanding. *)
Hold(i, c) ==
    /\ slot[i] # Free
    /\ slot' = [slot EXCEPT ![i] = c]
    /\ UNCHANGED <<patches, pending, thisInstant, observing, reading,
                   crossing, forlorn>>

(* `send`: a person commits a Command.  People are slower than the clock:  *)
(* no two commits share a reading of it.                                   *)
Send(i, c) ==
    /\ i \in mounted
    /\ sends < MaxSends
    /\ thisInstant = {}
    /\ sends' = sends + 1
    /\ wanted' = [wanted EXCEPT ![LightOf[i]] = c]
    /\ dropped' = dropped \ {LightOf[i]}
    /\ \/ slot[i] = Free /\ Fire(patches, i, c)
       \/ Hold(i, c)
    /\ UNCHANGED <<mounted, since, lamp, due>>

-----------------------------------------------------------------------------
(* The PATCH *)

(* The Bridge acts on it, or refuses, or both in part; `unknown` names     *)
(* nothing it did and nothing it refused.  What it did it announces.       *)
Act(p) ==
    /\ patches[p].stage = "travelling"
    /\ \E reply \in Outcomes, touched \in BOOLEAN :
          /\ reply \in {"success", "partial"} => touched
          /\ reply = "rejected" => ~touched
          /\ patches' = [patches EXCEPT ![p].stage = "acted",
                                        ![p].reply = reply]
          /\ LET l == patches[p].light
             IN  IF touched
                    THEN lamp' = [lamp EXCEPT ![l] = p] /\ due' = due \cup {l}
                    ELSE UNCHANGED <<lamp, due>>
    /\ UNCHANGED <<uiVars, reading, sends, wanted, dropped, crossing, forlorn>>

(* One that was given up on while it travelled may be acted on all the     *)
(* same, and later than one sent after it.                                 *)
ActLate(p) ==
    /\ patches[p].stage = "lost"
    /\ patches' = [patches EXCEPT ![p].stage = "settled"]
    /\ lamp' = [lamp EXCEPT ![patches[p].light] = p]
    /\ due' = due \cup {patches[p].light}
    /\ UNCHANGED <<uiVars, reading, sends, wanted, dropped, crossing, forlorn>>

(* `clearPending(lightId, ifSentAt)`: no two PATCHes for a light are sent  *)
(* at one instant, so that the instant tells them apart.                   *)
ClearPending(l, p) ==
    IF pending[l] = p THEN [pending EXCEPT ![l] = 0] ELSE pending

(* A mutation runs the callbacks of the last `mutate` of an instance that  *)
(* is still mounted, and of no other.                                      *)
Hears(i, p) == i \in mounted /\ observing[i] = p

(* Mutant: only a rejection clears what was asked. *)
AssertsNothingUnlessRejected(reply) == reply = "rejected"

(* The Pending Command is of no more use. *)
AssertsNothing(reply) == reply # "success"

(* Nobody knows what came of it: the light is read again. *)
NobodyKnows(reply) == reply \in {"partial", "unknown", "outcome_unknown"}

(* Mutant: the value held is forgotten. *)
NextForgotten(i, sent) == FALSE

(* What was held goes out next, if it is not what was just sent. *)
NextGoesOut(i, sent) == slot[i] \in Commands /\ slot[i] # sent

(* The PATCH is over, and its callbacks run if they are heard: the Pending *)
(* Command, the read, and `settle`, with the next `fire` as part of it.    *)
(* Unheard, it leaves its Pending Command as it is.                        *)
Settle(p, reply) ==
    LET l == patches[p].light
        over == [patches EXCEPT
                    ![p].stage = IF @ = "acted" THEN "settled" ELSE "lost",
                    ![p].reply = reply]
        cleared == IF AssertsNothing(reply) THEN ClearPending(l, p) ELSE pending
    IN  \/ /\ \A i \in Instances : ~Hears(i, p)
           /\ patches' = over
           /\ forlorn' = IF AssertsNothing(reply) /\ pending[l] = p
                            THEN forlorn \cup {l} ELSE forlorn
           /\ UNCHANGED <<uiVars, due, reading, crossing>>
        \/ \E i \in Instances :
           /\ Hears(i, p)
           /\ due' = IF NobodyKnows(reply) THEN due \cup {l} ELSE due
           /\ UNCHANGED <<mounted, since>>
           /\ \/ /\ NextGoesOut(i, patches[p].command)
                 /\ Fire(over, i, slot[i])
              \/ /\ ~NextGoesOut(i, patches[p].command)
                 /\ patches' = over
                 /\ slot' = [slot EXCEPT ![i] = Free]
                 /\ pending' = cleared
                 /\ UNCHANGED <<observing, reading, thisInstant, crossing, forlorn>>

(* The Acknowledgement arrives. *)
Acknowledged(p) ==
    /\ patches[p].stage = "acted"
    /\ Settle(p, patches[p].reply)
    /\ UNCHANGED <<lamp, sends, wanted, dropped>>

(* The RPC's deadline passes first. *)
TimedOut(p) ==
    /\ Outstanding(p)
    /\ Settle(p, "outcome_unknown")
    /\ UNCHANGED <<lamp, sends, wanted, dropped>>

(* A refusal on the way, or a connection that breaks anywhere on it: the   *)
(* API answers GATEWAY_UNREACHABLE, or the browser's own fetch fails.      *)
Broken(p) ==
    /\ Outstanding(p)
    /\ Settle(p, "error")
    /\ UNCHANGED <<lamp, sends, wanted, dropped>>

-----------------------------------------------------------------------------
(* Reads *)

(* An Invalidation, or a page that shows an invalid copy, asks for a read. *)
AskRead(l) ==
    /\ l \in due /\ Shown(l)
    /\ reading[l] = "idle"
    /\ reading' = [reading EXCEPT ![l] = "newer"]
    /\ due' = due \ {l}
    /\ UNCHANGED <<uiVars, patches, lamp, sends, wanted, dropped, crossing,
                   forlorn>>

(* "An Invalidation that may never come": the stream it was to come on is  *)
(* down, and the status it returns with is the one it went with.           *)
LoseWord(l) ==
    /\ l \in due
    /\ due' = due \ {l}
    /\ forlorn' = forlorn \cup {l}
    /\ UNCHANGED <<uiVars, patches, lamp, reading, sends, wanted, dropped,
                   crossing>>

(* Somebody else changed the light. *)
Elsewhere(l) ==
    /\ due' = due \cup {l}
    /\ UNCHANGED <<uiVars, patches, lamp, reading, sends, wanted, dropped,
                   crossing, forlorn>>

(* Mutant: the comparison the other way round. *)
SupersededAtTheInstant(l) == pending[l] # 0 /\ l \in thisInstant

(* `isSupersededByAReadAfter`, of a read that arrives now. *)
IsSupersededByAReadAfter(l) == pending[l] # 0 /\ l \notin thisInstant

(* A read arrives; the page that shows the light, or the next one that     *)
(* does, compares its time of arrival with the Command's in                *)
(* usePendingCommand.  One asked for after the Command was sent takes      *)
(* longer than the instant.                                                *)
ReadArrives(l) ==
    /\ reading[l] # "idle"
    /\ reading[l] = "newer" => l \notin thisInstant
    /\ reading' = [reading EXCEPT ![l] = "idle"]
    /\ pending' = IF IsSupersededByAReadAfter(l)
                     THEN [pending EXCEPT ![l] = 0] ELSE pending
    /\ UNCHANGED <<mounted, since, slot, observing, thisInstant, patches, lamp,
                   due, sends, wanted, dropped, crossing, forlorn>>

(* Or fails, and is not made again (`retry: false`). *)
ReadFails(l) ==
    /\ reading[l] # "idle"
    /\ reading' = [reading EXCEPT ![l] = "idle"]
    /\ forlorn' = forlorn \cup {l}
    /\ UNCHANGED <<uiVars, patches, lamp, due, sends, wanted, dropped, crossing>>

Next ==
    \/ Tick
    \/ \E page \in Pages : Enter(page)
    \/ Leave
    \/ \E i \in Instances, c \in Commands : Send(i, c)
    \/ \E p \in Numbers : Act(p) \/ ActLate(p) \/ Acknowledged(p) \/ TimedOut(p) \/ Broken(p)
    \/ \E l \in Lights : AskRead(l) \/ LoseWord(l) \/ Elsewhere(l)
                            \/ ReadArrives(l) \/ ReadFails(l)

Spec == Init /\ [][Next]_vars

-----------------------------------------------------------------------------
(* Properties *)

(* Two PATCHes outstanding at once for a light are of two visits to its    *)
(* pages: however many commits a visit sees, their PATCHes follow each     *)
(* other.                                                                  *)
OneAtATime ==
    \A l \in Lights : \A p, q \in OutstandingFor(l) :
        p > since /\ q > since => p = q

Last(l) == CHOOSE p \in Numbers :
              /\ patches[p].light = l
              /\ \A q \in Numbers : patches[q].light = l => q <= p

(* The last Command committed for a light is the last fired for it, or is  *)
(* held by an instance that will hear the PATCH it waits on: it is         *)
(* "guaranteed to be sent, never silently dropped".                        *)
LastCommitIsSent ==
    \A l \in Lights :
        wanted[l] # Free =>
            \/ patches[Last(l)].command = wanted[l]
            \/ \E p \in OutstandingFor(l) :
                  \E i \in Instances : Hears(i, p) /\ slot[i] = wanted[l]

(* Nothing but a page left with a Command held drops the last commit: it   *)
(* is not lost to an earlier commit, to a failure, to an Acknowledgement   *)
(* of another visit's, or by a key taken that nothing would free.          *)
OnlyLeavingDrops ==
    \A l \in Lights :
        wanted[l] # Free =>
            \/ patches[Last(l)].command = wanted[l]
            \/ \E p \in OutstandingFor(l) :
                  \E i \in Instances : Hears(i, p) /\ slot[i] = wanted[l]
            \/ l \in dropped

(* Of Commands that were all acknowledged none overtakes a later one on    *)
(* the way, unless the page was left between them: if the last was fired   *)
(* with none outstanding, and was a success, the light was last told what  *)
(* was last committed and not dropped.                                     *)
BridgeHasLastWord ==
    \A l \in Lights :
        /\ wanted[l] # Free /\ l \notin dropped \cup crossing
        /\ OutstandingFor(l) = {}
        /\ \A p \in Numbers :
              patches[p].light = l => patches[p].reply \in Outcomes
        /\ patches[Last(l)].reply = "success"
        => patches[lamp[l]].command = wanted[l]

(* A Command of the page on screen, known to have come to nothing, or of   *)
(* which nothing is known, is not shown as pending, whatever PATCHes of    *)
(* earlier visits come to meanwhile.                                       *)
NothingPendingInVain ==
    \A l \in Lights :
        pending[l] > since /\ ~Outstanding(pending[l]) =>
            patches[pending[l]].reply = "success"

(* A Pending Command awaits something that will settle it, its PATCH, a    *)
(* word of its light, or a read asked for since, unless that word never    *)
(* came, the read failed, or its PATCH failed with nobody to hear of it:   *)
(* an Acknowledgement, a read or a commit in an unlucky order never leaves *)
(* it shown for good.                                                      *)
PendingIsAwaited ==
    \A l \in Lights :
        pending[l] # 0 =>
            \/ Outstanding(pending[l])
            \/ l \in due \/ reading[l] = "newer"
            \/ l \in forlorn
=============================================================================
