---------------------------- MODULE SharedReads ----------------------------
(***************************************************************************)
(* Reads of the Gateway (`listLights`, `getLight` and `ask` in             *)
(* gateway/adapter.ts) and the sharing of those in flight                  *)
(* (gateway/single-flight.ts).                                             *)
(*                                                                         *)
(* A read is one HTTP request's.  The RPC a read starts is named after it, *)
(* and other reads of its key may come to wait on that RPC.  What a read   *)
(* is answered with is told apart by how much of what happened to the      *)
(* lights it shows: `truth` counts the changes, and an RPC shows those     *)
(* that had happened when the Bridge was read for it.                      *)
(***************************************************************************)
EXTENDS Naturals

CONSTANTS
    Reads,
    Keys,           \* "lights", and one per light
    Nobody,         \* no RPC
    MaxChanges      \* bound: how often the lights change

ASSUME NobodyAssumption == Nobody \notin Reads
ASSUME ChangesAssumption == MaxChanges \in Nat

VARIABLES
    truth,      \* how many changes the Bridge has seen
    inFlight,   \* single-flight's map: key -> RPC, or Nobody
    rpc,        \* each RPC: "idle", "asked", "sampled" (the Bridge was read)
    keyOf,      \* the key of each read
    shows,      \* the changes an RPC's answer will show
    waitsOn,    \* the RPC each read is waiting on, or Nobody
    answered,   \* the changes the read's last answer showed, or Failed
    floor       \* history: truth when the first of those it shares with began

vars == <<truth, inFlight, rpc, keyOf, shows, waitsOn, answered, floor>>

Versions == 0..MaxChanges

Failed == MaxChanges + 1

TypeOK ==
    /\ truth \in Versions
    /\ inFlight \in [Keys -> Reads \cup {Nobody}]
    /\ rpc \in [Reads -> {"idle", "asked", "sampled"}]
    /\ keyOf \in [Reads -> Keys]
    /\ shows \in [Reads -> Versions]
    /\ waitsOn \in [Reads -> Reads \cup {Nobody}]
    /\ answered \in [Reads -> Versions \cup {Failed}]
    /\ floor \in [Reads -> Versions]

Waiting(r) == waitsOn[r] # Nobody

(* The reads that go by RPC i's answer. *)
Sharers(i) == {r \in Reads : waitsOn[r] = i}

-----------------------------------------------------------------------------
Init ==
    /\ truth = 0
    /\ inFlight = [k \in Keys |-> Nobody]
    /\ rpc = [r \in Reads |-> "idle"]
    /\ keyOf \in [Reads -> Keys]
    /\ shows = [r \in Reads |-> 0]
    /\ waitsOn = [r \in Reads |-> Nobody]
    /\ answered = [r \in Reads |-> 0]
    /\ floor = [r \in Reads |-> 0]

(* The Bridge's lights change, by whoever's doing. *)
Change ==
    /\ truth < MaxChanges
    /\ truth' = truth + 1
    /\ UNCHANGED <<inFlight, rpc, keyOf, shows, waitsOn, answered, floor>>

(* What a read begun now must at least show: everything so far, unless it  *)
(* has others of its key to go along with.                                 *)
FloorFor(r) ==
    IF \E s \in Reads : Waiting(s) /\ keyOf[s] = keyOf[r]
       THEN CHOOSE v \in Versions :
               \E s \in Reads : Waiting(s) /\ keyOf[s] = keyOf[r] /\ v = floor[s]
       ELSE truth

(* The call a read finds running is the one it waits on. *)
Join(r) ==
    /\ inFlight[keyOf[r]] # Nobody
    /\ waitsOn' = [waitsOn EXCEPT ![r] = inFlight[keyOf[r]]]
    /\ UNCHANGED <<inFlight, rpc>>

(* Mutant: the call is not put in the map. *)
StartUnshared(r) ==
    /\ inFlight[keyOf[r]] = Nobody
    /\ rpc' = [rpc EXCEPT ![r] = "asked"]
    /\ waitsOn' = [waitsOn EXCEPT ![r] = r]
    /\ UNCHANGED inFlight

(* Otherwise it starts one. *)
Start(r) ==
    /\ inFlight[keyOf[r]] = Nobody
    /\ rpc' = [rpc EXCEPT ![r] = "asked"]
    /\ inFlight' = [inFlight EXCEPT ![keyOf[r]] = r]
    /\ waitsOn' = [waitsOn EXCEPT ![r] = r]

(* `share(key, start)`. *)
Begin(r) ==
    /\ ~Waiting(r)
    /\ Join(r) \/ Start(r)
    /\ floor' = [floor EXCEPT ![r] = FloorFor(r)]
    /\ UNCHANGED <<truth, keyOf, shows, answered>>

(* The Gateway reads the Bridge for it. *)
Sample(i) ==
    /\ rpc[i] = "asked"
    /\ rpc' = [rpc EXCEPT ![i] = "sampled"]
    /\ shows' = [shows EXCEPT ![i] = truth]
    /\ UNCHANGED <<truth, inFlight, keyOf, waitsOn, answered, floor>>

(* Mutant: the entry stays, and goes on answering. *)
SettleKeepingEntry(i, outcome) ==
    /\ waitsOn' = [r \in Reads |-> IF r \in Sharers(i) THEN Nobody ELSE waitsOn[r]]
    /\ answered' = [r \in Reads |->
                       IF r \in Sharers(i) THEN outcome ELSE answered[r]]
    /\ UNCHANGED <<inFlight, rpc>>

(* Mutant: the entry is gone as soon as the starter is resumed, and whoever *)
(* else was waiting with it is forgotten.                                   *)
SettleStarterOnly(i, outcome) ==
    /\ rpc' = [rpc EXCEPT ![i] = "idle"]
    /\ inFlight' = [inFlight EXCEPT ![keyOf[i]] = Nobody]
    /\ waitsOn' = [waitsOn EXCEPT ![i] = Nobody]
    /\ answered' = [answered EXCEPT ![i] = outcome]

(* The RPC is over: the entry is gone before any sharer is resumed, and no *)
(* other request is looked at in between.                                  *)
Settle(i, outcome) ==
    /\ rpc' = [rpc EXCEPT ![i] = "idle"]
    /\ inFlight' = [inFlight EXCEPT ![keyOf[i]] = Nobody]
    /\ waitsOn' = [r \in Reads |-> IF r \in Sharers(i) THEN Nobody ELSE waitsOn[r]]
    /\ answered' = [r \in Reads |->
                       IF r \in Sharers(i) THEN outcome ELSE answered[r]]

Answer(i) ==
    /\ rpc[i] = "sampled"
    /\ Settle(i, shows[i])
    /\ UNCHANGED <<truth, keyOf, shows, floor>>

(* The deadline, the channel, or the Gateway's refusal. *)
Fail(i) ==
    /\ rpc[i] # "idle"
    /\ Settle(i, Failed)
    /\ UNCHANGED <<truth, keyOf, shows, floor>>

Next ==
    \/ Change
    \/ \E r \in Reads : Begin(r) \/ Sample(r) \/ Answer(r) \/ Fail(r)

(* The deadline `ask` sets sees to it that an RPC ends one way or another. *)
Fairness == \A i \in Reads : WF_vars(Answer(i) \/ Fail(i))

Spec == Init /\ [][Next]_vars
FairSpec == Spec /\ Fairness

-----------------------------------------------------------------------------
(* Properties *)

(* At any time a key has at most one RPC, and it is the one the map names: *)
(* no question is asked twice at once, and no entry outlives its RPC.      *)
OneRpcPerKey ==
    \A i \in Reads, k \in Keys :
        rpc[i] # "idle" /\ keyOf[i] = k <=> inFlight[k] = i

(* "It is not a cache": a read nobody else is waiting with shows everything *)
(* that had happened when it began, and one that shares shows everything    *)
(* that had when the first of those it shares with began.                   *)
NotACache ==
    \A r \in Reads :
        ~Waiting(r) /\ answered[r] # Failed => answered[r] >= floor[r]

(* Every read is answered, those that joined an RPC late included. *)
EveryReadAnswered == \A r \in Reads : Waiting(r) ~> ~Waiting(r)
=============================================================================
