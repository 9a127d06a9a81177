------------------------------- MODULE Meter -------------------------------
(***************************************************************************)
(* The sliding window that meters Mutations per session and login attempts *)
(* per address: `meterAtMost` in http/meter.ts.                            *)
(*                                                                         *)
(* The code keeps, per key, an array of the times of recent spends, oldest *)
(* first.  Here an entry is a ticket, a time and a serial number, so that  *)
(* two spends of one millisecond stay two; the array's order is the order  *)
(* of the serial numbers, and a key with no ticket is one the Map does not *)
(* hold.  The clock is read once per spend and is taken not to go back.    *)
(*                                                                         *)
(* `log`, `waiting`, `refusedAt` and `retryAfter` are history: what was    *)
(* ever allowed, and what each key was last told when it was refused.      *)
(***************************************************************************)
EXTENDS Integers, FiniteSets

CONSTANTS
    Keys,       \* session ids, or addresses
    Limit,      \* the ceiling: 60 Mutations, or 5 logins
    WindowMs,   \* WINDOW_MS
    Steps,      \* the lengths of time that may pass between two spends
    MaxNow      \* bound: how far the clock runs

(* With a limit of nothing there would be no oldest spend to wait for. *)
ASSUME LimitAssumption == Limit \in Nat \ {0}
ASSUME WindowAssumption == WindowMs \in Nat \ {0}
ASSUME ClockAssumption == Steps \subseteq Nat /\ MaxNow \in Nat

VARIABLES
    now,        \* Date.now()
    serial,     \* history: how many spends were allowed
    sent,       \* the meter's Map
    sweptAt,    \* history: when the Map was last swept
    log,        \* history: every spend ever allowed, per key
    waiting,    \* history: keys refused since they were last allowed
    refusedAt,  \* history: when each was last refused
    retryAfter  \* history: the retryAfterSeconds it was then told

vars == <<now, serial, sent, sweptAt, log, waiting, refusedAt, retryAfter>>

Tickets == [at : Nat, nr : Nat]

(* Mutant: the seconds are rounded down. *)
SecondsRoundedDown(ms) == ms \div 1000

(* Math.max(1, Math.ceil(ms / 1000)) *)
Seconds(ms) == IF ms > 0 THEN (ms + 999) \div 1000 ELSE 1

TypeOK ==
    /\ now \in Nat
    /\ serial \in Nat
    /\ sweptAt \in Nat
    /\ sent \in [Keys -> SUBSET Tickets]
    /\ log \in [Keys -> SUBSET Tickets]
    /\ waiting \subseteq Keys
    /\ refusedAt \in [Keys -> Nat]
    /\ retryAfter \in [Keys -> 1..Seconds(WindowMs)]

-----------------------------------------------------------------------------
(* Mutant: a counter that resets on the minute, not a log of times. *)
RecentSinceReset(k) == {e \in sent[k] : e.at \div WindowMs = now \div WindowMs}

(* What the sweep keeps of one key: strictly inside the window. *)
Recent(k) == {e \in sent[k] : e.at > now - WindowMs}

(* Mutant: only the key that is spending is swept. *)
SweptFor(k) == [sent EXCEPT ![k] = Recent(k)]

(* Every key is swept on every spend, whoever `k` it is for. *)
Swept(k) == [other \in Keys |-> Recent(other)]

HasRoom(k) == Cardinality(Recent(k)) < Limit

(* Mutant: the newest spend is the one waited for. *)
IsNewest(e, k) == e \in Recent(k) /\ \A f \in Recent(k) : f.at <= e.at

(* recent[0] *)
IsOldest(e, k) == e \in Recent(k) /\ \A f \in Recent(k) : e.at <= f.at

Init ==
    /\ now = 0
    /\ serial = 0
    /\ sweptAt = 0
    /\ sent = [k \in Keys |-> {}]
    /\ log = [k \in Keys |-> {}]
    /\ waiting = {}
    /\ refusedAt = [k \in Keys |-> 0]
    /\ retryAfter = [k \in Keys |-> 1]

Allow(k) ==
    /\ HasRoom(k)
    /\ LET ticket == [at |-> now, nr |-> serial]
       IN  /\ sent' = [Swept(k) EXCEPT ![k] = @ \cup {ticket}]
           /\ log' = [log EXCEPT ![k] = @ \cup {ticket}]
    /\ serial' = serial + 1
    /\ sweptAt' = now
    /\ waiting' = waiting \ {k}
    /\ UNCHANGED <<now, refusedAt, retryAfter>>

Refuse(k) ==
    /\ ~HasRoom(k)
    /\ \E oldest \in sent[k] :
          /\ IsOldest(oldest, k)
          /\ retryAfter' = [retryAfter EXCEPT
                               ![k] = Seconds(oldest.at + WindowMs - now)]
    /\ sent' = Swept(k)
    /\ sweptAt' = now
    /\ waiting' = waiting \cup {k}
    /\ refusedAt' = [refusedAt EXCEPT ![k] = now]
    /\ UNCHANGED <<now, serial, log>>

Pass(d) ==
    /\ now + d <= MaxNow
    /\ now' = now + d
    /\ UNCHANGED <<serial, sent, sweptAt, log, waiting, refusedAt, retryAfter>>

Next ==
    \/ \E k \in Keys : Allow(k) \/ Refuse(k)
    \/ \E d \in Steps : Pass(d)

Spec == Init /\ [][Next]_vars

-----------------------------------------------------------------------------
(* Properties *)

(* No window of WINDOW_MS, wherever it lies, holds more than the limit: not *)
(* the one before a reset and the one after it taken together either.  A    *)
(* fullest window may be taken to end at a spend.                           *)
NoWindowOverLimit ==
    \A k \in Keys : \A e \in log[k] :
        Cardinality({f \in log[k] : f.at > e.at - WindowMs /\ f.at <= e.at})
            <= Limit

(* The meter holds exactly what was allowed inside the window that ended    *)
(* when it was last asked: it never forgets a spend that still counts, one  *)
(* key's asking costs no other key its count, and an idle key is forgotten. *)
RemembersTheWindow ==
    \A k \in Keys : sent[k] = {e \in log[k] : e.at > sweptAt - WindowMs}

MayRetryAt(k) == refusedAt[k] + 1000 * retryAfter[k]

(* A key that waits as long as it was told is not refused again. *)
WaitingAsToldIsEnough ==
    [][\A k \in Keys : k \in waiting /\ Refuse(k) => now < MayRetryAt(k)]_vars

(* And it is told no whole second too many: one second earlier the window   *)
(* would still have been full.                                              *)
NotToldToWaitTooLong ==
    \A k \in waiting :
        Cardinality({e \in log[k] : e.at > MayRetryAt(k) - 1000 - WindowMs})
            >= Limit
=============================================================================
