---------------------------- MODULE Meter_proofs ----------------------------
(***************************************************************************)
(* The meter's promises for every set of keys, limit, window and clock:    *)
(* what MCMeter checks for two keys and a limit of two.                    *)
(***************************************************************************)
EXTENDS Meter, FiniteSetTheorems, TLAPS

(* What was allowed lies in the past, and there is finitely much of it. *)
LogInThePast ==
    /\ sweptAt <= now
    /\ \A k \in Keys :
          /\ IsFiniteSet(log[k])
          /\ \A e \in log[k] : e.at <= sweptAt /\ e.nr < serial

(* The array the meter keeps for a key is never longer than the limit. *)
HoldsAtMostLimit == \A k \in Keys : Cardinality(sent[k]) <= Limit

(* By the time a refused key was told to retry, some of what filled its     *)
(* window has left it.                                                      *)
RoomWhenTold ==
    \A k \in waiting :
        Cardinality({e \in log[k] : e.at > MayRetryAt(k) - WindowMs}) < Limit

IInv ==
    /\ TypeOK
    /\ LogInThePast
    /\ RemembersTheWindow
    /\ HoldsAtMostLimit
    /\ NoWindowOverLimit
    /\ RoomWhenTold
    /\ NotToldToWaitTooLong

-----------------------------------------------------------------------------
(* Rounding up loses nothing, and less than a second. *)
LEMMA SecondsRoundUp ==
    ASSUME NEW ms \in Int, ms > 0
    PROVE  /\ Seconds(ms) \in Nat \ {0}
           /\ 1000 * Seconds(ms) >= ms
           /\ 1000 * (Seconds(ms) - 1) < ms
BY DEF Seconds

(* A wait within the window is within the seconds of a window. *)
LEMMA SecondsMonotone ==
    ASSUME NEW ms \in Int, ms > 0, ms <= WindowMs
    PROVE  Seconds(ms) \in 1..Seconds(WindowMs)
BY WindowAssumption DEF Seconds

(* Part of a finite set is finite and no larger. *)
LEMMA PartIsSmaller ==
    ASSUME NEW S, IsFiniteSet(S), NEW T, T \subseteq S
    PROVE  /\ IsFiniteSet(T)
           /\ Cardinality(T) \in Nat
           /\ Cardinality(S) \in Nat
           /\ Cardinality(T) <= Cardinality(S)
BY FS_Subset, FS_CardinalityType

(* What the sweep keeps of a key is what was allowed in the window that *)
(* ends now.                                                            *)
LEMMA RecentIsTheWindow ==
    ASSUME IInv, NEW k \in Keys
    PROVE  /\ Recent(k) = {e \in log[k] : e.at > now - WindowMs}
           /\ Recent(k) \subseteq sent[k]
           /\ IsFiniteSet(Recent(k))
           /\ Cardinality(Recent(k)) \in Nat
           /\ Cardinality(Recent(k)) <= Limit
<1> USE DEF IInv
<1>1. \A e \in log[k] : e.at \in Nat
  BY DEF TypeOK, Tickets
<1>2. now \in Nat /\ sweptAt \in Nat /\ sweptAt <= now /\ WindowMs \in Nat
  BY WindowAssumption DEF TypeOK, LogInThePast
<1>3. sent[k] = {e \in log[k] : e.at > sweptAt - WindowMs}
  BY DEF RemembersTheWindow
<1>4. Recent(k) = {e \in log[k] : e.at > now - WindowMs}
  BY <1>1, <1>2, <1>3 DEF Recent
<1>5. Recent(k) \subseteq sent[k]
  BY DEF Recent
<1>6. IsFiniteSet(log[k]) /\ sent[k] \subseteq log[k]
  BY <1>3 DEF LogInThePast
<1>7. IsFiniteSet(sent[k])
  BY <1>6, PartIsSmaller
<1>8. Cardinality(sent[k]) <= Limit
  BY DEF HoldsAtMostLimit
<1> QED
  BY <1>4, <1>5, <1>7, <1>8, PartIsSmaller, LimitAssumption

-----------------------------------------------------------------------------
(* Nothing is logged yet, so every window is empty. *)
LEMMA InitIInv == Init => IInv
<1> SUFFICES ASSUME Init PROVE IInv
  OBVIOUS
<1>1. TypeOK
  <2>1. 1 \in 1..Seconds(WindowMs)
    BY WindowAssumption DEF Seconds
  <2> QED BY <2>1 DEF Init, TypeOK
<1>2. \A k \in Keys : log[k] = {} /\ sent[k] = {}
  BY DEF Init
<1>3. LogInThePast /\ RemembersTheWindow /\ NoWindowOverLimit
  BY <1>2, FS_EmptySet DEF Init, LogInThePast, RemembersTheWindow, NoWindowOverLimit
<1>4. HoldsAtMostLimit
  BY <1>2, FS_EmptySet, LimitAssumption DEF HoldsAtMostLimit
<1>5. RoomWhenTold /\ NotToldToWaitTooLong
  BY DEF Init, RoomWhenTold, NotToldToWaitTooLong
<1> QED
  BY <1>1, <1>3, <1>4, <1>5 DEF IInv

(* Allowing a spend keeps the invariant: every window the new ticket lies  *)
(* in holds nothing but that ticket and what the sweep just kept.          *)
LEMMA AllowIInv ==
    ASSUME IInv, NEW k \in Keys, Allow(k)
    PROVE  IInv'
<1> USE DEF IInv
<1> DEFINE ticket == [at |-> now, nr |-> serial]
<1>1. /\ now \in Nat /\ serial \in Nat /\ sweptAt \in Nat /\ WindowMs \in Nat
      /\ sweptAt <= now
  BY WindowAssumption DEF TypeOK, LogInThePast
<1>2. ticket \in Tickets /\ ticket.at = now /\ ticket.nr = serial
  BY <1>1 DEF Tickets
<1>3. /\ log' = [log EXCEPT ![k] = @ \cup {ticket}]
      /\ sent' = [Swept(k) EXCEPT ![k] = @ \cup {ticket}]
      /\ now' = now /\ sweptAt' = now /\ serial' = serial + 1
      /\ waiting' = waiting \ {k}
      /\ refusedAt' = refusedAt /\ retryAfter' = retryAfter
  BY DEF Allow
<1> HIDE DEF ticket
<1>4. log'[k] = log[k] \cup {ticket} /\ \A j \in Keys \ {k} : log'[j] = log[j]
  BY <1>3 DEF TypeOK
<1>5. /\ sent'[k] = Recent(k) \cup {ticket}
      /\ \A j \in Keys \ {k} : sent'[j] = Recent(j)
  BY <1>3 DEF Swept
<1>6. \A j \in Keys : /\ log[j] \subseteq Tickets
                      /\ \A e \in log[j] : e.at \in Nat /\ e.nr \in Nat
  BY DEF TypeOK, Tickets
<1>7. TypeOK'
  <2>1. log' \in [Keys -> SUBSET Tickets]
    BY <1>2, <1>3 DEF TypeOK
  <2>2. \A j \in Keys : Recent(j) \subseteq Tickets
    BY DEF Recent, TypeOK
  <2>3. sent' \in [Keys -> SUBSET Tickets]
    BY <1>2, <1>3, <2>2 DEF Swept
  <2> QED BY <1>1, <1>3, <2>1, <2>3 DEF TypeOK
<1>8. LogInThePast'
  <2>1. \A j \in Keys : IsFiniteSet(log'[j])
    BY <1>4, FS_AddElement DEF LogInThePast
  <2>2. ASSUME NEW j \in Keys, NEW e \in log'[j]
        PROVE  e.at <= sweptAt' /\ e.nr < serial'
    <3>1. CASE e \in log[j]
      BY <1>1, <1>3, <1>6, <3>1 DEF LogInThePast
    <3>2. CASE e = ticket
      BY <1>1, <1>2, <1>3, <3>2
    <3>3. log'[j] = log[j] \/ log'[j] = log[j] \cup {ticket}
      BY <1>4, <2>2
    <3>4. e \in log[j] \/ e = ticket
      BY <2>2, <3>3
    <3> QED BY <3>1, <3>2, <3>4
  <2>3. sweptAt' <= now'
    BY <1>1, <1>3
  <2>4. \A j \in Keys : \A e \in log'[j] : e.at <= sweptAt' /\ e.nr < serial'
    BY <2>2
  <2> QED BY <2>1, <2>3, <2>4 DEF LogInThePast
<1>9. RemembersTheWindow'
  <2>1. ticket.at > now - WindowMs
    BY <1>1, <1>2, WindowAssumption
  <2>2. ASSUME NEW j \in Keys
        PROVE  sent'[j] = {e \in log'[j] : e.at > sweptAt' - WindowMs}
    <3>1. Recent(j) = {e \in log[j] : e.at > now - WindowMs}
      BY RecentIsTheWindow
    <3> QED BY <1>3, <1>4, <1>5, <2>1, <3>1
  <2> QED BY <2>2 DEF RemembersTheWindow
<1>10. /\ IsFiniteSet(Recent(k)) /\ Cardinality(Recent(k)) \in Nat
       /\ IsFiniteSet(Recent(k) \cup {ticket})
       /\ Cardinality(Recent(k) \cup {ticket}) <= Limit
  <2>1. Cardinality(Recent(k)) < Limit
    BY DEF Allow, HasRoom
  <2>2. IsFiniteSet(Recent(k)) /\ Cardinality(Recent(k)) \in Nat
    BY RecentIsTheWindow
  <2>3. /\ IsFiniteSet(Recent(k) \cup {ticket})
        /\ \/ Cardinality(Recent(k) \cup {ticket}) = Cardinality(Recent(k))
           \/ Cardinality(Recent(k) \cup {ticket}) = Cardinality(Recent(k)) + 1
    BY <2>2, FS_AddElement
  <2> QED BY <2>1, <2>2, <2>3, LimitAssumption
<1>11. HoldsAtMostLimit'
  BY <1>5, <1>10, RecentIsTheWindow DEF HoldsAtMostLimit
<1>12. NoWindowOverLimit'
  <2> SUFFICES ASSUME NEW j \in Keys, NEW e \in log'[j]
               PROVE  Cardinality({f \in log'[j] : f.at > e.at - WindowMs /\ f.at <= e.at}) <= Limit
    BY DEF NoWindowOverLimit
  <2> DEFINE W == {f \in log'[j] : f.at > e.at - WindowMs /\ f.at <= e.at}
             V == {f \in log[j] : f.at > e.at - WindowMs /\ f.at <= e.at}
  <2>1. CASE j = k /\ e.at = now
    <3>1. W \subseteq Recent(k) \cup {ticket}
      BY <1>1, <1>4, <1>6, <2>1, RecentIsTheWindow
    <3> QED BY <1>10, <3>1, PartIsSmaller, LimitAssumption
  <2>2. CASE ~(j = k /\ e.at = now)
    <3>1. e \in log[j] /\ e.at \in Nat /\ e.at <= now
      BY <1>1, <1>2, <1>4, <1>6, <2>2 DEF LogInThePast
    <3>2. W = V
      BY <1>1, <1>2, <1>4, <1>6, <2>2, <3>1
    <3>3. Cardinality(V) <= Limit
      BY <3>1 DEF NoWindowOverLimit
    <3> QED BY <3>2, <3>3
  <2> QED BY <2>1, <2>2
<1>13. RoomWhenTold' /\ NotToldToWaitTooLong'
  <2>1. \A j \in waiting' : j \in waiting /\ j # k /\ j \in Keys /\ log'[j] = log[j]
    BY <1>3, <1>4 DEF TypeOK
  <2>2. \A j \in waiting' : MayRetryAt(j)' = MayRetryAt(j)
    BY <1>3 DEF MayRetryAt
  <2> QED
    BY <2>1, <2>2 DEF RoomWhenTold, NotToldToWaitTooLong
<1> QED
  BY <1>7, <1>8, <1>9, <1>11, <1>12, <1>13

(* Refusing keeps it: the oldest of a full window is still inside it now,  *)
(* and has left it by the time the key is told to retry.                   *)
LEMMA RefuseIInv ==
    ASSUME IInv, NEW k \in Keys, Refuse(k)
    PROVE  IInv'
<1> USE DEF IInv
<1>1. /\ now \in Nat /\ sweptAt \in Nat /\ WindowMs \in Nat /\ sweptAt <= now
  BY WindowAssumption DEF TypeOK, LogInThePast
<1>2. PICK oldest \in sent[k] :
        /\ IsOldest(oldest, k)
        /\ retryAfter' = [retryAfter EXCEPT ![k] = Seconds(oldest.at + WindowMs - now)]
  BY DEF Refuse
<1>3. /\ sent' = Swept(k) /\ log' = log /\ now' = now /\ sweptAt' = now
      /\ serial' = serial /\ waiting' = waiting \cup {k}
      /\ refusedAt' = [refusedAt EXCEPT ![k] = now]
  BY DEF Refuse
<1>4. \A j \in Keys : sent'[j] = Recent(j)
  BY <1>3 DEF Swept
<1>5. \A j \in Keys : \A e \in log[j] : e.at \in Nat
  BY DEF TypeOK, Tickets
<1> DEFINE ms == oldest.at + WindowMs - now
           r == Seconds(ms)
<1>6. /\ oldest \in Recent(k) /\ oldest \in log[k] /\ oldest.at \in Nat
      /\ oldest.at <= now /\ ms \in Int /\ ms > 0 /\ ms <= WindowMs
  <2>1. oldest \in Recent(k)
    BY <1>2 DEF IsOldest
  <2>2. oldest \in log[k] /\ oldest.at > now - WindowMs
    BY <2>1, RecentIsTheWindow
  <2>3. oldest.at \in Nat /\ oldest.at <= sweptAt
    BY <1>5, <2>2 DEF LogInThePast
  <2> QED BY <1>1, <2>1, <2>2, <2>3
<1>7. /\ r \in Nat \ {0} /\ r \in 1..Seconds(WindowMs)
      /\ 1000 * r >= ms /\ 1000 * (r - 1) < ms
  BY <1>6, SecondsRoundUp, SecondsMonotone
<1> HIDE DEF r
<1>8. TypeOK'
  <2>1. \A j \in Keys : Recent(j) \subseteq Tickets
    BY DEF Recent, TypeOK
  <2>2. sent' \in [Keys -> SUBSET Tickets]
    BY <1>3, <2>1 DEF Swept
  <2>3. retryAfter' \in [Keys -> 1..Seconds(WindowMs)]
    BY <1>2, <1>7 DEF TypeOK, r
  <2>4. refusedAt' \in [Keys -> Nat] /\ waiting' \subseteq Keys
    BY <1>1, <1>3 DEF TypeOK
  <2> QED BY <1>1, <1>3, <2>2, <2>3, <2>4 DEF TypeOK
<1>9. LogInThePast'
  BY <1>1, <1>3, <1>5 DEF LogInThePast
<1>10. RemembersTheWindow'
  BY <1>3, <1>4, RecentIsTheWindow DEF RemembersTheWindow
<1>11. HoldsAtMostLimit'
  BY <1>4, RecentIsTheWindow DEF HoldsAtMostLimit
<1>12. NoWindowOverLimit'
  BY <1>3 DEF NoWindowOverLimit
<1>13. /\ MayRetryAt(k)' = now + 1000 * r
       /\ \A j \in Keys \ {k} : MayRetryAt(j)' = MayRetryAt(j)
  BY <1>2, <1>3 DEF MayRetryAt, TypeOK, r
<1>14. ~(Cardinality(Recent(k)) < Limit)
  BY DEF Refuse, HasRoom
<1>15. Cardinality({e \in log'[k] : e.at > MayRetryAt(k)' - WindowMs}) < Limit
  <2> DEFINE Later == {e \in log'[k] : e.at > MayRetryAt(k)' - WindowMs}
  <2>1. Later \subseteq Recent(k) \ {oldest}
    <3>1. MayRetryAt(k)' - WindowMs >= oldest.at
      BY <1>1, <1>6, <1>7, <1>13
    <3>2. \A e \in Later : e \in log[k] /\ e.at > oldest.at
      BY <1>1, <1>3, <1>5, <1>6, <1>7, <1>13, <3>1
    <3> HIDE DEF Later
    <3>3. \A e \in Later : e.at > now - WindowMs
      BY <1>1, <1>5, <1>6, <3>2
    <3>4. \A e \in Later : e \in Recent(k) /\ e # oldest
      BY <1>5, <1>6, <3>2, <3>3, RecentIsTheWindow
    <3> QED BY <3>4
  <2>2. /\ IsFiniteSet(Recent(k) \ {oldest})
        /\ Cardinality(Recent(k) \ {oldest}) < Limit
    <3>1. /\ IsFiniteSet(Recent(k)) /\ Cardinality(Recent(k)) \in Nat
          /\ Cardinality(Recent(k)) <= Limit
      BY RecentIsTheWindow
    <3>2. /\ IsFiniteSet(Recent(k) \ {oldest})
          /\ Cardinality(Recent(k) \ {oldest}) = Cardinality(Recent(k)) - 1
      BY <1>6, <3>1, FS_RemoveElement
    <3> QED BY <3>1, <3>2, LimitAssumption
  <2> HIDE DEF Later
  <2>3. Cardinality(Later) < Limit
    BY <2>1, <2>2, PartIsSmaller, LimitAssumption
  <2> QED BY <2>3 DEF Later
<1>16. Cardinality({e \in log'[k] : e.at > MayRetryAt(k)' - 1000 - WindowMs}) >= Limit
  <2> DEFINE Earlier == {e \in log'[k] : e.at > MayRetryAt(k)' - 1000 - WindowMs}
  <2>1. Recent(k) \subseteq Earlier
    <3>1. MayRetryAt(k)' - 1000 - WindowMs < oldest.at
      BY <1>1, <1>6, <1>7, <1>13
    <3>2. MayRetryAt(k)' \in Int
      BY <1>1, <1>7, <1>13
    <3>3. \A e \in Recent(k) : e \in log[k] /\ e.at >= oldest.at
      BY <1>2, RecentIsTheWindow DEF IsOldest
    <3> QED BY <1>1, <1>3, <1>5, <1>6, <3>1, <3>2, <3>3
  <2>2. IsFiniteSet(Earlier)
    BY <1>3, PartIsSmaller DEF LogInThePast
  <2> HIDE DEF Earlier
  <2>3. Cardinality(Earlier) >= Limit
    BY <1>14, <2>1, <2>2, RecentIsTheWindow, PartIsSmaller, LimitAssumption
  <2> QED BY <2>3 DEF Earlier
<1>17. RoomWhenTold'
  <2>1. ASSUME NEW j \in waiting', j # k
        PROVE  Cardinality({e \in log'[j] : e.at > MayRetryAt(j)' - WindowMs}) < Limit
    BY <1>3, <1>13, <2>1 DEF RoomWhenTold, TypeOK
  <2> QED BY <1>15, <2>1 DEF RoomWhenTold
<1>18. NotToldToWaitTooLong'
  <2>1. ASSUME NEW j \in waiting', j # k
        PROVE  Cardinality({e \in log'[j] : e.at > MayRetryAt(j)' - 1000 - WindowMs}) >= Limit
    <3>1. j \in waiting /\ j \in Keys \ {k} /\ log'[j] = log[j]
      BY <1>3, <2>1 DEF TypeOK
    <3>2. MayRetryAt(j)' = MayRetryAt(j)
      BY <1>13, <3>1
    <3>3. Cardinality({e \in log[j] : e.at > MayRetryAt(j) - 1000 - WindowMs}) >= Limit
      BY <3>1 DEF NotToldToWaitTooLong
    <3> QED BY <3>1, <3>2, <3>3
  <2>2. ASSUME NEW j \in waiting'
        PROVE  Cardinality({e \in log'[j] : e.at > MayRetryAt(j)' - 1000 - WindowMs}) >= Limit
    BY <1>16, <2>1
  <2> QED BY <2>2 DEF NotToldToWaitTooLong
<1> QED
  BY <1>8, <1>9, <1>10, <1>11, <1>12, <1>17, <1>18

(* Every step keeps the invariant; time passing only adds room. *)
LEMMA NextIInv == IInv /\ [Next]_vars => IInv'
<1> SUFFICES ASSUME IInv, [Next]_vars PROVE IInv'
  OBVIOUS
<1>1. ASSUME NEW k \in Keys, Allow(k) PROVE IInv'
  BY <1>1, AllowIInv
<1>2. ASSUME NEW k \in Keys, Refuse(k) PROVE IInv'
  BY <1>2, RefuseIInv
<1>3. ASSUME \/ \E d \in Steps : Pass(d)
             \/ UNCHANGED vars
      PROVE IInv'
  <2>1. /\ now' \in Nat /\ now' >= now
        /\ UNCHANGED <<serial, sent, sweptAt, log, waiting, refusedAt, retryAfter>>
    BY <1>3, ClockAssumption DEF Pass, vars, IInv, TypeOK
  <2>2. TypeOK' /\ LogInThePast'
    BY <2>1 DEF IInv, TypeOK, LogInThePast
  <2>3. RemembersTheWindow' /\ HoldsAtMostLimit' /\ NoWindowOverLimit'
    BY <2>1 DEF IInv, RemembersTheWindow, HoldsAtMostLimit, NoWindowOverLimit
  <2>4. RoomWhenTold' /\ NotToldToWaitTooLong'
    BY <2>1 DEF IInv, RoomWhenTold, NotToldToWaitTooLong, MayRetryAt
  <2> QED BY <2>2, <2>3, <2>4 DEF IInv
<1> QED
  BY <1>1, <1>2, <1>3 DEF Next

(* The inductive invariant holds throughout. *)
LEMMA SpecIInv == Spec => []IInv
  BY InitIInv, NextIInv, PTL DEF Spec

-----------------------------------------------------------------------------
(* The meter's state has its type, and no wait is zero or past a window. *)
THEOREM MeterTyped == Spec => []TypeOK
  BY SpecIInv, PTL DEF IInv

(* No key is ever allowed more than the limit in any window. *)
THEOREM LimitHolds == Spec => []NoWindowOverLimit
  BY SpecIInv, PTL DEF IInv

(* The meter remembers the window, the whole window and nothing else. *)
THEOREM MemoryIsTheWindow == Spec => []RemembersTheWindow
  BY SpecIInv, PTL DEF IInv

(* A refusal never asks for a whole second more than is needed. *)
THEOREM RetryAfterTight == Spec => []NotToldToWaitTooLong
  BY SpecIInv, PTL DEF IInv

(* A key that waited as it was told is allowed. *)
THEOREM RetryAfterHonoured == Spec => WaitingAsToldIsEnough
<1>1. IInv /\ [Next]_vars =>
        [\A k \in Keys : k \in waiting /\ Refuse(k) => now < MayRetryAt(k)]_vars
  <2> SUFFICES ASSUME IInv, NEW k \in Keys, k \in waiting, Refuse(k),
                      ~(now < MayRetryAt(k))
               PROVE  FALSE
    OBVIOUS
  <2>1. MayRetryAt(k) \in Int /\ now \in Nat /\ WindowMs \in Nat
    BY WindowAssumption DEF IInv, TypeOK, MayRetryAt
  <2>2. \A e \in log[k] : e.at \in Nat
    BY DEF IInv, TypeOK, Tickets
  <2>3. Recent(k) \subseteq {e \in log[k] : e.at > MayRetryAt(k) - WindowMs}
    BY <2>1, <2>2, RecentIsTheWindow
  <2>4. IsFiniteSet({e \in log[k] : e.at > MayRetryAt(k) - WindowMs})
    BY PartIsSmaller DEF IInv, LogInThePast
  <2>5. Cardinality({e \in log[k] : e.at > MayRetryAt(k) - WindowMs}) < Limit
    BY DEF IInv, RoomWhenTold
  <2>6. Cardinality(Recent(k)) < Limit
    BY <2>3, <2>4, <2>5, PartIsSmaller, LimitAssumption
  <2> QED
    BY <2>6 DEF Refuse, HasRoom
<1> QED
  BY <1>1, SpecIInv, PTL DEF Spec, WaitingAsToldIsEnough
=============================================================================
