-------------------------- MODULE LiveLights_proofs --------------------------
(***************************************************************************)
(* What holds of the way from the Bridge to the screen for any lights,     *)
(* kinds of Invalidation and bounds, whatever is lost and however reads    *)
(* are shared: the types, the follow-ups, and that nothing out of date is  *)
(* left where it is but for what `missed` has.  No fairness is used.       *)
(***************************************************************************)
EXTENDS LiveLights, EventStreams_proofs, FiniteSetTheorems

(* A property of 0 that each number hands to the next is one of them all.  *)
LEMMA UpTo ==
    ASSUME NEW N \in Nat, NEW D, 0 \in D,
           \A k \in 0..(N - 1) : k \in D => k + 1 \in D
    PROVE  N \in D
<1> DEFINE Left == {k \in 0..N : k \notin D}
           Spans == {1..k : k \in Left}
           R == StrictSubsetOrdering(Nat)
<1>1. SUFFICES ASSUME N \notin D PROVE FALSE
  OBVIOUS
<1>2. Spans # {}
  BY <1>1
<1>3. Spans \subseteq FiniteSubsetsOf(Nat)
  <2>1. \A k \in Left : IsFiniteSet(1..k)
    BY FS_Interval
  <2> QED BY <2>1 DEF FiniteSubsetsOf
<1>4. IsWellFoundedOn(R, FiniteSubsetsOf(Nat))
  BY FS_StrictSubsetOrderingWellFounded
<1>5. PICK s \in Spans : \A t \in Spans : ~ (<<t, s>> \in R)
  <2> HIDE DEF Spans, R
  <2> QED BY <1>2, <1>3, <1>4, WFMin
<1>6. PICK m \in Left : s = 1..m
  OBVIOUS
<1>7. m # 0 /\ m - 1 \in Left
  OBVIOUS
<1>8. 1..(m - 1) \in Spans
  BY <1>7
<1>9. <<1..(m - 1), 1..m>> \in R
  <2>1. 1..(m - 1) \subseteq 1..m /\ m \in 1..m /\ m \notin 1..(m - 1)
    BY <1>7
  <2>2. 1..m \subseteq Nat
    OBVIOUS
  <2> QED BY <2>1, <2>2 DEF StrictSubsetOrdering
<1> QED
  BY <1>5, <1>6, <1>8, <1>9

-----------------------------------------------------------------------------
(* The cache *)

Scopes == {One(q) : q \in Queries} \cup {Everything}

Caches == [fetch : [Queries -> FetchStates],
           invalid : SUBSET Queries,
           followUps : Seq(Scopes)]

Waits(c, s) == \E i \in DOMAIN c.followUps : c.followUps[i] = s

(* No scope waits twice, and every one waits on a fetch. *)
WellKept(c) ==
    /\ \A i, j \in DOMAIN c.followUps : c.followUps[i] = c.followUps[j] => i = j
    /\ \A i \in DOMAIN c.followUps : StillFetching(c, c.followUps[i])

(* What invalidating comes to for one query: a mark, and a read on screen. *)
Marked(c, q) ==
    /\ q \in c.invalid
    /\ c.fetch[q] \in {"idle", "asked"}
    /\ q = page => c.fetch[q] = "asked"

(* An Invalidation of a scope has been acted upon, or waits to be.         *)
Handled(c, s) == Waits(c, s) \/ \A q \in s : Marked(c, q)

(* All that becomes of a cache by Invalidations. *)
Follows(c, x) ==
    /\ \A q \in Queries :
          \/ x.fetch[q] = c.fetch[q]
          \/ q = page /\ c.fetch[q] = "idle" /\ x.fetch[q] = "asked"
    /\ c.invalid \subseteq x.invalid
    /\ \A q \in x.invalid \ c.invalid : q = page => x.fetch[q] = "asked"

LEMMA ScopesAre ==
    ASSUME NEW s \in Scopes
    PROVE  s \subseteq Queries
BY DEF Scopes, One, Everything

LEMMA CacheTyped ==
    ASSUME NEW c \in Caches
    PROVE  /\ c.fetch \in [Queries -> FetchStates]
           /\ c.invalid \subseteq Queries
           /\ c.followUps \in Seq(Scopes)
           /\ Len(c.followUps) \in Nat
           /\ DOMAIN c.followUps = 1..Len(c.followUps)
           /\ \A i \in DOMAIN c.followUps : c.followUps[i] \in Scopes
BY DEF Caches

LEMMA FollowsTwice ==
    ASSUME NEW c, NEW x \in Caches, NEW y, Follows(c, x), Follows(x, y)
    PROVE  Follows(c, y)
BY CacheTyped DEF Follows

LEMMA MarkedStays ==
    ASSUME NEW c, NEW x, NEW q \in Queries, Follows(c, x), Marked(c, q)
    PROVE  Marked(x, q)
BY DEF Follows, Marked

LEMMA FetchingStays ==
    ASSUME NEW c, NEW x, NEW s \in Scopes, Follows(c, x), StillFetching(c, s)
    PROVE  StillFetching(x, s)
BY ScopesAre DEF Follows, StillFetching

(* A scope no part of which is being read is invalidated at once.          *)
LEMMA InvalidatedIs ==
    ASSUME NEW c \in Caches, NEW s \in Scopes, ~StillFetching(c, s),
           WellKept(c)
    PROVE  LET x == Invalidated(c, s)
           IN  /\ x \in Caches
               /\ x.followUps = c.followUps
               /\ WellKept(x)
               /\ Follows(c, x)
               /\ \A q \in s : Marked(x, q)
<1> DEFINE x == Invalidated(c, s)
<1>1. /\ x.followUps = c.followUps
      /\ x.invalid = c.invalid \cup s
      /\ x.fetch = [q \in Queries |->
                       IF q \in s \cap {page} THEN "asked" ELSE c.fetch[q]]
  BY DEF Invalidated, Caches
<1>2. x \in Caches
  BY <1>1, ScopesAre, CacheTyped DEF Invalidated, Caches, FetchStates
<1>3. \A q \in s : q \in Queries /\ c.fetch[q] = "idle"
  BY ScopesAre DEF StillFetching
<1> HIDE DEF x
<1>4. Follows(c, x)
  BY <1>1, <1>3, CacheTyped DEF Follows
<1>5. \A q \in s : Marked(x, q)
  BY <1>1, <1>3 DEF Marked
<1>6. WellKept(x)
  BY <1>1, <1>4, FetchingStays, CacheTyped DEF WellKept
<1> QED BY <1>1, <1>2, <1>4, <1>5, <1>6 DEF x

(* One that is being read, and is not waiting yet, waits.                  *)
LEMMA AppendedIs ==
    ASSUME NEW c \in Caches, NEW s \in Scopes, StillFetching(c, s),
           ~Waits(c, s), WellKept(c)
    PROVE  LET x == [c EXCEPT !.followUps = Append(@, s)]
           IN  /\ x \in Caches
               /\ WellKept(x)
               /\ Follows(c, x)
               /\ \A t : Waits(x, t) <=> Waits(c, t) \/ t = s
<1> DEFINE x == [c EXCEPT !.followUps = Append(@, s)]
<1>1. /\ x.followUps = Append(c.followUps, s)
      /\ x.invalid = c.invalid
      /\ x.fetch = c.fetch
      /\ x \in Caches
  <2>1. Append(c.followUps, s) \in Seq(Scopes)
    BY CacheTyped
  <2> QED BY <2>1 DEF Caches
<1> HIDE DEF x
<1> DEFINE n == Len(c.followUps)
<1>2. /\ n \in Nat
      /\ DOMAIN c.followUps = 1..n
      /\ DOMAIN x.followUps = 1..(n + 1)
      /\ \A i \in 1..n : x.followUps[i] = c.followUps[i]
      /\ x.followUps[n + 1] = s
  BY <1>1, CacheTyped
<1> HIDE DEF n
<1>3. Follows(c, x)
  BY <1>1 DEF Follows
<1>4. \A t : Waits(x, t) <=> Waits(c, t) \/ t = s
  <2>1. \A i : i \in 1..(n + 1) <=> i \in 1..n \/ i = n + 1
    BY <1>2
  <2>2. n + 1 \in 1..(n + 1)
    BY <1>2
  <2> QED BY <1>2, <2>1, <2>2 DEF Waits
<1>5. WellKept(x)
  <2>1. \A i \in 1..(n + 1) : i \in 1..n \/ i = n + 1
    BY <1>2
  <2>2. \A t : StillFetching(x, t) <=> StillFetching(c, t)
    BY <1>1 DEF StillFetching
  <2>3. \A i \in DOMAIN x.followUps : StillFetching(x, x.followUps[i])
    BY <1>2, <2>1, <2>2 DEF WellKept
  <2>4. \A i \in 1..n : x.followUps[i] # s
    BY <1>2 DEF Waits
  <2> QED BY <1>2, <2>1, <2>3, <2>4 DEF WellKept
<1> QED BY <1>1, <1>3, <1>4, <1>5 DEF x

(* Any number of steps can be taken on a cache, one after another. *)
LEMMA Iterates ==
    \A N \in Nat : \A b \in Caches : \A step \in [1..N -> [Caches -> Caches]] :
       \E f \in [0..N -> Caches] :
          f[0] = b /\ \A n \in 1..N : f[n] = step[n][f[n - 1]]
<1> SUFFICES ASSUME NEW N \in Nat, NEW b \in Caches,
                    NEW step \in [1..N -> [Caches -> Caches]]
             PROVE  \E f \in [0..N -> Caches] :
                       f[0] = b /\ \A n \in 1..N : f[n] = step[n][f[n - 1]]
  OBVIOUS
<1> DEFINE Reaches(k, f) == f[0] = b /\ \A n \in 1..k : f[n] = step[n][f[n - 1]]
           D == {k \in 0..N : \E f \in [0..k -> Caches] : Reaches(k, f)}
<1>1. 0 \in D
  <2> DEFINE f == [n \in 0..0 |-> b]
  <2>1. f \in [0..0 -> Caches] /\ Reaches(0, f)
    OBVIOUS
  <2> HIDE DEF f
  <2> QED BY <2>1
<1>2. ASSUME NEW k \in 0..(N - 1), k \in D PROVE k + 1 \in D
  <2>1. PICK f \in [0..k -> Caches] : Reaches(k, f)
    BY <1>2
  <2> DEFINE g == [n \in 0..(k + 1) |-> IF n <= k THEN f[n] ELSE step[k + 1][f[k]]]
  <2>2. f[k] \in Caches /\ step[k + 1] \in [Caches -> Caches]
    OBVIOUS
  <2>3. g \in [0..(k + 1) -> Caches]
    BY <2>2
  <2>4. \A n \in 0..k : g[n] = f[n]
    OBVIOUS
  <2>5. g[k + 1] = step[k + 1][g[k]]
    OBVIOUS
  <2> HIDE DEF g
  <2>6. \A n \in 1..(k + 1) : g[n] = step[n][g[n - 1]]
    <3> SUFFICES ASSUME NEW n \in 1..(k + 1) PROVE g[n] = step[n][g[n - 1]]
      OBVIOUS
    <3>1. CASE n = k + 1
      BY <2>5, <3>1
    <3>2. CASE n \in 1..k
      <4>1. n \in 0..k /\ n - 1 \in 0..k
        BY <3>2
      <4> QED BY <2>1, <2>4, <3>2, <4>1
    <3> QED BY <3>1, <3>2
  <2>7. g[0] = b
    BY <2>1, <2>4
  <2> QED BY <2>3, <2>6, <2>7
<1>3. N \in D
  <2> HIDE DEF D
  <2> QED BY <1>1, <1>2, UpTo
<1> QED BY <1>3

LEMMA HandledStays ==
    ASSUME NEW c, NEW x, NEW s \in Scopes, Follows(c, x),
           \A t : Waits(c, t) => Waits(x, t), Handled(c, s)
    PROVE  Handled(x, s)
BY ScopesAre, MarkedStays DEF Handled

(* What a cache and an Invalidation of a scope make. *)
Handles(c, s, x) ==
    /\ x \in Caches
    /\ WellKept(x)
    /\ Follows(c, x)
    /\ Handled(x, s)
    /\ \A t : Waits(c, t) => Waits(x, t)
    /\ \A t : Waits(x, t) => Waits(c, t) \/ t = s

LEMMA FollowUpIs ==
    ASSUME NEW c \in Caches, NEW s \in Scopes, ~Waits(c, s), WellKept(c)
    PROVE  Handles(c, s, FollowUp(c, s))
<1>1. CASE StillFetching(c, s)
  BY <1>1, AppendedIs DEF FollowUp, Handles, Handled
<1>2. CASE ~StillFetching(c, s)
  BY <1>2, InvalidatedIs DEF FollowUp, Handles, Handled, Waits
<1> QED BY <1>1, <1>2

LEMMA RaceAwareIs ==
    ASSUME NEW c \in Caches, NEW s \in Scopes, WellKept(c)
    PROVE  Handles(c, s, RaceAware(c, s))
<1>1. Contains(c.followUps, s) <=> Waits(c, s)
  BY CacheTyped DEF Contains, Waits
<1>2. CASE ~StillFetching(c, s)
  BY <1>2, InvalidatedIs DEF RaceAware, Handles, Handled, Waits
<1>3. CASE StillFetching(c, s) /\ ~Waits(c, s)
  BY <1>1, <1>3, AppendedIs DEF RaceAware, Handles, Handled
<1>4. CASE StillFetching(c, s) /\ Waits(c, s)
  <2>1. RaceAware(c, s) = c
    BY <1>1, <1>4 DEF RaceAware
  <2>2. Follows(c, c)
    BY DEF Follows
  <2> QED BY <1>4, <2>1, <2>2 DEF Handles, Handled
<1> QED BY <1>2, <1>3, <1>4

(* Once everyone has been told, whoever waited was acted upon or waits,    *)
(* and waits on a fetch.                                                   *)
LEMMA ToldIs ==
    ASSUME NEW c \in Caches,
           \A i, j \in DOMAIN c.followUps :
              c.followUps[i] = c.followUps[j] => i = j
    PROVE  LET x == Told(c)
           IN  /\ x \in Caches
               /\ WellKept(x)
               /\ Follows(c, x)
               /\ \A s : Waits(c, s) => Handled(x, s)
<1> DEFINE w == c.followUps
           N == Len(w)
           base == [c EXCEPT !.followUps = <<>>]
           step == [n \in 1..N |-> [x \in Caches |->
                       IF FollowUp(x, w[n]) \in Caches THEN FollowUp(x, w[n]) ELSE x]]
           Kept(n, x) == /\ x \in Caches /\ WellKept(x) /\ Follows(c, x)
                         /\ \A i \in 1..n : Handled(x, w[i])
                         /\ \A s : Waits(x, s) => \E i \in 1..n : w[i] = s
<1>1. /\ N \in Nat
      /\ DOMAIN w = 1..N
      /\ \A i \in 1..N : w[i] \in Scopes
  BY CacheTyped
<1>2. base \in Caches /\ base.followUps = <<>> /\ Follows(c, base)
  <2>1. base \in Caches
    <3>1. <<>> \in Seq(Scopes)
      OBVIOUS
    <3> QED BY <3>1 DEF Caches
  <2>2. base.followUps = <<>> /\ base.fetch = c.fetch /\ base.invalid = c.invalid
    BY DEF Caches
  <2> HIDE DEF base
  <2> QED BY <2>1, <2>2 DEF Follows
<1>3. PICK f \in [0..N -> Caches] :
         f[0] = base /\ \A n \in 1..N : f[n] = step[n][f[n - 1]]
  <2>1. step \in [1..N -> [Caches -> Caches]]
    OBVIOUS
  <2> HIDE DEF step, base
  <2>2. \A b \in Caches : \A st \in [1..N -> [Caches -> Caches]] :
           \E f \in [0..N -> Caches] :
              f[0] = b /\ \A n \in 1..N : f[n] = st[n][f[n - 1]]
    BY ONLY <1>1, Iterates
  <2> QED BY ONLY <1>2, <2>1, <2>2
<1>4. Kept(0, f[0])
  <2>1. DOMAIN base.followUps = {}
    BY <1>2
  <2> HIDE DEF base, N
  <2> QED BY <1>2, <1>3, <2>1 DEF WellKept, Waits
<1>5. ASSUME NEW n \in 1..N, Kept(n - 1, f[n - 1])
      PROVE  f[n] = FollowUp(f[n - 1], w[n]) /\ Kept(n, f[n])
  <2> DEFINE x == f[n - 1]
             y == FollowUp(x, w[n])
  <2>1. w[n] \in Scopes /\ x \in Caches
    BY <1>1, <1>5
  <2>2. ~Waits(x, w[n])
    BY <1>1, <1>5
  <2>3. Handles(x, w[n], y)
    BY <1>5, <2>1, <2>2, FollowUpIs
  <2>4. f[n] = y
    BY <1>3, <2>1, <2>3 DEF Handles
  <2> HIDE DEF y, N
  <2>5. Follows(c, y)
    BY <1>5, <2>1, <2>3, FollowsTwice DEF Handles
  <2>6. \A i \in 1..n : Handled(y, w[i])
    <3> SUFFICES ASSUME NEW i \in 1..n PROVE Handled(y, w[i])
      OBVIOUS
    <3>1. CASE i = n
      BY <2>3, <3>1 DEF Handles
    <3>2. CASE i \in 1..(n - 1)
      <4>1. w[i] \in Scopes
        BY <1>1
      <4> QED BY <1>5, <2>3, <3>2, <4>1, HandledStays DEF Handles
    <3> QED BY <1>1, <3>1, <3>2
  <2>7. ASSUME NEW s, Waits(y, s) PROVE \E i \in 1..n : w[i] = s
    <3>1. Waits(x, s) \/ s = w[n]
      BY <2>3, <2>7 DEF Handles
    <3>2. CASE Waits(x, s)
      <4>1. PICK i \in 1..(n - 1) : w[i] = s
        BY <1>5, <3>2
      <4> QED BY <1>1, <4>1
    <3>3. CASE s = w[n]
      BY <1>1, <3>3
    <3> QED BY <3>1, <3>2, <3>3
  <2> QED BY <2>3, <2>4, <2>5, <2>6, <2>7 DEF Handles, y
<1>6. \A n \in 0..N : Kept(n, f[n])
  <2> SUFFICES ASSUME NEW m \in 0..N PROVE Kept(m, f[m])
    OBVIOUS
  <2> DEFINE D == {n \in 0..N : Kept(n, f[n])}
  <2>1. 0 \in D
    BY <1>1, <1>4
  <2>2. ASSUME NEW k \in 0..(m - 1), k \in D PROVE k + 1 \in D
    <3>1. k + 1 \in 1..N /\ (k + 1) - 1 = k
      BY <1>1
    <3>2. Kept(k, f[k])
      BY <2>2
    <3> HIDE DEF Kept, N
    <3> QED BY <1>5, <3>1, <3>2
  <2> HIDE DEF D
  <2>3. m \in D
    BY <1>1, <2>1, <2>2, UpTo
  <2> QED BY <2>3 DEF D
<1>7. Told(c) = f[N]
  <2> DEFINE Eq(t) == t = [n \in 0..N |-> IF n = 0 THEN base
                                         ELSE FollowUp(t[n - 1], w[n])]
             told == CHOOSE t : Eq(t)
  <2>1. ASSUME NEW n \in 0..N
        PROVE  f[n] = IF n = 0 THEN base ELSE FollowUp(f[n - 1], w[n])
    <3>1. CASE n = 0
      BY <1>3, <3>1
    <3>2. CASE n # 0
      <4>1. n \in 1..N /\ n - 1 \in 0..N
        BY <1>1, <3>2
      <4>2. Kept(n - 1, f[n - 1])
        BY <1>6, <4>1
      <4> HIDE DEF Kept
      <4> QED BY <1>5, <3>2, <4>1, <4>2
    <3> QED BY <3>1, <3>2
  <2>2. Eq(f)
    BY <2>1
  <2>3. Eq(told)
    <3> HIDE DEF Eq
    <3> QED BY <2>2
  <2>4. Told(c) = told[N]
    BY DEF Told
  <2> DEFINE D == {n \in 0..N : told[n] = f[n]}
  <2>5. 0 \in D
    <3>1. 0 \in 0..N
      BY <1>1
    <3>2. told[0] = base
      BY <2>3, <3>1
    <3> HIDE DEF told, base
    <3> QED BY <1>3, <3>1, <3>2
  <2>6. ASSUME NEW k \in 0..(N - 1), k \in D PROVE k + 1 \in D
    <3>1. k + 1 \in 0..N /\ (k + 1) - 1 = k /\ k + 1 # 0
      BY <1>1
    <3>2. told[k + 1] = FollowUp(told[k], w[k + 1])
      BY <2>3, <3>1
    <3>3. f[k + 1] = FollowUp(f[k], w[k + 1])
      BY <2>1, <3>1
    <3> HIDE DEF told
    <3> QED BY <2>6, <3>1, <3>2, <3>3
  <2>7. N \in D
    <3> HIDE DEF D
    <3> QED BY <1>1, <2>5, <2>6, UpTo
  <2> QED BY <2>4, <2>7
<1>8. Kept(N, f[N])
  BY <1>1, <1>6
<1>9. \A s : Waits(c, s) => Handled(f[N], s)
  <2> SUFFICES ASSUME NEW s, Waits(c, s) PROVE Handled(f[N], s)
    OBVIOUS
  <2>1. PICK i \in 1..N : w[i] = s
    BY <1>1 DEF Waits
  <2> QED BY <1>8, <2>1
<1> QED BY <1>7, <1>8, <1>9

-----------------------------------------------------------------------------
(* The API's side *)

(* Whatever happens from the Bridge to the screen is, to the event streams *)
(* of the API, one of their own steps or none.                             *)
LEMMA StreamStep ==
    ASSUME LiveTypeOK, [LiveNext]_llVars
    PROVE  [Next]_vars
<1> Console \in Browsers
  BY ConsoleAssumption
<1>1. ASSUME NEW l \in Lights, NEW kind \in Kinds, Change(l, kind)
      PROVE  UNCHANGED vars
  BY <1>1 DEF Change, apiVars, vars
<1>2. ASSUME Deliver PROVE Next
  <2>1. Head(onStream) \in NoticeFrame
    BY <1>2 DEF Deliver, LiveTypeOK
  <2> QED BY <1>2, <2>1 DEF Deliver, Next, NoticeFrame
<1>3. ASSUME GatewayLost \/ Reopen \/ Accepted \/ Ended PROVE Next
  BY <1>3 DEF GatewayLost, Reopen, Accepted, Ended, BySubscription, SubStep, Next
<1>4. ASSUME Resynced \/ FallBehind PROVE Next
  BY <1>4 DEF Resynced, FallBehind, Next
<1>5. ASSUME FlushToWire \/ Ask \/ Opened \/ CookieExpires PROVE Next
  BY <1>5 DEF FlushToWire, Ask, Opened, CookieExpires, Next
<1>6. ASSUME EndedByApi \/ ServerClosed PROVE Next
  BY <1>6 DEF EndedByApi, ServerClosed, Next
<1>7. ASSUME Drop \/ TurnedAway PROVE [Next]_vars
  <2>1. ASSUME Disconnect(Console) PROVE Next
    BY <2>1 DEF Next
  <2>2. ASSUME NoStreamAtTheApi PROVE UNCHANGED vars
    BY <2>2 DEF NoStreamAtTheApi, apiVars, vars
  <2> QED BY <1>7, <2>1, <2>2 DEF Drop, TurnedAway
<1>8. ASSUME HearEnd \/ HearOfLight \/ HearStatus PROVE UNCHANGED vars
  BY <1>8 DEF HearEnd, HearOfLight, HearStatus, apiVars, vars
<1>9. ASSUME (\E q \in Queries : Visit(q)) \/ Focus PROVE UNCHANGED vars
  BY <1>9 DEF Visit, Focus, apiVars, vars
<1>10. ASSUME NEW q \in Queries,
              \/ Join(q) \/ OthersAsk(q) \/ Sample(q)
              \/ RpcAnswers(q) \/ RpcFails(q) \/ Answer(q) \/ Refused(q) \/ Fail(q)
       PROVE  UNCHANGED vars
  BY <1>10 DEF Join, OthersAsk, Sample, RpcAnswers, RpcFails, RpcEnds, Answer,
     Refused, Fail, ReadFails, ReadAside, apiVars, vars
<1>11. ASSUME UNCHANGED llVars PROVE UNCHANGED vars
  BY <1>11 DEF llVars, apiVars, vars
<1> QED
  BY <1>1, <1>2, <1>3, <1>4, <1>5, <1>6, <1>7, <1>8, <1>9, <1>10, <1>11
     DEF LiveNext

(* A finite set in a sequence: all of it and nothing else. *)
LEMMA SetToSeqIs ==
    ASSUME NEW S, IsFiniteSet(S)
    PROVE  /\ SetToSeq(S) \in Seq(S)
           /\ \A x \in S : \E i \in DOMAIN SetToSeq(S) : SetToSeq(S)[i] = x
<1> DEFINE n == Cardinality(S)
           Lists(f) == f \in [1..n -> S] /\ IsInjective(f)
<1>1. n \in Nat /\ ExistsBijection(1..n, S)
  BY FS_CardinalityType
<1>2. \E f : Lists(f)
  BY <1>1 DEF ExistsBijection, Bijection, Injection, IsInjective
<1>3. SetToSeq(S) = CHOOSE f \in [1..n -> S] : IsInjective(f)
  BY DEF SetToSeq
<1>4. Lists(SetToSeq(S))
  BY <1>2, <1>3
<1>5. SetToSeq(S) \in Injection(1..n, S)
  BY <1>4 DEF Injection
<1>6. Cardinality(1..n) = n
  BY <1>1, FS_Interval
<1>7. SetToSeq(S) \in Surjection(1..n, S)
  BY <1>5, <1>6, FS_Injection
<1>8. SetToSeq(S) \in Seq(S)
  BY <1>1, <1>4
<1>9. \A x \in S : \E i \in 1..n : SetToSeq(S)[i] = x
  BY <1>7 DEF Surjection
<1>10. DOMAIN SetToSeq(S) = 1..n
  BY <1>4
<1> QED BY <1>8, <1>9, <1>10

LEMMA FramesDiffer ==
    /\ \A x \in NoticeFrame : x \notin StatusFrame
    /\ \A x \in StatusFrame : x \notin NoticeFrame
<1>1. \A x \in NoticeFrame : DOMAIN x = {"light", "kind"}
  BY DEF NoticeFrame
<1>2. \A x \in StatusFrame : DOMAIN x = {"gateway"}
  BY DEF StatusFrame
<1> QED BY <1>1, <1>2

(* What the flush of a light writes. *)
FrameOf(l) == [light |-> l, kind |-> dirty[Console][l]]

LEMMA FramesAre ==
    ASSUME TypeOK
    PROVE  LET notices == SetToSeq({FrameOf(l) : l \in Framed(Console)})
               news == IF StatusOf(Console) = lastSent[Console]
                          THEN <<>> ELSE <<Said(StatusOf(Console))>>
           IN  /\ notices \in Seq(NoticeFrame)
               /\ news \in Seq(StatusFrame)
               /\ Frames = notices \o news
               /\ \A l \in Framed(Console) :
                     \E i \in DOMAIN notices : notices[i] = FrameOf(l)
<1> DEFINE S == {FrameOf(l) : l \in Framed(Console)}
           notices == SetToSeq(S)
           news == IF StatusOf(Console) = lastSent[Console]
                      THEN <<>> ELSE <<Said(StatusOf(Console))>>
<1>1. Console \in Browsers
  BY ConsoleAssumption
<1>2. IsFiniteSet(S)
  <2> DEFINE L == Framed(Console)
             m == [l \in L |-> FrameOf(l)]
  <2>1. IsFiniteSet(L)
    BY LightsAssumption, FS_Subset DEF Framed
  <2> HIDE DEF L
  <2>2. m \in Surjection(L, S)
    BY DEF Surjection, L
  <2> HIDE DEF m, S
  <2> QED BY <2>1, <2>2, FS_Surjection
<1>3. S \subseteq NoticeFrame
  BY <1>1 DEF FrameOf, Framed, NoticeFrame, TypeOK
<1>4. news \in Seq(StatusFrame)
  <2>1. Said(StatusOf(Console)) \in StatusFrame
    BY DEF Said, StatusOf, StatusFrame
  <2> QED BY <2>1
<1>5. Frames = notices \o news
  BY DEF Frames, FrameOf
<1>6. /\ notices \in Seq(S)
      /\ \A x \in S : \E i \in DOMAIN notices : notices[i] = x
  BY <1>2, SetToSeqIs
<1>7. notices \in Seq(NoticeFrame)
  <2> HIDE DEF notices, S
  <2> QED BY <1>3, <1>6
<1>8. \A l \in Framed(Console) :
          \E i \in DOMAIN notices : notices[i] = FrameOf(l)
  BY <1>6
<1> HIDE DEF news, notices
<1>9. /\ notices \in Seq(NoticeFrame)
      /\ news \in Seq(StatusFrame)
      /\ Frames = notices \o news
      /\ \A l \in Framed(Console) :
            \E i \in DOMAIN notices : notices[i] = FrameOf(l)
  BY <1>4, <1>5, <1>7, <1>8
<1> QED BY <1>9 DEF notices, news
-----------------------------------------------------------------------------
(* The types, and what every follow-up waits on *)

CacheKept == Cache \in Caches /\ WellKept(Cache)

StreamTyped ==
    /\ roster \in [Lights -> {"later", "here", "gone"}]
    /\ onStream \in Seq(NoticeFrame)
    /\ wire \in Seq(NoticeFrame \cup StatusFrame)
    /\ source \in {"open", "closed"}
    /\ live \in {"connecting", "connected", "disconnected"}
    /\ previousGateway \in {"unsaid", "connected", "reconnecting"}

ReadsTyped ==
    /\ rpc \in [Queries -> RpcStates]
    /\ page \in Queries \cup {NoPage}
    /\ data \in [Queries -> {"none", "fresh", "stale"}]
    /\ errored \subseteq Queries

HistoryTyped == missed \subseteq Queries /\ spent \in [Bounded -> Nat]

RestTyped == StreamTyped /\ ReadsTyped /\ HistoryTyped

LiveIInv == IInv /\ RestTyped /\ CacheKept

LEMMA CacheKeptIs ==
    CacheKept <=>
        /\ fetch \in [Queries -> FetchStates]
        /\ invalid \subseteq Queries
        /\ followUps \in Seq(Scopes)
        /\ IsInjective(followUps)
        /\ FollowUpsHaveAFetch
<1>1. Cache \in Caches <=>
          /\ fetch \in [Queries -> FetchStates]
          /\ invalid \subseteq Queries
          /\ followUps \in Seq(Scopes)
  BY DEF Cache, Caches
<1>2. WellKept(Cache) <=> IsInjective(followUps) /\ FollowUpsHaveAFetch
  BY DEF WellKept, Cache, IsInjective, FollowUpsHaveAFetch
<1> QED BY <1>1, <1>2 DEF CacheKept

LEMMA LiveIInvIs == LiveIInv <=> IInv /\ LiveTypeOK /\ FollowUpsHaveAFetch
<1>1. IInv => TypeOK
  BY DEF IInv
<1>2. LiveTypeOK /\ FollowUpsHaveAFetch <=> TypeOK /\ RestTyped /\ CacheKept
  <2> HIDE DEF TypeOK
  <2> QED BY CacheKeptIs DEF LiveTypeOK, RestTyped, StreamTyped, ReadsTyped,
         HistoryTyped, Scopes
<1> QED BY <1>1, <1>2 DEF LiveIInv

LEMMA BecomesKept ==
    ASSUME NEW x \in Caches, WellKept(x), Becomes(x)
    PROVE  CacheKept'
<1>1. fetch' = x.fetch /\ invalid' = x.invalid /\ followUps' = x.followUps
  BY DEF Becomes
<1>2. Cache' = x
  BY <1>1 DEF Cache, Caches
<1> QED BY <1>2 DEF CacheKept

(* No query stops being fetched. *)
LEMMA FetchingKept ==
    ASSUME CacheKept, UNCHANGED <<invalid, followUps>>,
           fetch' \in [Queries -> FetchStates],
           \A q \in Queries : fetch[q] # "idle" => fetch'[q] # "idle"
    PROVE  CacheKept'
<1> DEFINE x == [fetch |-> fetch', invalid |-> invalid, followUps |-> followUps]
<1>1. Cache \in Caches /\ WellKept(Cache)
  BY DEF CacheKept
<1>2. Cache' = x
  BY DEF Cache
<1>3. x \in Caches /\ x.followUps = Cache.followUps
  BY <1>1 DEF Cache, Caches
<1>4. \A s \in Scopes : StillFetching(Cache, s) => StillFetching(x, s)
  BY ScopesAre DEF StillFetching, Cache
<1> HIDE DEF x
<1>5. WellKept(x)
  BY <1>1, <1>3, <1>4, CacheTyped DEF WellKept
<1> QED BY <1>2, <1>3, <1>5 DEF CacheKept

LEMMA SpendTyped ==
    ASSUME spent \in [Bounded -> Nat], NEW what \in Bounded, NEW bound,
           Spend(what, bound)
    PROVE  spent' \in [Bounded -> Nat]
BY DEF Spend

LEMMA LosesTyped ==
    ASSUME missed \subseteq Queries, Loses
    PROVE  missed' \subseteq Queries
BY DEF Loses

LEMMA LiveInitIInv == LiveInit => LiveIInv
<1> SUFFICES ASSUME LiveInit PROVE LiveIInv
  OBVIOUS
<1>1. IInv
  BY InitIInv DEF LiveInit
<1>2. RestTyped
  BY DEF LiveInit, RestTyped, StreamTyped, ReadsTyped, HistoryTyped, RpcStates
<1>3. CacheKept
  <2>1. DOMAIN followUps = {} /\ followUps \in Seq(Scopes)
    BY DEF LiveInit
  <2>2. IsInjective(followUps) /\ FollowUpsHaveAFetch
    BY <2>1 DEF IsInjective, FollowUpsHaveAFetch
  <2> QED BY <2>1, <2>2, CacheKeptIs DEF LiveInit, FetchStates
<1> QED BY <1>1, <1>2, <1>3 DEF LiveIInv

LEMMA OutdatesIs ==
    ASSUME ReadsTyped, CacheKept, NEW S, Outdates(S)
    PROVE  /\ data' \in [Queries -> {"none", "fresh", "stale"}]
           /\ fetch' \in [Queries -> FetchStates]
           /\ rpc' \in [Queries -> RpcStates]
           /\ \A q \in Queries : fetch[q] # "idle" => fetch'[q] # "idle"
<1>1. fetch \in [Queries -> FetchStates]
  BY CacheKeptIs
<1> QED BY <1>1 DEF Outdates, ReadsTyped, FetchStates, RpcStates

LEMMA ChangeLive ==
    ASSUME LiveIInv, NEW l \in Lights, NEW kind \in Kinds, Change(l, kind)
    PROVE  RestTyped' /\ CacheKept'
<1> USE DEF LiveIInv, RestTyped
<1>1. PICK S : Outdates(S)
  BY DEF Change, Happens
<1>2. roster' \in [Lights -> {"later", "here", "gone"}]
  BY DEF Change, Happens, StreamTyped
<1>3. onStream' \in Seq(NoticeFrame)
  <2>1. [light |-> l, kind |-> kind] \in NoticeFrame
    BY DEF NoticeFrame
  <2>2. onStream \in Seq(NoticeFrame)
    BY DEF StreamTyped
  <2>3. Append(onStream, [light |-> l, kind |-> kind]) \in Seq(NoticeFrame)
    BY <2>1, <2>2
  <2> QED BY <2>2, <2>3 DEF Change
<1>4. HistoryTyped'
  BY SpendTyped DEF Change, HistoryTyped, Bounded
<1>5. StreamTyped' /\ ReadsTyped'
  BY <1>1, <1>2, <1>3, OutdatesIs DEF Change, StreamTyped, ReadsTyped
<1>6. CacheKept'
  BY <1>1, OutdatesIs, FetchingKept DEF Change
<1> QED BY <1>4, <1>5, <1>6

(* A step that leaves the cache alone. *)
LEMMA CacheAside ==
    ASSUME CacheKept, UNCHANGED cacheVars
    PROVE  CacheKept'
BY DEF CacheKept, cacheVars, Cache, WellKept, StillFetching

(* One that leaves the Console's pages and reads alone. *)
LEMMA ReadsAside ==
    ASSUME LiveIInv, UNCHANGED <<rpc, page, cacheVars>>
    PROVE  ReadsTyped' /\ CacheKept'
BY CacheAside DEF LiveIInv, RestTyped, ReadsTyped, cacheVars

LEMMA HistoryAside ==
    ASSUME HistoryTyped,
           missed' = missed \/ Loses,
           spent' = spent \/ \E what \in Bounded : \E bound : Spend(what, bound)
    PROVE  HistoryTyped'
BY SpendTyped, LosesTyped DEF HistoryTyped

(* What the Gateway sends, the API reads first come first, and what of it  *)
(* is let go of is the last.                                               *)
LEMMA HeadsAndTails ==
    ASSUME NEW S, NEW s \in Seq(S), s # <<>>
    PROVE  /\ Head(s) \in S
           /\ Tail(s) \in Seq(S)
           /\ Len(s) \in Nat \ {0}
           /\ Head(s) = s[1]
           /\ DOMAIN s = 1..Len(s)
           /\ DOMAIN Tail(s) = 1..(Len(s) - 1)
           /\ \A i \in 1..(Len(s) - 1) : Tail(s)[i] = s[i + 1]
OBVIOUS

LEMMA PrefixIs ==
    ASSUME NEW S, NEW s \in Seq(S), NEW k \in 0..(Len(s) - 1)
    PROVE  /\ SubSeq(s, 1, k) \in Seq(S)
           /\ Len(s) \in Nat
           /\ DOMAIN s = 1..Len(s)
           /\ DOMAIN SubSeq(s, 1, k) = 1..k
           /\ \A i \in 1..k : i \in 1..Len(s) /\ SubSeq(s, 1, k)[i] = s[i]
OBVIOUS

BySub == GatewayLost \/ Reopen \/ Accepted \/ Ended
ByGap == Resynced \/ FallBehind
ByApi == Ask \/ CookieExpires \/ EndedByApi \/ ServerClosed
ByBreak == Drop \/ TurnedAway \/ HearEnd

LEMMA SubscriptionLive ==
    ASSUME LiveIInv, Deliver \/ BySub \/ ByGap
    PROVE  RestTyped' /\ CacheKept'
<1> USE DEF LiveIInv, RestTyped, BySub, ByGap
<1>1. UNCHANGED <<roster, wire, rpc, consoleVars>>
  BY DEF Deliver, GatewayLost, Reopen, Accepted, Ended, BySubscription,
         Resynced, FallBehind, gatewayVars
<1>2. onStream' \in Seq(NoticeFrame)
  <2>1. onStream \in Seq(NoticeFrame)
    BY DEF StreamTyped
  <2>2. \/ onStream' = onStream
        \/ onStream' = <<>>
        \/ onStream # <<>> /\ onStream' = Tail(onStream)
        \/ \E kept \in 0..(Len(onStream) - 1) : onStream' = SubSeq(onStream, 1, kept)
    BY DEF Deliver, GatewayLost, Reopen, Accepted, Ended, Resynced, FallBehind,
           gatewayVars
  <2>3. onStream' = <<>> => onStream' \in Seq(NoticeFrame)
    OBVIOUS
  <2>4. onStream # <<>> => Tail(onStream) \in Seq(NoticeFrame)
    BY <2>1, HeadsAndTails
  <2>5. \A kept \in 0..(Len(onStream) - 1) :
           SubSeq(onStream, 1, kept) \in Seq(NoticeFrame)
    BY <2>1, PrefixIs
  <2> QED BY <2>1, <2>2, <2>3, <2>4, <2>5
<1>3. HistoryTyped'
  <2>1. missed' = missed \/ Loses
    BY DEF Deliver, GatewayLost, Reopen, Accepted, Ended, Resynced, FallBehind,
           LosesUnless
  <2>2. spent' = spent \/ Spend("losses", MaxLosses)
    BY DEF Deliver, GatewayLost, Reopen, Accepted, Ended, Resynced, FallBehind,
           Trouble
  <2> QED BY <2>1, <2>2, HistoryAside DEF Bounded
<1>4. StreamTyped'
  BY <1>1, <1>2 DEF StreamTyped, consoleVars
<1>5. ReadsTyped' /\ CacheKept'
  BY <1>1, ReadsAside DEF consoleVars
<1> QED BY <1>3, <1>4, <1>5

LEMMA FlushLive ==
    ASSUME LiveIInv, FlushToWire
    PROVE  RestTyped' /\ CacheKept'
<1> USE DEF LiveIInv, RestTyped
<1>1. ReadsTyped' /\ CacheKept'
  BY ReadsAside DEF FlushToWire, consoleVars
<1>2. TypeOK
  BY DEF IInv
<1>3. PICK notices \in Seq(NoticeFrame), news \in Seq(StatusFrame) :
         Frames = notices \o news
  BY <1>2, FramesAre
<1>4. notices \o news \in Seq(NoticeFrame \cup StatusFrame)
  OBVIOUS
<1>5. wire' \in Seq(NoticeFrame \cup StatusFrame)
  BY <1>3, <1>4 DEF FlushToWire, StreamTyped
<1>6. StreamTyped' /\ HistoryTyped'
  BY <1>5 DEF FlushToWire, StreamTyped, HistoryTyped, gatewayVars, consoleVars
<1> QED BY <1>1, <1>6

LEMMA StreamsLive ==
    ASSUME LiveIInv, Opened \/ ByApi \/ ByBreak
    PROVE  RestTyped' /\ CacheKept'
<1> USE DEF LiveIInv, RestTyped, ByApi, ByBreak
<1>1. UNCHANGED <<roster, rpc, page, previousGateway, cacheVars>>
  BY DEF Opened, Ask, CookieExpires, EndedByApi, ServerClosed, Drop,
         TurnedAway, HearEnd, gatewayVars, consoleVars
<1>2. onStream' = onStream \/ onStream' = <<>>
  BY DEF Opened, Ask, CookieExpires, EndedByApi, ServerClosed, Drop,
         TurnedAway, HearEnd, gatewayVars
<1>3. wire' \in Seq(NoticeFrame \cup StatusFrame)
  <2>1. Said(StatusOf(Console)) \in StatusFrame
    BY DEF Said, StatusOf, StatusFrame
  <2>2. \/ wire' = wire
        \/ wire' = <<>>
        \/ wire' = <<Said(StatusOf(Console))>>
    BY DEF Opened, Ask, CookieExpires, EndedByApi, ServerClosed, Drop,
           TurnedAway, HearEnd
  <2>3. wire \in Seq(NoticeFrame \cup StatusFrame)
    BY DEF StreamTyped
  <2>4. <<Said(StatusOf(Console))>> \in Seq(NoticeFrame \cup StatusFrame)
    BY <2>1
  <2>5. <<>> \in Seq(NoticeFrame \cup StatusFrame)
    OBVIOUS
  <2> QED BY <2>2, <2>3, <2>4, <2>5
<1>4. /\ source' \in {"open", "closed"}
      /\ live' \in {"connecting", "connected", "disconnected"}
  BY DEF Opened, Ask, CookieExpires, EndedByApi, ServerClosed, Drop,
         TurnedAway, HearEnd, consoleVars, StreamTyped
<1>5. StreamTyped'
  <2>1. onStream' \in Seq(NoticeFrame)
    <3>1. onStream \in Seq(NoticeFrame)
      BY DEF StreamTyped
    <3>2. onStream' = <<>> => onStream' \in Seq(NoticeFrame)
      OBVIOUS
    <3> QED BY <1>2, <3>1, <3>2
  <2>2. /\ roster' \in [Lights -> {"later", "here", "gone"}]
        /\ previousGateway' \in {"unsaid", "connected", "reconnecting"}
    BY <1>1 DEF StreamTyped
  <2> QED BY <1>3, <1>4, <2>1, <2>2 DEF StreamTyped
<1>6. HistoryTyped'
  <2>1. missed' = missed \/ Loses
    BY DEF Opened, Ask, CookieExpires, EndedByApi, ServerClosed, Drop,
           TurnedAway, HearEnd
  <2>2. spent' = spent \/ Spend("drops", MaxDrops)
    BY DEF Opened, Ask, CookieExpires, EndedByApi, ServerClosed, Drop,
           TurnedAway, HearEnd, Trouble
  <2> QED BY <2>1, <2>2, HistoryAside DEF Bounded
<1>7. ReadsTyped' /\ CacheKept'
  BY <1>1, ReadsAside
<1> QED BY <1>5, <1>6, <1>7

LEMMA OneIs ==
    /\ One("list") \in Scopes
    /\ \A l \in Lights : One(l) \in Scopes
    /\ Everything \in Scopes
BY DEF Scopes, Queries

(* Hearing of a light: the scopes named are handled, and nothing is lost.  *)
LEMMA InvalidateLightIs ==
    ASSUME NEW c \in Caches, WellKept(c), NEW l \in Lights
    PROVE  LET x == InvalidateLight(c, l)
           IN  /\ x \in Caches /\ WellKept(x) /\ Follows(c, x)
               /\ \A s : Waits(c, s) => Waits(x, s)
               /\ Handled(x, One(l)) /\ Handled(x, One("list"))
<1> DEFINE y == RaceAware(c, One(l))
           x == RaceAware(y, One("list"))
<1>1. Handles(c, One(l), y)
  BY OneIs, RaceAwareIs
<1> HIDE DEF y
<1>2. y \in Caches /\ WellKept(y)
  BY <1>1 DEF Handles
<1>3. Handles(y, One("list"), x)
  BY <1>2, OneIs, RaceAwareIs
<1> HIDE DEF x
<1>4. Follows(c, x)
  BY <1>1, <1>2, <1>3, FollowsTwice DEF Handles
<1>5. Handled(x, One(l))
  BY <1>1, <1>3, OneIs, HandledStays DEF Handles
<1>6. InvalidateLight(c, l) = x
  BY DEF InvalidateLight, x, y
<1> QED BY <1>1, <1>3, <1>4, <1>5, <1>6 DEF Handles

LEMMA HearOfLightLive ==
    ASSUME LiveIInv, HearOfLight
    PROVE  RestTyped' /\ CacheKept'
<1> USE DEF LiveIInv, RestTyped
<1>1. wire # <<>> /\ wire' = Tail(wire) /\ Head(wire) \in NoticeFrame
  BY DEF HearOfLight
<1>2. RestTyped'
  <2>1. wire' \in Seq(NoticeFrame \cup StatusFrame)
    BY <1>1, HeadsAndTails DEF StreamTyped
  <2> QED BY <2>1 DEF HearOfLight, StreamTyped, ReadsTyped, HistoryTyped, gatewayVars
<1>3. Cache \in Caches /\ WellKept(Cache) /\ Head(wire).light \in Lights
  BY <1>1 DEF CacheKept, NoticeFrame
<1>4. CASE Head(wire).kind = "changed"
  <2>1. Becomes(InvalidateLight(Cache, Head(wire).light))
    BY <1>4 DEF HearOfLight
  <2> QED BY <1>2, <1>3, <2>1, InvalidateLightIs, BecomesKept
<1>5. CASE Head(wire).kind # "changed"
  <2>1. Becomes(RaceAware(Cache, One("list")))
    BY <1>5 DEF HearOfLight
  <2>2. Handles(Cache, One("list"), RaceAware(Cache, One("list")))
    BY <1>3, OneIs, RaceAwareIs
  <2> QED BY <1>2, <2>1, <2>2, BecomesKept DEF Handles
<1> QED BY <1>4, <1>5

LEMMA HearStatusLive ==
    ASSUME LiveIInv, HearStatus
    PROVE  RestTyped' /\ CacheKept'
<1> USE DEF LiveIInv, RestTyped
<1>1. wire # <<>> /\ wire' = Tail(wire) /\ Head(wire) \in StatusFrame
  BY DEF HearStatus
<1>2. RestTyped'
  <2>1. wire' \in Seq(NoticeFrame \cup StatusFrame)
    BY <1>1, HeadsAndTails DEF StreamTyped
  <2>2. Head(wire).gateway \in {"connected", "reconnecting"}
    BY <1>1 DEF StatusFrame
  <2> QED
    BY <2>1, <2>2 DEF HearStatus, StreamTyped, ReadsTyped, HistoryTyped, gatewayVars
<1>3. Cache \in Caches /\ WellKept(Cache)
  BY DEF CacheKept
<1>4. Handles(Cache, Everything, RaceAware(Cache, Everything))
  BY <1>3, OneIs, RaceAwareIs
<1>5. Becomes(RaceAware(Cache, Everything)) \/ Becomes(Cache)
  BY DEF HearStatus
<1> QED BY <1>2, <1>3, <1>4, <1>5, BecomesKept DEF Handles

(* A step of the Console's reads leaves the stream where it is. *)
LEMMA ReadAsideLive ==
    ASSUME LiveIInv, ReadAside
    PROVE  StreamTyped' /\ page' = page
BY DEF LiveIInv, RestTyped, StreamTyped, ReadAside, gatewayVars

(* A read that ends, answered or failed. *)
LEMMA SettledLive ==
    ASSUME CacheKept, NEW q \in Queries, NEW marks \in SUBSET Queries,
           Becomes(Told([Cache EXCEPT !.fetch[q] = "idle", !.invalid = marks]))
    PROVE  CacheKept'
<1> DEFINE c == [Cache EXCEPT !.fetch[q] = "idle", !.invalid = marks]
<1>1. c \in Caches /\ c.followUps = followUps
  BY DEF CacheKept, Cache, Caches, FetchStates
<1>2. \A i, j \in DOMAIN followUps : followUps[i] = followUps[j] => i = j
  BY CacheKeptIs DEF IsInjective
<1> HIDE DEF c
<1>3. Told(c) \in Caches /\ WellKept(Told(c))
  BY <1>1, <1>2, ToldIs
<1> QED BY <1>3, BecomesKept DEF c

LEMMA AnswerLive ==
    ASSUME LiveIInv, NEW q \in Queries, Answer(q)
    PROVE  RestTyped' /\ CacheKept'
<1> USE DEF LiveIInv, RestTyped
<1>1. Becomes(Told([Cache EXCEPT !.fetch[q] = "idle", !.invalid = @ \ {q}]))
  BY DEF Answer
<1>2. [Cache EXCEPT !.fetch[q] = "idle", !.invalid = @ \ {q}]
          = [Cache EXCEPT !.fetch[q] = "idle", !.invalid = invalid \ {q}]
  BY DEF Cache
<1>3. invalid \ {q} \in SUBSET Queries
  BY CacheKeptIs
<1>4. CacheKept'
  BY <1>1, <1>2, <1>3, SettledLive
<1>5. StreamTyped' /\ page' = page
  BY ReadAsideLive DEF Answer
<1>6. ReadsTyped' /\ HistoryTyped'
  BY <1>5 DEF Answer, ReadsTyped, HistoryTyped
<1> QED BY <1>4, <1>5, <1>6

LEMMA FailsLive ==
    ASSUME LiveIInv, NEW q \in Queries, Refused(q) \/ Fail(q)
    PROVE  RestTyped' /\ CacheKept'
<1> USE DEF LiveIInv, RestTyped
<1>1. ReadFails(q)
  BY DEF Refused, Fail
<1>2. Becomes(Told([Cache EXCEPT !.fetch[q] = "idle", !.invalid = @ \cup {q}]))
  BY <1>1 DEF ReadFails
<1>3. [Cache EXCEPT !.fetch[q] = "idle", !.invalid = @ \cup {q}]
          = [Cache EXCEPT !.fetch[q] = "idle", !.invalid = invalid \cup {q}]
  BY DEF Cache
<1>4. invalid \cup {q} \in SUBSET Queries
  BY CacheKeptIs
<1>5. CacheKept'
  BY <1>2, <1>3, <1>4, SettledLive
<1>6. StreamTyped' /\ page' = page
  BY <1>1, ReadAsideLive DEF ReadFails
<1>7. ReadsTyped'
  BY <1>1, <1>6 DEF ReadFails, ReadsTyped
<1>8. HistoryTyped'
  <2>1. spent' = spent \/ Spend("fails", MaxFails)
    BY DEF Refused, Fail, Trouble
  <2> QED BY <1>1, <2>1, HistoryAside DEF ReadFails, Bounded
<1> QED BY <1>5, <1>6, <1>7, <1>8

LEMMA PagesLive ==
    ASSUME LiveIInv, (\E q \in Queries : Visit(q)) \/ Focus
    PROVE  RestTyped' /\ CacheKept'
<1> USE DEF LiveIInv, RestTyped
<1>1. RestTyped'
  BY DEF Visit, Focus, StreamTyped, ReadsTyped, HistoryTyped, gatewayVars
<1>2. fetch \in [Queries -> FetchStates]
  BY CacheKeptIs
<1>3. /\ fetch' \in [Queries -> FetchStates]
      /\ \A q \in Queries : fetch[q] # "idle" => fetch'[q] # "idle"
  BY <1>2 DEF Visit, Focus, ReadsTyped, FetchStates
<1>4. UNCHANGED <<invalid, followUps>>
  BY DEF Visit, Focus
<1> QED BY <1>1, <1>3, <1>4, FetchingKept

(* What becomes of an RPC and of who waits for it. *)
ByRpc(q) == Join(q) \/ OthersAsk(q) \/ Sample(q) \/ RpcAnswers(q) \/ RpcFails(q)

LEMMA RpcLive ==
    ASSUME LiveIInv, NEW q \in Queries, ByRpc(q)
    PROVE  RestTyped' /\ CacheKept'
<1> USE DEF LiveIInv, RestTyped, ByRpc
<1>1. ReadAside /\ UNCHANGED <<data, invalid, errored, followUps>>
  BY DEF Join, OthersAsk, Sample, RpcAnswers, RpcFails, RpcEnds, cacheVars
<1>2. StreamTyped' /\ page' = page
  BY <1>1, ReadAsideLive
<1>3. fetch \in [Queries -> FetchStates] /\ rpc \in [Queries -> RpcStates]
  BY CacheKeptIs DEF ReadsTyped
<1>4. rpc' \in [Queries -> RpcStates]
  BY <1>3 DEF Join, OthersAsk, Sample, RpcAnswers, RpcFails, RpcEnds, RpcStates
<1>5. /\ fetch' \in [Queries -> FetchStates]
      /\ \A p \in Queries : fetch[p] # "idle" => fetch'[p] # "idle"
  BY <1>3 DEF Join, OthersAsk, Sample, RpcAnswers, RpcFails, RpcEnds, cacheVars,
     FetchStates
<1>6. ReadsTyped'
  BY <1>1, <1>2, <1>4 DEF ReadsTyped
<1>7. HistoryTyped'
  <2>1. \/ spent' = spent
        \/ Spend("fails", MaxFails)
        \/ Spend("others", MaxOthers)
    BY DEF Join, OthersAsk, Sample, RpcAnswers, RpcFails, Trouble
  <2>2. spent' \in [Bounded -> Nat]
    BY <2>1, SpendTyped DEF HistoryTyped, Bounded
  <2>3. missed' \subseteq missed \cup {q}
    BY DEF Join, OthersAsk, Sample, RpcAnswers, RpcFails, RpcEnds
  <2> QED BY <2>2, <2>3 DEF HistoryTyped
<1> QED BY <1>1, <1>2, <1>5, <1>6, <1>7, FetchingKept

LEMMA LiveNextIInv == LiveIInv /\ [LiveNext]_llVars => LiveIInv'
<1> SUFFICES ASSUME LiveIInv, [LiveNext]_llVars PROVE LiveIInv'
  OBVIOUS
<1>1. IInv'
  BY LiveIInvIs, StreamStep, NextIInv
<1> SUFFICES RestTyped' /\ CacheKept'
  BY <1>1 DEF LiveIInv
<1>2. ASSUME NEW l \in Lights, NEW kind \in Kinds, Change(l, kind)
      PROVE  RestTyped' /\ CacheKept'
  BY <1>2, ChangeLive
<1>3. CASE Deliver \/ BySub \/ ByGap
  BY <1>3, SubscriptionLive
<1>4. CASE FlushToWire
  BY <1>4, FlushLive
<1>5. CASE Opened \/ ByApi \/ ByBreak
  BY <1>5, StreamsLive
<1>6. CASE HearOfLight \/ HearStatus
  BY <1>6, HearOfLightLive, HearStatusLive
<1>7. ASSUME NEW q \in Queries, Answer(q) \/ Refused(q) \/ Fail(q)
      PROVE  RestTyped' /\ CacheKept'
  BY <1>7, AnswerLive, FailsLive
<1>8. ASSUME NEW q \in Queries, ByRpc(q) PROVE RestTyped' /\ CacheKept'
  BY <1>8, RpcLive
<1>9. CASE (\E q \in Queries : Visit(q)) \/ Focus
  BY <1>9, PagesLive
<1>10. CASE UNCHANGED llVars
  <2>1. RestTyped'
    BY <1>10 DEF llVars, gatewayVars, consoleVars, cacheVars, LiveIInv,
       RestTyped, StreamTyped, ReadsTyped, HistoryTyped
  <2> QED BY <1>10, <2>1, CacheAside DEF llVars, consoleVars, LiveIInv
<1> QED
  BY <1>2, <1>3, <1>4, <1>5, <1>6, <1>7, <1>8, <1>9, <1>10
     DEF LiveNext, BySub, ByGap, ByApi, ByBreak, ByRpc

(* Every reachable state satisfies the invariant. *)
THEOREM LiveInvariant == LiveSpec => []LiveIInv
BY LiveInitIInv, LiveNextIInv, PTL DEF LiveSpec

(* Every variable stays in its type, and no scope waits twice. *)
THEOREM LiveTyped == LiveSpec => []LiveTypeOK
<1>1. LiveIInv => LiveTypeOK
  BY LiveIInvIs
<1> QED BY <1>1, LiveInvariant, PTL

(* An Invalidation put off by raceAwareInvalidate always has a fetch whose *)
(* end will wake it, however many queries are read at once.                *)
THEOREM FollowUpsWait == LiveSpec => []FollowUpsHaveAFetch
<1>1. LiveIInv => FollowUpsHaveAFetch
  BY LiveIInvIs
<1> QED BY <1>1, LiveInvariant, PTL

(* Seen from the API alone, the whole way from the Bridge to the screen is *)
(* the event streams' own behaviour: what is proved of them holds here.    *)
THEOREM LiveLightsImplementsEventStreams == LiveSpec => Spec
<1>1. LiveInit => Init
  BY DEF LiveInit
<1>2. LiveTypeOK /\ [LiveNext]_llVars => [Next]_vars
  BY StreamStep
<1> QED BY <1>1, <1>2, LiveTyped, PTL DEF LiveSpec, Spec
-----------------------------------------------------------------------------
(* What the words on their way say, in what order.  A stream is asked for  *)
(* over a connection nothing is left on, and only by an EventSource that   *)
(* has not closed.                                                         *)
Alive(q) == q = "list" \/ roster[q] = "here"

ArrivingIsEmpty == conn[Console] = "arriving" => wire = <<>>

ClosedIsGone == source = "closed" => conn[Console] = "none"

(* Words of a light come in the order its life does: none before it is     *)
(* there, none of its going while it is, and its coming before all else.   *)
NoRemovedWord ==
    \A l \in Lights : roster[l] # "gone" =>
        /\ \A i \in DOMAIN onStream :
              ~ (onStream[i].light = l /\ onStream[i].kind = "removed")
        /\ dirty[Console][l] # "removed"

LaterIsUnsaid ==
    \A l \in Lights : roster[l] = "later" =>
        /\ \A i \in DOMAIN onStream : onStream[i].light # l
        /\ dirty[Console][l] = "clean"

AddedIsFirst ==
    \A i \in DOMAIN onStream : onStream[i].kind = "added" =>
        /\ \A j \in 1..(i - 1) : onStream[j].light # onStream[i].light
        /\ dirty[Console][onStream[i].light] = "clean"

Orderly == NoRemovedWord /\ LaterIsUnsaid /\ AddedIsFirst

Recovery == [gateway |-> "connected"]

(* An outage an open stream last spoke of is not over for the Console      *)
(* either.                                                                 *)
OutageStands ==
    \/ /\ previousGateway = "reconnecting"
       /\ \A i \in DOMAIN wire : wire[i] # Recovery
    \/ \E i \in DOMAIN wire :
          /\ wire[i] = Outage
          /\ \A j \in DOMAIN wire : j > i => wire[j] # Recovery

SaidLast == Open(Console) /\ lastSent[Console].gateway = "reconnecting" => OutageStands

Words == ArrivingIsEmpty /\ ClosedIsGone /\ Orderly /\ SaidLast

(* What the copies and the answers on their way miss is due to be read.    *)
LaterIsUntouched ==
    \A l \in Lights : roster[l] = "later" =>
        data[l] # "stale" /\ fetch[l] # "old" /\ rpc[l] # "old"

(* What is marked and on screen is being read, or could not be. *)
ShownIsRead ==
    \A q \in invalid : page = q => fetch[q] # "idle" \/ q \in errored

Followed(q) == \E s \in Scopes : Waits(Cache, s) /\ q \in s

Due(q) == Followed(q) \/ Coming(q) \/ q \in missed

StaleIsDue ==
    \A q \in Queries :
        Alive(q) /\ data[q] = "stale" /\ (fetch[q] = "idle" \/ Behind(q)) =>
            q \in invalid \/ Due(q)

OldIsDue == \A q \in Queries : Alive(q) /\ Behind(q) => Due(q)

Copies == LaterIsUntouched /\ ShownIsRead /\ StaleIsDue /\ OldIsDue

LEMMA Appends ==
    ASSUME NEW S, NEW s \in Seq(S), NEW e \in S
    PROVE  /\ Len(s) \in Nat
           /\ DOMAIN s = 1..Len(s)
           /\ DOMAIN Append(s, e) = 1..(Len(s) + 1)
           /\ \A i \in 1..Len(s) : Append(s, e)[i] = s[i]
           /\ Append(s, e)[Len(s) + 1] = e
OBVIOUS

LEMMA LiveInitWords == LiveInit => Words
<1> SUFFICES ASSUME LiveInit PROVE Words
  OBVIOUS
<1>1. Console \in Browsers
  BY ConsoleAssumption
<1>2. /\ conn[Console] = "none"
      /\ dirty[Console] = Clean
  BY <1>1 DEF LiveInit, Init
<1>3. DOMAIN onStream = {} /\ wire = <<>> /\ source = "open"
  BY DEF LiveInit
<1> QED
  BY <1>2, <1>3 DEF Words, Orderly, ArrivingIsEmpty, ClosedIsGone, NoRemovedWord,
     LaterIsUnsaid, AddedIsFirst, SaidLast, Open, Clean

(* A step at neither end of the stream. *)
LEMMA WordsAside ==
    ASSUME Words, UNCHANGED <<conn, source, wire, roster, onStream, dirty,
                              lastSent, previousGateway>>
    PROVE  Words'
BY DEF Words, Orderly, ArrivingIsEmpty, ClosedIsGone, NoRemovedWord,
       LaterIsUnsaid, AddedIsFirst, SaidLast, OutageStands, Open

(* What is left of the words are the first of them. *)
KeepsFirst ==
    \E k \in 0..Len(onStream) :
        /\ DOMAIN onStream' = 1..k
        /\ \A i \in 1..k : i \in DOMAIN onStream /\ onStream'[i] = onStream[i]

LEMMA KeepsFirstIs ==
    ASSUME LiveIInv,
           \/ onStream' = onStream
           \/ onStream' = <<>>
           \/ \E k \in 0..(Len(onStream) - 1) : onStream' = SubSeq(onStream, 1, k)
    PROVE  KeepsFirst
<1> DEFINE n == Len(onStream)
<1>1. onStream \in Seq(NoticeFrame)
  BY DEF LiveIInv, RestTyped, StreamTyped
<1>2. n \in Nat /\ DOMAIN onStream = 1..n
  BY <1>1
<1>3. CASE onStream' = onStream
  <2>1. n \in 0..n /\ DOMAIN onStream' = 1..n
    BY <1>2, <1>3
  <2>2. \A i \in 1..n : i \in DOMAIN onStream /\ onStream'[i] = onStream[i]
    BY <1>2, <1>3
  <2> QED BY <2>1, <2>2 DEF KeepsFirst
<1>4. CASE onStream' = <<>>
  <2>1. 0 \in 0..n /\ DOMAIN onStream' = 1..0
    BY <1>2, <1>4
  <2> QED BY <2>1 DEF KeepsFirst
<1>5. ASSUME NEW k \in 0..(Len(onStream) - 1), onStream' = SubSeq(onStream, 1, k)
      PROVE  KeepsFirst
  <2>1. k \in 0..n
    BY <1>2
  <2>2. /\ DOMAIN onStream' = 1..k
        /\ \A i \in 1..k : i \in DOMAIN onStream /\ onStream'[i] = onStream[i]
    BY <1>1, <1>5, PrefixIs
  <2> QED BY <2>1, <2>2 DEF KeepsFirst
<1> QED BY <1>3, <1>4, <1>5

(* Fewer words, and a buffer that is as it was or empty, are as orderly.   *)
LEMMA OrderlyStays ==
    ASSUME LiveIInv, Orderly, UNCHANGED roster, KeepsFirst,
           dirty'[Console] = dirty[Console] \/ dirty'[Console] = Clean
    PROVE  Orderly'
<1>1. \A i \in DOMAIN onStream : onStream[i].light \in Lights
  <2>1. \A i \in DOMAIN onStream : onStream[i] \in NoticeFrame
    BY DEF LiveIInv, RestTyped, StreamTyped
  <2> QED BY <2>1 DEF NoticeFrame
<1>2. PICK k \in 0..Len(onStream) :
         /\ DOMAIN onStream' = 1..k
         /\ \A i \in 1..k : i \in DOMAIN onStream /\ onStream'[i] = onStream[i]
  BY DEF KeepsFirst
<1>3. \A l \in Lights : \/ dirty'[Console][l] = dirty[Console][l]
                        \/ dirty'[Console][l] = "clean"
  BY DEF Clean
<1>4. NoRemovedWord'
  <2> SUFFICES ASSUME NEW l \in Lights, roster[l] # "gone"
               PROVE  /\ \A i \in DOMAIN onStream' :
                            ~ (onStream'[i].light = l /\ onStream'[i].kind = "removed")
                      /\ dirty'[Console][l] # "removed"
    BY DEF NoRemovedWord
  <2> QED BY <1>2, <1>3 DEF Orderly, NoRemovedWord
<1>5. LaterIsUnsaid'
  <2> SUFFICES ASSUME NEW l \in Lights, roster[l] = "later"
               PROVE  /\ \A i \in DOMAIN onStream' : onStream'[i].light # l
                      /\ dirty'[Console][l] = "clean"
    BY DEF LaterIsUnsaid
  <2> QED BY <1>2, <1>3 DEF Orderly, LaterIsUnsaid
<1>6. AddedIsFirst'
  <2> SUFFICES ASSUME NEW i \in DOMAIN onStream', onStream'[i].kind = "added"
               PROVE  /\ \A j \in 1..(i - 1) : onStream'[j].light # onStream'[i].light
                      /\ dirty'[Console][onStream'[i].light] = "clean"
    BY DEF AddedIsFirst
  <2>1. i \in DOMAIN onStream /\ onStream'[i] = onStream[i]
    BY <1>2
  <2>2. /\ \A j \in 1..(i - 1) : onStream[j].light # onStream[i].light
        /\ dirty[Console][onStream[i].light] = "clean"
    BY <2>1 DEF Orderly, AddedIsFirst
  <2>3. dirty'[Console][onStream[i].light] = "clean"
    BY <1>1, <1>3, <2>1, <2>2
  <2>4. \A j \in 1..(i - 1) : onStream'[j] = onStream[j]
    BY <1>2
  <2> QED BY <2>1, <2>2, <2>3, <2>4
<1> QED BY <1>4, <1>5, <1>6 DEF Orderly

LEMMA ChangeWords ==
    ASSUME LiveIInv, Words,
           NEW l \in Lights, NEW kind \in Kinds, Change(l, kind)
    PROVE  Words'
<1> DEFINE e == [light |-> l, kind |-> kind]
           n == Len(onStream)
<1>1. UNCHANGED <<conn, source, dirty, lastSent, wire, previousGateway>>
  BY DEF Change, apiVars, streamVars
<1>2. ArrivingIsEmpty' /\ ClosedIsGone' /\ SaidLast'
  BY <1>1 DEF Words, ArrivingIsEmpty, ClosedIsGone, SaidLast, OutageStands, Open
<1>3. /\ n \in Nat
      /\ DOMAIN onStream = 1..n
      /\ DOMAIN Append(onStream, e) = 1..(n + 1)
      /\ \A i \in 1..n : Append(onStream, e)[i] = onStream[i]
      /\ Append(onStream, e)[n + 1] = e
  <2>1. e \in NoticeFrame /\ onStream \in Seq(NoticeFrame)
    BY DEF NoticeFrame, LiveIInv, RestTyped, StreamTyped
  <2> QED BY <2>1, Appends
<1>4. onStream' = onStream \/ onStream' = Append(onStream, e)
  BY DEF Change
<1>5. /\ roster \in [Lights -> {"later", "here", "gone"}]
      /\ \/ kind = "changed" /\ roster[l] = "here" /\ roster' = roster
         \/ /\ kind = "added" /\ roster[l] = "later"
            /\ roster' = [roster EXCEPT ![l] = "here"]
         \/ /\ kind = "removed" /\ roster[l] = "here"
            /\ roster' = [roster EXCEPT ![l] = "gone"]
  BY DEF Change, Happens, LiveIInv, RestTyped, StreamTyped
<1> HIDE DEF n
<1>6. ASSUME NEW i \in DOMAIN onStream'
      PROVE  (i \in DOMAIN onStream /\ onStream'[i] = onStream[i])
             \/ (i = n + 1 /\ onStream'[i] = e)
  <2>1. i \in 1..n \/ i = n + 1
    BY <1>3, <1>4
  <2>2. CASE onStream' = onStream
    BY <1>6, <2>2
  <2>3. CASE onStream' = Append(onStream, e)
    BY <1>3, <2>1, <2>3
  <2> QED BY <1>4, <2>2, <2>3
<1>7. e.light = l /\ e.kind = kind
  OBVIOUS
<1> HIDE DEF e
<1>8. NoRemovedWord'
  <2> SUFFICES ASSUME NEW m \in Lights, roster'[m] # "gone"
               PROVE  /\ \A i \in DOMAIN onStream' :
                            ~ (onStream'[i].light = m /\ onStream'[i].kind = "removed")
                      /\ dirty[Console][m] # "removed"
    BY <1>1 DEF NoRemovedWord
  <2>1. roster[m] # "gone"
    BY <1>5
  <2>2. ~ (m = l /\ kind = "removed")
    BY <1>5
  <2> QED BY <1>6, <1>7, <2>1, <2>2 DEF Words, Orderly, NoRemovedWord
<1>9. LaterIsUnsaid'
  <2> SUFFICES ASSUME NEW m \in Lights, roster'[m] = "later"
               PROVE  /\ \A i \in DOMAIN onStream' : onStream'[i].light # m
                      /\ dirty[Console][m] = "clean"
    BY <1>1 DEF LaterIsUnsaid
  <2>1. roster[m] = "later" /\ m # l
    BY <1>5
  <2> QED BY <1>6, <1>7, <2>1 DEF Words, Orderly, LaterIsUnsaid
<1>10. AddedIsFirst'
  <2> SUFFICES ASSUME NEW i \in DOMAIN onStream', onStream'[i].kind = "added"
               PROVE  /\ \A j \in 1..(i - 1) : onStream'[j].light # onStream'[i].light
                      /\ dirty[Console][onStream'[i].light] = "clean"
    BY <1>1 DEF AddedIsFirst
  <2>1. ASSUME NEW j \in 1..(i - 1)
        PROVE  j \in DOMAIN onStream /\ onStream'[j] = onStream[j]
    <3>1. j \in 1..n
      BY <1>3, <1>6
    <3> QED BY <1>3, <1>4, <3>1
  <2>2. CASE i \in DOMAIN onStream /\ onStream'[i] = onStream[i]
    BY <2>1, <2>2 DEF Words, Orderly, AddedIsFirst
  <2>3. CASE i = n + 1 /\ onStream'[i] = e
    <3>1. roster[l] = "later"
      BY <1>5, <1>7, <2>3
    <3> QED BY <1>7, <2>1, <2>3, <3>1 DEF Words, Orderly, LaterIsUnsaid
  <2> QED BY <1>6, <2>2, <2>3
<1> QED BY <1>2, <1>8, <1>9, <1>10 DEF Words, Orderly

LEMMA DeliverWords ==
    ASSUME LiveIInv, Words, Deliver
    PROVE  Words'
<1> DEFINE e == Head(onStream)
           n == Len(onStream)
<1>1. UNCHANGED <<conn, source, lastSent, wire, previousGateway, roster>>
  BY DEF Deliver, Notice, consoleVars
<1>2. ArrivingIsEmpty' /\ ClosedIsGone' /\ SaidLast'
  BY <1>1 DEF Words, ArrivingIsEmpty, ClosedIsGone, SaidLast, OutageStands, Open
<1>3. /\ n \in Nat \ {0}
      /\ DOMAIN onStream = 1..n
      /\ e = onStream[1] /\ e \in NoticeFrame
      /\ DOMAIN onStream' = 1..(n - 1)
      /\ \A i \in 1..(n - 1) : onStream'[i] = onStream[i + 1]
  <2>1. onStream # <<>> /\ onStream' = Tail(onStream) /\ onStream \in Seq(NoticeFrame)
    BY DEF Deliver, LiveIInv, RestTyped, StreamTyped
  <2> QED BY <2>1, HeadsAndTails
<1>4. Console \in Browsers /\ dirty[Console] \in [Lights -> Kinds \cup {"clean"}]
  BY ConsoleAssumption DEF LiveIInv, IInv, TypeOK
<1>5. \A m \in Lights : \/ dirty'[Console][m] = dirty[Console][m]
                        \/ m = e.light /\ dirty'[Console][m] = e.kind
  <2>1. dirty'[Console] = dirty[Console]
        \/ dirty'[Console] = [dirty[Console] EXCEPT ![e.light] = e.kind]
    BY <1>4 DEF Deliver, Notice
  <2> QED BY <1>4, <2>1
<1> HIDE DEF e, n
<1>6. e.light \in Lights /\ 1 \in DOMAIN onStream
  BY <1>3 DEF NoticeFrame
<1>7. ASSUME NEW i \in DOMAIN onStream'
      PROVE  i + 1 \in DOMAIN onStream /\ onStream'[i] = onStream[i + 1]
  BY <1>3
<1>8. NoRemovedWord'
  <2> SUFFICES ASSUME NEW m \in Lights, roster[m] # "gone"
               PROVE  /\ \A i \in DOMAIN onStream' :
                            ~ (onStream'[i].light = m /\ onStream'[i].kind = "removed")
                      /\ dirty'[Console][m] # "removed"
    BY <1>1 DEF NoRemovedWord
  <2> QED BY <1>3, <1>5, <1>6, <1>7 DEF Words, Orderly, NoRemovedWord
<1>9. LaterIsUnsaid'
  <2> SUFFICES ASSUME NEW m \in Lights, roster[m] = "later"
               PROVE  /\ \A i \in DOMAIN onStream' : onStream'[i].light # m
                      /\ dirty'[Console][m] = "clean"
    BY <1>1 DEF LaterIsUnsaid
  <2> QED BY <1>3, <1>5, <1>6, <1>7 DEF Words, Orderly, LaterIsUnsaid
<1>10. AddedIsFirst'
  <2> SUFFICES ASSUME NEW i \in DOMAIN onStream', onStream'[i].kind = "added"
               PROVE  /\ \A j \in 1..(i - 1) : onStream'[j].light # onStream'[i].light
                      /\ dirty'[Console][onStream'[i].light] = "clean"
    BY DEF AddedIsFirst
  <2>1. i + 1 \in DOMAIN onStream /\ onStream[i + 1].kind = "added"
    BY <1>7
  <2>2. /\ \A j \in 1..i : onStream[j].light # onStream[i + 1].light
        /\ dirty[Console][onStream[i + 1].light] = "clean"
    <3>1. (i + 1) - 1 = i
      BY <1>3
    <3> QED BY <2>1, <3>1 DEF Words, Orderly, AddedIsFirst
  <2>3. ASSUME NEW j \in 1..(i - 1)
        PROVE  onStream'[j].light # onStream'[i].light
    <3>1. j + 1 \in 1..i /\ j \in 1..(n - 1)
      BY <1>3
    <3> QED BY <1>3, <1>7, <2>2, <3>1
  <2>4. onStream[i + 1].light \in Lights
    <3>1. onStream \in Seq(NoticeFrame)
      BY DEF LiveIInv, RestTyped, StreamTyped
    <3>2. onStream[i + 1] \in NoticeFrame
      BY <2>1, <3>1
    <3> QED BY <3>2 DEF NoticeFrame
  <2>5. e.light # onStream[i + 1].light
    <3>1. 1 \in 1..i
      BY <1>3
    <3> QED BY <1>3, <2>2, <3>1
  <2> QED BY <1>5, <1>7, <2>2, <2>3, <2>4, <2>5
<1> QED BY <1>2, <1>8, <1>9, <1>10 DEF Words, Orderly

LEMMA SubscriptionWords ==
    ASSUME LiveIInv, Words, BySub \/ ByGap
    PROVE  Words'
<1> USE DEF BySub, ByGap
<1>1. UNCHANGED <<conn, source, wire, roster, dirty, lastSent, previousGateway>>
  BY DEF GatewayLost, Reopen, Accepted, Ended, BySubscription, Resynced,
         FallBehind, Gap, streamVars, consoleVars, gatewayVars
<1>2. KeepsFirst
  <2>1. \/ onStream' = onStream
        \/ onStream' = <<>>
        \/ \E k \in 0..(Len(onStream) - 1) : onStream' = SubSeq(onStream, 1, k)
    BY DEF GatewayLost, Reopen, Accepted, Ended, Resynced, FallBehind, gatewayVars
  <2> QED BY <2>1, KeepsFirstIs
<1>3. Orderly'
  BY <1>1, <1>2, OrderlyStays DEF Words
<1> QED
  BY <1>1, <1>3 DEF Words, ArrivingIsEmpty, ClosedIsGone, SaidLast, OutageStands, Open

LEMMA Catenates ==
    ASSUME NEW S, NEW s \in Seq(S), NEW t \in Seq(S)
    PROVE  /\ Len(s) \in Nat /\ Len(t) \in Nat
           /\ DOMAIN s = 1..Len(s)
           /\ DOMAIN t = 1..Len(t)
           /\ s \o t \in Seq(S)
           /\ DOMAIN (s \o t) = 1..(Len(s) + Len(t))
           /\ \A i \in 1..Len(s) : (s \o t)[i] = s[i]
           /\ \A i \in 1..Len(t) : (s \o t)[Len(s) + i] = t[i]
OBVIOUS

(* What a flush leaves on the wire: all that was there, a frame for every  *)
(* dirty light, and at the end the status if it is news.                   *)
LEMMA FlushedWire ==
    ASSUME LiveIInv, FlushToWire
    PROVE  /\ \A i \in DOMAIN wire : i \in DOMAIN wire' /\ wire'[i] = wire[i]
           /\ \A l \in Framed(Console) :
                 \E i \in DOMAIN wire' : wire'[i] = FrameOf(l)
           /\ StatusOf(Console) = lastSent[Console] =>
                 \A i \in DOMAIN wire' : i \in DOMAIN wire \/ wire'[i] \in NoticeFrame
           /\ StatusOf(Console) # lastSent[Console] =>
                 \E i \in DOMAIN wire' :
                    /\ wire'[i] = Said(StatusOf(Console))
                    /\ \A j \in DOMAIN wire' : j <= i
<1> DEFINE All == NoticeFrame \cup StatusFrame
           notices == SetToSeq({FrameOf(l) : l \in Framed(Console)})
           news == IF StatusOf(Console) = lastSent[Console]
                      THEN <<>> ELSE <<Said(StatusOf(Console))>>
           m == Len(wire)
           n == Len(notices)
           k == Len(news)
<1>1. TypeOK
  BY DEF LiveIInv, IInv
<1>2. /\ notices \in Seq(NoticeFrame)
      /\ news \in Seq(StatusFrame)
      /\ Frames = notices \o news
      /\ \A l \in Framed(Console) : \E i \in DOMAIN notices : notices[i] = FrameOf(l)
  BY <1>1, FramesAre
<1>3. StatusOf(Console) = lastSent[Console] => k = 0
  OBVIOUS
<1>4. StatusOf(Console) # lastSent[Console] =>
          k = 1 /\ news[1] = Said(StatusOf(Console))
  OBVIOUS
<1> HIDE DEF notices, news
<1>5. wire \in Seq(All) /\ wire' = wire \o (notices \o news)
  BY <1>2 DEF LiveIInv, RestTyped, StreamTyped, FlushToWire
<1>6. notices \in Seq(All) /\ news \in Seq(All)
  BY <1>2
<1> HIDE DEF All
<1>7. /\ n \in Nat /\ k \in Nat
      /\ DOMAIN notices = 1..n
      /\ notices \o news \in Seq(All)
      /\ DOMAIN (notices \o news) = 1..(n + k)
      /\ \A i \in 1..n : (notices \o news)[i] = notices[i]
      /\ \A i \in 1..k : (notices \o news)[n + i] = news[i]
  BY <1>6, Catenates
<1>8. /\ m \in Nat
      /\ DOMAIN wire = 1..m
      /\ DOMAIN wire' = 1..(m + n + k)
      /\ \A i \in 1..m : wire'[i] = wire[i]
      /\ \A i \in 1..(n + k) : wire'[m + i] = (notices \o news)[i]
  <2>1. Len(notices \o news) = n + k
    BY <1>6, <1>7
  <2> QED BY <1>5, <1>7, <2>1, Catenates
<1> HIDE DEF m, n, k
<1>9. \A i \in 1..n : i \in 1..(n + k) /\ m + i \in 1..(m + n + k)
  BY <1>7, <1>8
<1>10. \A i \in DOMAIN wire : i \in DOMAIN wire' /\ wire'[i] = wire[i]
  BY <1>7, <1>8
<1>11. \A l \in Framed(Console) : \E i \in DOMAIN wire' : wire'[i] = FrameOf(l)
  BY <1>2, <1>7, <1>8, <1>9
<1>12. ASSUME StatusOf(Console) = lastSent[Console], NEW i \in DOMAIN wire'
       PROVE  i \in DOMAIN wire \/ wire'[i] \in NoticeFrame
  <2>1. CASE i \in 1..m
    BY <1>8, <2>1
  <2>2. CASE i \notin 1..m
    <3>1. i - m \in 1..n /\ i = m + (i - m)
      BY <1>3, <1>7, <1>8, <1>12, <2>2
    <3>2. wire'[i] = notices[i - m]
      BY <1>7, <1>8, <1>9, <3>1
    <3>3. notices[i - m] \in NoticeFrame
      BY <1>2, <1>7, <3>1
    <3> QED BY <3>2, <3>3
  <2> QED BY <2>1, <2>2
<1>13. ASSUME StatusOf(Console) # lastSent[Console]
       PROVE  \E i \in DOMAIN wire' :
                 /\ wire'[i] = Said(StatusOf(Console))
                 /\ \A j \in DOMAIN wire' : j <= i
  <2>1. k = 1
    BY <1>4, <1>13 DEF k
  <2>2. wire'[m + (n + 1)] = Said(StatusOf(Console))
    <3>1. n + 1 \in 1..(n + k) /\ 1 \in 1..k
      BY <1>7, <2>1
    <3> QED BY <1>4, <1>7, <1>8, <1>13, <3>1
  <2>3. m + (n + 1) \in DOMAIN wire' /\ \A j \in DOMAIN wire' : j <= m + (n + 1)
    BY <1>7, <1>8, <2>1
  <2> QED BY <2>2, <2>3
<1> QED BY <1>10, <1>11, <1>12, <1>13

LEMMA FlushWords ==
    ASSUME LiveIInv, Words, FlushToWire
    PROVE  Words'
<1>1. UNCHANGED <<sub, conn, source, previousGateway, roster, onStream>>
  BY DEF FlushToWire, FlushTimer, consoleVars, gatewayVars
<1>2. Console \in Browsers /\ TypeOK
  BY ConsoleAssumption DEF LiveIInv, IInv
<1>3. dirty'[Console] = Clean /\ lastSent'[Console] = StatusOf(Console)
  BY <1>2 DEF FlushToWire, FlushTimer, Flush, TypeOK
<1>4. conn[Console] = "open"
  BY <1>2 DEF FlushToWire, FlushTimer, LiveIInv, IInv, NothingOutlivesItsStream, Open
<1>5. ArrivingIsEmpty' /\ ClosedIsGone'
  BY <1>1, <1>4 DEF Words, ArrivingIsEmpty, ClosedIsGone
<1>6. Orderly'
  BY <1>1, <1>3, KeepsFirstIs, OrderlyStays DEF Words
<1>7. SaidLast'
  <2> SUFFICES ASSUME StatusOf(Console).gateway = "reconnecting"
               PROVE  OutageStands'
    BY <1>1, <1>3 DEF SaidLast
  <2>1. CASE StatusOf(Console) # lastSent[Console]
    <3>1. Said(StatusOf(Console)) = Outage
      BY DEF Said, Outage
    <3>2. PICK i \in DOMAIN wire' :
             wire'[i] = Outage /\ \A j \in DOMAIN wire' : j <= i
      BY <2>1, <3>1, FlushedWire
    <3>3. \A j \in DOMAIN wire' : ~ (j > i)
      <4>1. wire' \in Seq(NoticeFrame \cup StatusFrame)
        BY FlushLive DEF RestTyped, StreamTyped
      <4>2. DOMAIN wire' = 1..Len(wire') /\ Len(wire') \in Nat
        BY <4>1
      <4> QED BY <3>2, <4>2
    <3> QED BY <3>2, <3>3 DEF OutageStands
  <2>2. CASE StatusOf(Console) = lastSent[Console]
    <3>1. \A x \in NoticeFrame : x # Recovery
      BY FramesDiffer DEF Recovery, StatusFrame
    <3>2. \A i \in DOMAIN wire' :
             wire'[i] # Recovery \/ (i \in DOMAIN wire /\ wire'[i] = wire[i])
      BY <2>2, <3>1, FlushedWire
    <3>3. \A i \in DOMAIN wire : i \in DOMAIN wire' /\ wire'[i] = wire[i]
      BY FlushedWire
    <3>4. OutageStands
      BY <1>4, <2>2 DEF Words, SaidLast, Open
    <3> QED BY <1>1, <3>2, <3>3, <3>4 DEF OutageStands
  <2> QED BY <2>1, <2>2
<1> QED BY <1>5, <1>6, <1>7 DEF Words

(* A stream that is over asks nothing of what is on its way. *)
LEMMA GoneWords ==
    ASSUME LiveIInv, Words, conn'[Console] = "none", UNCHANGED <<roster, onStream>>,
           dirty'[Console] = dirty[Console] \/ dirty'[Console] = Clean
    PROVE  Words'
<1>1. Orderly'
  BY KeepsFirstIs, OrderlyStays DEF Words
<1> QED
  BY <1>1 DEF Words, ArrivingIsEmpty, ClosedIsGone, SaidLast, Open

(* An ending is one of the Console's stream, or nothing to it. *)
LEMMA EndIs ==
    ASSUME LiveIInv, NEW S, End(S)
    PROVE  \/ conn'[Console] = "none" /\ dirty'[Console] = Clean
           \/ /\ conn'[Console] = conn[Console]
              /\ dirty'[Console] = dirty[Console]
              /\ lastSent'[Console] = lastSent[Console]
BY ConsoleAssumption DEF End

LEMMA DisconnectIs ==
    ASSUME LiveIInv, Disconnect(Console)
    PROVE  /\ conn'[Console] = "none"
           /\ dirty'[Console] = dirty[Console] \/ dirty'[Console] = Clean
<1>1. Console \in Browsers /\ TypeOK
  BY ConsoleAssumption DEF LiveIInv, IInv
<1> QED BY <1>1 DEF Disconnect, End, TypeOK

LEMMA EndedWords ==
    ASSUME LiveIInv, Words, EndedByApi \/ Drop \/ TurnedAway
    PROVE  Words'
<1>1. CASE EndedByApi
  <2>1. UNCHANGED <<wire, source, previousGateway, roster, onStream>>
    BY <1>1 DEF EndedByApi, consoleVars
  <2>2. PICK S : End(S)
    BY <1>1 DEF EndedByApi, Heartbeat, Shutdown, SignalAgain
  <2>3. CASE conn'[Console] = "none" /\ dirty'[Console] = Clean
    BY <2>1, <2>3, GoneWords
  <2>4. CASE /\ conn'[Console] = conn[Console]
             /\ dirty'[Console] = dirty[Console]
             /\ lastSent'[Console] = lastSent[Console]
    BY <2>1, <2>4 DEF Words, Orderly, ArrivingIsEmpty, ClosedIsGone,
       NoRemovedWord, LaterIsUnsaid, AddedIsFirst, SaidLast, OutageStands, Open
  <2> QED BY <2>2, <2>3, <2>4, EndIs
<1>2. CASE Drop \/ TurnedAway
  <2>1. UNCHANGED <<roster, onStream>>
    BY <1>2 DEF Drop, TurnedAway, gatewayVars
  <2>2. /\ conn'[Console] = "none"
        /\ dirty'[Console] = dirty[Console] \/ dirty'[Console] = Clean
    <3>1. CASE Disconnect(Console)
      BY <3>1, DisconnectIs
    <3>2. CASE NoStreamAtTheApi
      BY <3>2 DEF NoStreamAtTheApi, apiVars, streamVars
    <3> QED BY <1>2, <3>1, <3>2 DEF Drop, TurnedAway
  <2> QED BY <2>1, <2>2, GoneWords
<1> QED BY <1>1, <1>2

LEMMA OpenedWords ==
    ASSUME LiveIInv, Words, Ask \/ Opened
    PROVE  Words'
<1>1. UNCHANGED <<source, previousGateway, roster, onStream>>
  BY DEF Ask, Opened, consoleVars, gatewayVars
<1>2. Console \in Browsers /\ TypeOK
  BY ConsoleAssumption DEF LiveIInv, IInv
<1>3. CASE Ask
  <2>1. /\ UNCHANGED <<wire, dirty>>
        /\ conn'[Console] = "arriving"
        /\ wire = <<>> /\ source = "open"
    BY <1>2, <1>3 DEF Ask, Connect, TypeOK
  <2>2. Orderly'
    BY <1>1, <2>1, KeepsFirstIs, OrderlyStays DEF Words
  <2> QED
    BY <1>1, <2>1, <2>2 DEF Words, ArrivingIsEmpty, ClosedIsGone, SaidLast, Open
<1>4. CASE Opened
  <2>1. /\ conn[Console] = "arriving"
        /\ conn'[Console] = "open"
        /\ dirty'[Console] = Clean
        /\ lastSent'[Console] = [StatusOf(Console) EXCEPT !.resyncing = FALSE]
    BY <1>2, <1>4 DEF Opened, OpenStream, TypeOK
  <2>2. Orderly'
    BY <1>1, <2>1, KeepsFirstIs, OrderlyStays DEF Words
  <2>3. ArrivingIsEmpty' /\ ClosedIsGone'
    BY <1>1, <2>1 DEF Words, ArrivingIsEmpty, ClosedIsGone
  <2>4. SaidLast'
    <3>1. lastSent'[Console].gateway = StatusOf(Console).gateway
      BY <2>1 DEF StatusOf
    <3>2. wire' = <<[gateway |-> StatusOf(Console).gateway]>>
      BY <1>4 DEF Opened, Said
    <3>3. /\ DOMAIN wire' = {1}
          /\ wire'[1] = [gateway |-> StatusOf(Console).gateway]
      BY <3>2
    <3> QED BY <3>1, <3>3 DEF SaidLast, OutageStands, Outage
  <2> QED BY <2>2, <2>3, <2>4 DEF Words
<1> QED BY <1>3, <1>4

LEMMA HeardWords ==
    ASSUME LiveIInv, Words, HearOfLight \/ HearStatus
    PROVE  Words'
<1> DEFINE n == Len(wire)
<1>1. UNCHANGED <<conn, source, roster, onStream, dirty, lastSent>>
  BY DEF HearOfLight, HearStatus, apiVars, streamVars, gatewayVars
<1>2. /\ n \in Nat \ {0}
      /\ DOMAIN wire = 1..n
      /\ Head(wire) = wire[1]
      /\ wire # <<>>
      /\ DOMAIN wire' = 1..(n - 1)
      /\ \A i \in 1..(n - 1) : wire'[i] = wire[i + 1]
  <2>1. wire # <<>> /\ wire' = Tail(wire)
        /\ wire \in Seq(NoticeFrame \cup StatusFrame)
    BY DEF HearOfLight, HearStatus, LiveIInv, RestTyped, StreamTyped
  <2> QED BY <2>1, HeadsAndTails
<1> HIDE DEF n
<1>3. Orderly'
  BY <1>1 DEF Words, Orderly, NoRemovedWord, LaterIsUnsaid, AddedIsFirst
<1>4. ArrivingIsEmpty' /\ ClosedIsGone'
  BY <1>1, <1>2 DEF Words, ArrivingIsEmpty, ClosedIsGone
<1>5. SaidLast'
  <2> SUFFICES ASSUME OutageStands PROVE OutageStands'
    BY <1>1 DEF Words, SaidLast, Open
  <2>1. previousGateway' = IF wire[1] \in StatusFrame
                              THEN wire[1].gateway ELSE previousGateway
    BY <1>2, FramesDiffer DEF HearOfLight, HearStatus
  <2>2. \A i \in DOMAIN wire' :
           i + 1 \in DOMAIN wire /\ i + 1 > 1 /\ wire'[i] = wire[i + 1]
    BY <1>2
  <2>3. CASE /\ previousGateway = "reconnecting"
             /\ \A i \in DOMAIN wire : wire[i] # Recovery
    <3>1. previousGateway' = "reconnecting"
      BY <1>2, <2>1, <2>3 DEF StatusFrame, Recovery
    <3> QED BY <2>2, <2>3, <3>1 DEF OutageStands
  <2>4. ASSUME NEW i \in DOMAIN wire, wire[i] = Outage,
               \A j \in DOMAIN wire : j > i => wire[j] # Recovery
        PROVE  OutageStands'
    <3>1. CASE i = 1
      <4>1. previousGateway' = "reconnecting"
        BY <2>1, <2>4, <3>1 DEF Outage, StatusFrame
      <4> QED BY <2>2, <2>4, <3>1, <4>1 DEF OutageStands
    <3>2. CASE i # 1
      <4>1. /\ i - 1 \in DOMAIN wire'
            /\ wire'[i - 1] = Outage
        <5>1. i - 1 \in 1..(n - 1) /\ (i - 1) + 1 = i
          BY <1>2, <3>2
        <5> QED BY <1>2, <2>4, <5>1
      <4>2. ASSUME NEW j \in DOMAIN wire', j > i - 1
            PROVE  wire'[j] # Recovery
        <5>1. j + 1 > i
          BY <1>2, <4>2
        <5> QED BY <2>2, <2>4, <5>1
      <4> QED BY <4>1, <4>2 DEF OutageStands
    <3> QED BY <3>1, <3>2
  <2> QED BY <2>3, <2>4 DEF OutageStands
<1> QED BY <1>3, <1>4, <1>5 DEF Words

LEMMA LiveNextWords ==
    ASSUME LiveIInv, Words, [LiveNext]_llVars
    PROVE  Words'
<1>1. ASSUME NEW l \in Lights, NEW kind \in Kinds, Change(l, kind)
      PROVE  Words'
  BY <1>1, ChangeWords
<1>2. CASE Deliver
  BY <1>2, DeliverWords
<1>3. CASE BySub \/ ByGap
  BY <1>3, SubscriptionWords
<1>4. CASE FlushToWire
  BY <1>4, FlushWords
<1>5. CASE Ask \/ Opened
  BY <1>5, OpenedWords
<1>6. CASE EndedByApi \/ Drop \/ TurnedAway
  BY <1>6, EndedWords
<1>7. CASE HearOfLight \/ HearStatus
  BY <1>7, HeardWords
<1>8. CASE CookieExpires \/ ServerClosed \/ HearEnd
  BY <1>8, WordsAside DEF CookieExpires, ServerClosed, HearEnd, Expire, Closed,
     apiVars, streamVars, gatewayVars, consoleVars
<1>9. ASSUME NEW q \in Queries, ByRpc(q) \/ Answer(q) \/ Refused(q) \/ Fail(q)
      PROVE  Words'
  <2>1. ReadAside
    BY <1>9 DEF ByRpc, Join, OthersAsk, Sample, RpcAnswers, RpcFails, RpcEnds,
       Answer, Refused, Fail, ReadFails
  <2> QED BY <2>1, WordsAside DEF ReadAside, apiVars, streamVars, gatewayVars
<1>10. CASE (\E q \in Queries : Visit(q)) \/ Focus
  BY <1>10, WordsAside DEF Visit, Focus, apiVars, streamVars, gatewayVars
<1>11. CASE UNCHANGED llVars
  BY <1>11, WordsAside
     DEF llVars, apiVars, streamVars, gatewayVars, consoleVars
<1> QED
  BY <1>1, <1>2, <1>3, <1>4, <1>5, <1>6, <1>7, <1>8, <1>9, <1>10, <1>11
     DEF LiveNext, BySub, ByGap, ByRpc

-----------------------------------------------------------------------------
(* What the copies and the answers on their way miss is due to be read *)

LEMMA LiveInitCopies == LiveInit => Copies
<1> SUFFICES ASSUME LiveInit PROVE Copies
  OBVIOUS
<1>1. \A q \in Queries : data[q] = "none" /\ fetch[q] = "idle" /\ rpc[q] = "none"
  BY DEF LiveInit
<1>2. invalid = {}
  BY DEF LiveInit
<1>3. \A l \in Lights : l \in Queries
  BY DEF Queries
<1> QED
  BY <1>1, <1>2, <1>3 DEF Copies, LaterIsUntouched, ShownIsRead, StaleIsDue,
     OldIsDue, Behind

(* The follow-ups, from the cache as a value. *)
LEMMA FollowedIs ==
    ASSUME CacheKept, NEW q
    PROVE  Followed(q) <=> \E i \in DOMAIN followUps : q \in followUps[i]
<1>1. \A i \in DOMAIN followUps : followUps[i] \in Scopes
  BY CacheKeptIs
<1> QED BY <1>1 DEF Followed, Waits, Cache

(* A query that misses something has its word after the step, or has lost  *)
(* it for the record.                                                      *)
Accounted ==
    /\ missed \subseteq missed'
    /\ \A q \in Queries :
          Alive(q) /\ Coming(q) /\ Outdated(q)' => Coming(q)' \/ q \in missed'

LEMMA LosesIs == Loses => Accounted
BY DEF Loses, Accounted

(* Steps that touch neither the cache nor the page nor an RPC.             *)
LEMMA CopiesAside ==
    ASSUME Copies, UNCHANGED <<roster, page, rpc, cacheVars>>, Accounted
    PROVE  Copies'
<1>1. UNCHANGED <<data, fetch, invalid, errored, followUps>>
  BY DEF cacheVars
<1>2. LaterIsUntouched' /\ ShownIsRead'
  BY <1>1 DEF Copies, LaterIsUntouched, ShownIsRead
<1>3. \A q : (Alive(q)' <=> Alive(q)) /\ (Behind(q)' <=> Behind(q))
  BY <1>1 DEF Alive, Behind
<1>4. \A q : Followed(q)' <=> Followed(q)
  BY <1>1 DEF Followed, Waits, Cache
<1>5. ASSUME NEW q \in Queries, Alive(q), Outdated(q)', Due(q) PROVE Due(q)'
  BY <1>4, <1>5 DEF Due, Accounted
<1>6. StaleIsDue'
  <2> SUFFICES ASSUME NEW q \in Queries, Alive(q), data[q] = "stale",
                      fetch[q] = "idle" \/ Behind(q)
               PROVE  q \in invalid \/ Due(q)'
    BY <1>1, <1>3 DEF StaleIsDue
  <2>1. q \in invalid \/ Due(q)
    BY DEF Copies, StaleIsDue
  <2> QED BY <1>1, <1>5, <2>1 DEF Outdated
<1>7. OldIsDue'
  <2> SUFFICES ASSUME NEW q \in Queries, Alive(q), Behind(q)
               PROVE  Due(q)'
    BY <1>3 DEF OldIsDue
  <2>1. Due(q)
    BY DEF Copies, OldIsDue
  <2> QED BY <1>3, <1>5, <2>1 DEF Outdated
<1> QED BY <1>2, <1>6, <1>7 DEF Copies

(* Something happens: what shows it no longer is told, or is to be read    *)
(* with all the rest, or will be told nothing of it, for the record.       *)
LEMMA ChangeCopies ==
    ASSUME LiveIInv, Words, Copies,
           NEW l \in Lights, NEW kind \in Kinds, Change(l, kind)
    PROVE  Copies'
<1> DEFINE e == [light |-> l, kind |-> kind]
           n == Len(onStream)
           S == IF kind = "changed" THEN {"list", l} ELSE {"list"}
<1>1. UNCHANGED <<sub, conn, dirty, wire, source, previousGateway,
                  page, invalid, errored, followUps>>
  BY DEF Change, apiVars, streamVars
<1>2. Outdates(S)
  BY DEF Change, Happens
<1>3. \A q \in Queries :
         /\ \/ data'[q] = data[q]
            \/ q \in S /\ data[q] = "fresh" /\ data'[q] = "stale"
         /\ \/ fetch'[q] = fetch[q]
            \/ q \in S /\ fetch[q] = "fresh" /\ fetch'[q] = "old"
         /\ \/ rpc'[q] = rpc[q]
            \/ q \in S /\ rpc[q] = "fresh" /\ rpc'[q] = "old"
  <2> HIDE DEF S
  <2> QED BY <1>2 DEF Outdates
<1>4. /\ roster \in [Lights -> {"later", "here", "gone"}]
      /\ \/ kind = "changed" /\ roster[l] = "here" /\ roster' = roster
         \/ /\ kind = "added" /\ roster[l] = "later"
            /\ roster' = [roster EXCEPT ![l] = "here"]
         \/ /\ kind = "removed" /\ roster[l] = "here"
            /\ roster' = [roster EXCEPT ![l] = "gone"]
  BY DEF Change, Happens, LiveIInv, RestTyped, StreamTyped
<1>5. e \in NoticeFrame /\ onStream \in Seq(NoticeFrame)
  BY DEF NoticeFrame, LiveIInv, RestTyped, StreamTyped
<1>6. ASSUME NEW q \in Queries, Coming(q) PROVE Coming(q)'
  <2>1. Framed(Console)' = Framed(Console)
    BY <1>1 DEF Framed
  <2>2. \A i \in DOMAIN onStream : i \in DOMAIN onStream' /\ onStream'[i] = onStream[i]
    <3>1. onStream' = onStream \/ onStream' = Append(onStream, e)
      BY DEF Change
    <3> HIDE DEF e
    <3> QED BY <1>5, <3>1, Appends
  <2>3. FullReadDue' <=> FullReadDue
    BY <1>1 DEF FullReadDue
  <2>4. WordOnItsWay(q) => WordOnItsWay(q)'
    BY <1>1, <2>1, <2>2 DEF WordOnItsWay, Names
  <2> QED BY <1>6, <2>3, <2>4 DEF Coming
<1>7. missed \subseteq missed'
  BY DEF Change
<1>8. ASSUME NEW q \in Queries, q \in S, Outdated(q)' PROVE Due(q)'
  <2>1. Names(e, q)
    BY <1>8 DEF Names
  <2>2. CASE onStream' = Append(onStream, e)
    <3> HIDE DEF e
    <3>1. n + 1 \in DOMAIN onStream' /\ onStream'[n + 1] = e
      BY <1>5, <2>2, Appends
    <3>2. \E i \in DOMAIN onStream' : Names(onStream'[i], q)
      BY <2>1, <3>1
    <3> QED BY <3>2 DEF Due, Coming, WordOnItsWay
  <2>3. CASE missed' = missed \cup
               {p \in Queries : Names(e, p) /\ ~Coming(p) /\ Outdated(p)'}
    <3>1. Coming(q) \/ q \in missed'
      BY <1>8, <2>1, <2>3
    <3> QED BY <1>6, <3>1 DEF Due
  <2> QED BY <2>2, <2>3 DEF Change
<1>9. \A q : Followed(q)' <=> Followed(q)
  BY <1>1 DEF Followed, Waits, Cache
<1>10. \A q \in Queries : Due(q) => Due(q)'
  BY <1>6, <1>7, <1>9 DEF Due
<1>11. \A q \in Queries : q \notin S => (Behind(q)' <=> Behind(q))
  BY <1>3 DEF Behind
<1>12. ASSUME NEW q \in Queries, q \notin S, Alive(q)'
       PROVE  Alive(q) \/ (data'[q] # "stale" /\ ~Behind(q)')
  <2>1. CASE ~Alive(q)
    <3>1. q = l /\ kind = "added" /\ roster[l] = "later"
      BY <1>4, <1>12, <2>1 DEF Alive, Queries
    <3>2. data[q] # "stale" /\ fetch[q] # "old" /\ rpc[q] # "old"
      BY <3>1 DEF Copies, LaterIsUntouched
    <3> HIDE DEF S
    <3> QED BY <1>3, <1>12, <3>2 DEF Behind
  <2> QED BY <2>1
<1> HIDE DEF e, n
<1>13. StaleIsDue'
  <2> SUFFICES ASSUME NEW q \in Queries, Alive(q)', data'[q] = "stale",
                      fetch'[q] = "idle" \/ Behind(q)'
               PROVE  q \in invalid \/ Due(q)'
    BY <1>1 DEF StaleIsDue
  <2>1. CASE q \in S
    BY <1>8, <2>1 DEF Outdated
  <2>2. CASE q \notin S
    <3> HIDE DEF S
    <3>1. Alive(q) /\ data[q] = "stale"
      BY <1>3, <1>12, <2>2
    <3>2. fetch[q] = "idle" \/ Behind(q)
      BY <1>3, <1>11, <2>2
    <3> QED BY <1>10, <3>1, <3>2 DEF Copies, StaleIsDue
  <2> QED BY <2>1, <2>2
<1>14. OldIsDue'
  <2> SUFFICES ASSUME NEW q \in Queries, Alive(q)', Behind(q)'
               PROVE  Due(q)'
    BY DEF OldIsDue
  <2>1. CASE q \in S
    BY <1>8, <2>1 DEF Outdated
  <2>2. CASE q \notin S
    BY <1>10, <1>11, <1>12, <2>2 DEF Copies, OldIsDue
  <2> QED BY <2>1, <2>2
<1>15. LaterIsUntouched'
  <2> SUFFICES ASSUME NEW m \in Lights, roster'[m] = "later"
               PROVE  data'[m] # "stale" /\ fetch'[m] # "old" /\ rpc'[m] # "old"
    BY DEF LaterIsUntouched
  <2>1. roster[m] = "later" /\ m \in Queries /\ m \notin S
    BY <1>4, LightsAssumption DEF Queries
  <2> HIDE DEF S
  <2> QED BY <1>3, <2>1 DEF Copies, LaterIsUntouched
<1> HIDE DEF S
<1>16. ShownIsRead'
  <2>1. invalid \subseteq Queries
    BY CacheKeptIs DEF LiveIInv
  <2> QED BY <1>1, <1>3, <2>1 DEF Copies, ShownIsRead
<1> QED BY <1>13, <1>14, <1>15, <1>16 DEF Copies

(* The API reads a word: it is in the stream's buffer now, and what it may *)
(* have replaced there said no more of a light that is there.              *)
LEMMA DeliverCopies ==
    ASSUME LiveIInv, Words, Copies, Deliver
    PROVE  Copies'
<1> DEFINE e == Head(onStream)
           n == Len(onStream)
<1>1. UNCHANGED <<sub, conn, wire, source, previousGateway, roster, page, rpc,
                  cacheVars>>
  BY DEF Deliver, Notice, consoleVars
<1>deaf. CASE Console \notin listeners
  <2>1. Accounted
    BY <1>deaf, LosesIs DEF Deliver, LosesUnless
  <2> QED BY <1>1, <2>1, CopiesAside
<1>kept. missed' = missed \/ Console \notin listeners
  BY DEF Deliver, LosesUnless
<1> SUFFICES ASSUME Console \in listeners, NEW q \in Queries, Coming(q), Alive(q)
             PROVE  Coming(q)'
  BY <1>1, <1>deaf, <1>kept, CopiesAside DEF Accounted
<1>2. /\ n \in Nat \ {0}
      /\ DOMAIN onStream = 1..n
      /\ e = onStream[1] /\ e \in NoticeFrame
      /\ DOMAIN onStream' = 1..(n - 1)
      /\ \A i \in 1..(n - 1) : onStream'[i] = onStream[i + 1]
  <2>1. onStream # <<>> /\ onStream' = Tail(onStream) /\ onStream \in Seq(NoticeFrame)
    BY DEF Deliver, LiveIInv, RestTyped, StreamTyped
  <2> QED BY <2>1, HeadsAndTails
<1>3. /\ Console \in Browsers
      /\ dirty[Console] \in [Lights -> Kinds \cup {"clean"}]
      /\ e.light \in Lights
      /\ e.kind \in Kinds
      /\ e.kind # "clean"
  <2>1. e.light \in Lights /\ e.kind \in Kinds
    BY <1>2 DEF NoticeFrame
  <2> QED BY <2>1, ConsoleAssumption, KindsAssumption DEF LiveIInv, IInv, TypeOK
<1>4. Console \in listeners /\ conn[Console] = "open"
  BY <1>3 DEF LiveIInv, IInv, NothingOutlivesItsStream, Open
<1>5. dirty'[Console] = [dirty[Console] EXCEPT ![e.light] = e.kind]
  BY <1>3, <1>4 DEF Deliver, Notice
<1> HIDE DEF e, n
<1>6. /\ dirty'[Console][e.light] = e.kind
      /\ \A m \in Lights : m # e.light => dirty'[Console][m] = dirty[Console][m]
  BY <1>3, <1>5
<1>7. FullReadDue' <=> FullReadDue
  BY <1>1 DEF FullReadDue
<1>8. ASSUME NEW m \in Lights, dirty'[Console][m] # "clean",
             Names([light |-> m, kind |-> dirty'[Console][m]], q)
      PROVE  Coming(q)'
  BY <1>1, <1>4, <1>8 DEF Coming, WordOnItsWay, Framed
<1>9. ASSUME NEW i \in DOMAIN onStream, Names(onStream[i], q)
      PROVE  Coming(q)'
  <2>1. CASE i = 1
    <3>1. Names(e, q)
      BY <1>2, <1>9, <2>1
    <3>2. Names([light |-> e.light, kind |-> dirty'[Console][e.light]], q)
      BY <1>6, <3>1 DEF Names
    <3> QED BY <1>3, <1>6, <1>8, <3>2
  <2>2. CASE i # 1
    <3>1. i - 1 \in 1..(n - 1) /\ (i - 1) + 1 = i
      BY <1>2, <2>2
    <3>2. \E j \in DOMAIN onStream' : Names(onStream'[j], q)
      BY <1>2, <1>9, <3>1
    <3> QED BY <3>2 DEF Coming, WordOnItsWay
  <2> QED BY <2>1, <2>2
<1>10. ASSUME NEW m \in Framed(Console),
              Names([light |-> m, kind |-> dirty[Console][m]], q)
       PROVE  Coming(q)'
  <2>1. m \in Lights /\ dirty[Console][m] # "clean"
    BY DEF Framed
  <2>2. CASE m # e.light
    <3>1. dirty'[Console][m] = dirty[Console][m]
      BY <1>6, <2>1, <2>2
    <3> QED BY <1>8, <1>10, <2>1, <3>1
  <2>3. CASE m = e.light /\ q = "list"
    <3>1. Names([light |-> m, kind |-> dirty'[Console][m]], q)
      BY <2>3 DEF Names
    <3> QED BY <1>3, <1>6, <1>8, <2>3, <3>1
  <2>4. CASE m = e.light /\ q # "list"
    <3>1. q = m /\ roster[m] = "here"
      BY <1>10, <2>4 DEF Names, Alive
    <3>2. 1 \in DOMAIN onStream /\ onStream[1] = e
      BY <1>2
    <3>3. e.kind # "removed"
      BY <2>1, <2>4, <3>1, <3>2 DEF Words, Orderly, NoRemovedWord
    <3>4. e.kind # "added"
      BY <2>1, <2>4, <3>2 DEF Words, Orderly, AddedIsFirst
    <3>5. e.kind = "changed"
      BY <1>3, <3>3, <3>4, KindsAssumption
    <3>6. Names([light |-> e.light, kind |-> dirty'[Console][e.light]], q)
      BY <1>6, <2>4, <3>1, <3>5 DEF Names
    <3> QED BY <1>3, <1>6, <1>8, <3>6
  <2> QED BY <2>2, <2>3, <2>4
<1>11. ASSUME NEW i \in DOMAIN wire, wire[i] \in NoticeFrame, Names(wire[i], q)
       PROVE  Coming(q)'
  BY <1>1, <1>11 DEF Coming, WordOnItsWay
<1> QED
  BY <1>7, <1>9, <1>10, <1>11 DEF Coming, WordOnItsWay

(* Nothing that is coming is touched by a step at neither end of its way.  *)
LEMMA ComingStays ==
    ASSUME UNCHANGED <<conn, dirty, onStream, wire, source, previousGateway>>,
           sub' = "waiting" <=> sub = "waiting"
    PROVE  \A q : Coming(q)' <=> Coming(q)
<1>1. Framed(Console)' = Framed(Console)
  BY DEF Framed
<1>2. FullReadDue' <=> FullReadDue
  BY DEF FullReadDue
<1>3. \A q : WordOnItsWay(q)' <=> WordOnItsWay(q)
  BY <1>1 DEF WordOnItsWay
<1> QED BY <1>2, <1>3 DEF Coming

(* A subscription that ends takes what was on it along, for the record;    *)
(* one made again is no full read due any more, but if the stream has said *)
(* it was lost the Console has heard so or will.                           *)
LEMMA SubscriptionCopies ==
    ASSUME LiveIInv, Words, Copies, BySub \/ ByGap
    PROVE  Copies'
<1> USE DEF BySub, ByGap
<1>1. UNCHANGED <<conn, dirty, wire, source, previousGateway, roster, page, rpc,
                  cacheVars>>
  BY DEF GatewayLost, Reopen, Accepted, Ended, BySubscription, Resynced,
         FallBehind, Gap, streamVars, gatewayVars, consoleVars
<1> SUFFICES Accounted
  BY <1>1, CopiesAside
<1>2. CASE GatewayLost \/ Ended \/ FallBehind
  BY <1>2, LosesIs DEF GatewayLost, Ended, FallBehind
<1>3. CASE Reopen
  <2>1. CASE Open(Console) /\ lastSent[Console].gateway = "reconnecting"
    <3>1. OutageStands /\ source' = "open"
      BY <1>1, <2>1 DEF Words, SaidLast, ClosedIsGone, Open, LiveIInv, RestTyped,
         StreamTyped
    <3>2. FullReadDue'
      BY <1>1, <3>1 DEF OutageStands, FullReadDue
    <3>3. missed' = missed
      BY <1>3, <2>1 DEF Reopen, LosesUnless
    <3> QED BY <3>2, <3>3 DEF Accounted, Coming
  <2>2. CASE ~(Open(Console) /\ lastSent[Console].gateway = "reconnecting")
    BY <1>3, <2>2, LosesIs DEF Reopen, LosesUnless
  <2> QED BY <2>1, <2>2
<1>4. CASE Accepted \/ Resynced
  <2>1. UNCHANGED <<onStream, missed>>
    BY <1>4 DEF Accepted, Resynced, gatewayVars
  <2>2. sub' = "waiting" <=> sub = "waiting"
    BY <1>4 DEF Accepted, BySubscription, Accept, Resynced, Gap
  <2>3. \A q : Coming(q)' <=> Coming(q)
    BY <1>1, <2>1, <2>2, ComingStays
  <2> QED BY <2>1, <2>3 DEF Accounted
<1> QED BY <1>2, <1>3, <1>4

(* A flush writes every word there was in the buffer. *)
LEMMA FlushCopies ==
    ASSUME LiveIInv, Words, Copies, FlushToWire
    PROVE  Copies'
<1>1. UNCHANGED <<sub, source, previousGateway, onStream, roster, page, rpc,
                  missed, cacheVars>>
  BY DEF FlushToWire, FlushTimer, gatewayVars, consoleVars
<1> SUFFICES ASSUME NEW q \in Queries, Coming(q)
             PROVE  Coming(q)'
  BY <1>1, CopiesAside DEF Accounted
<1>2. \A i \in DOMAIN wire : i \in DOMAIN wire' /\ wire'[i] = wire[i]
  BY FlushedWire
<1>3. FullReadDue => FullReadDue'
  BY <1>1, <1>2 DEF FullReadDue
<1>4. ASSUME NEW l \in Framed(Console),
             Names([light |-> l, kind |-> dirty[Console][l]], q)
      PROVE  WordOnItsWay(q)'
  <2>1. PICK i \in DOMAIN wire' : wire'[i] = FrameOf(l)
    BY FlushedWire
  <2>2. FrameOf(l) \in NoticeFrame
    <3>1. Console \in Browsers /\ dirty \in [Browsers -> [Lights -> Kinds \cup {"clean"}]]
      BY ConsoleAssumption DEF LiveIInv, IInv, TypeOK
    <3> QED BY <3>1 DEF FrameOf, Framed, NoticeFrame
  <2> QED BY <1>4, <2>1, <2>2 DEF WordOnItsWay, FrameOf
<1>5. WordOnItsWay(q) => WordOnItsWay(q)'
  <2>1. (\E i \in DOMAIN onStream : Names(onStream[i], q)) => WordOnItsWay(q)'
    BY <1>1 DEF WordOnItsWay
  <2>2. (\E i \in DOMAIN wire : wire[i] \in NoticeFrame /\ Names(wire[i], q))
            => WordOnItsWay(q)'
    BY <1>2 DEF WordOnItsWay
  <2> QED BY <1>4, <2>1, <2>2 DEF WordOnItsWay
<1> QED BY <1>3, <1>5 DEF Coming

(* A stream that ends takes along what it had not written, and what was on *)
(* the wire if it broke, for the record; one that opens had nothing.       *)
LEMMA StreamsCopies ==
    ASSUME LiveIInv, Words, Copies, Opened \/ ByApi \/ ByBreak
    PROVE  Copies'
<1> USE DEF ByApi, ByBreak
<1>1. UNCHANGED <<roster, page, rpc, cacheVars>>
  BY DEF Opened, Ask, CookieExpires, EndedByApi, ServerClosed, Drop,
         TurnedAway, HearEnd, gatewayVars, consoleVars
<1> SUFFICES Accounted
  BY <1>1, CopiesAside
<1>2. CASE EndedByApi \/ Drop \/ TurnedAway
  BY <1>2, LosesIs DEF EndedByApi, Drop, TurnedAway
<1>3. CASE CookieExpires \/ ServerClosed \/ HearEnd
  <2>1. UNCHANGED <<sub, conn, dirty, onStream, wire, source, previousGateway, missed>>
    BY <1>3 DEF CookieExpires, ServerClosed, HearEnd, Expire, Closed, apiVars,
       streamVars, gatewayVars, consoleVars
  <2>2. \A q : Coming(q)' <=> Coming(q)
    BY <2>1, ComingStays
  <2> QED BY <2>1, <2>2 DEF Accounted
<1>4. CASE Ask \/ Opened
  <2>1. UNCHANGED <<sub, onStream, source, previousGateway, missed>>
    BY <1>4 DEF Ask, Opened, Connect, OpenStream, gatewayVars, consoleVars
  <2>2. conn[Console] # "open" /\ wire = <<>>
    BY <1>4 DEF Ask, Opened, Connect, OpenStream, Words, ArrivingIsEmpty
  <2>3. DOMAIN wire = {}
    BY <2>2
  <2>4. FullReadDue => FullReadDue'
    BY <2>1, <2>3 DEF FullReadDue
  <2>5. \A q : WordOnItsWay(q) => WordOnItsWay(q)'
    BY <2>1, <2>2, <2>3 DEF WordOnItsWay
  <2> QED BY <2>1, <2>4, <2>5 DEF Accounted, Coming
<1> QED BY <1>2, <1>3, <1>4

(* A frame heard: whatever it was the word of is handled, or waits to be.  *)
LEMMA HeardCopies ==
    ASSUME LiveIInv, Copies, NEW x \in Caches, Becomes(x), Follows(Cache, x),
           \A s : Waits(Cache, s) => Waits(x, s),
           UNCHANGED <<roster, page, data, errored, rpc, missed>>,
           \A q \in Queries : Coming(q) =>
              Coming(q)' \/ \E s \in Scopes : q \in s /\ Handled(x, s)
    PROVE  Copies'
<1>1. /\ fetch' = x.fetch /\ invalid' = x.invalid /\ followUps' = x.followUps
      /\ Cache.fetch = fetch /\ Cache.invalid = invalid
  BY DEF Becomes, Cache
<1>2. /\ fetch \in [Queries -> FetchStates]
      /\ invalid \subseteq Queries
      /\ x.invalid \subseteq Queries
  BY CacheKeptIs, CacheTyped DEF LiveIInv
<1>3. \A q \in Queries : \/ fetch'[q] = fetch[q]
                         \/ /\ q = page /\ fetch[q] = "idle"
                            /\ fetch'[q] = "asked"
  BY <1>1 DEF Follows
<1>4. \A s : Waits(Cache, s)' <=> Waits(x, s)
  BY <1>1 DEF Waits, Cache
<1>5. \A q \in Queries : Followed(q) => Followed(q)'
  BY <1>4 DEF Followed
<1>6. ASSUME NEW q \in Queries, NEW s \in Scopes, q \in s, Handled(x, s)
      PROVE  Followed(q)' \/ (q \in invalid' /\ ~Behind(q)')
  <2>1. CASE Waits(x, s)
    BY <1>4, <1>6, <2>1 DEF Followed
  <2>2. CASE \A r \in s : Marked(x, r)
    BY <1>1, <1>6, <2>2 DEF Marked, Behind
  <2> QED BY <1>6, <2>1, <2>2 DEF Handled
<1>7. \A q : Alive(q)' <=> Alive(q)
  BY DEF Alive
<1>8. ASSUME NEW q \in Queries, Due(q)
      PROVE  Due(q)' \/ (q \in invalid' /\ ~Behind(q)')
  BY <1>5, <1>6, <1>8 DEF Due
<1>9. \A q \in Queries : Behind(q)' => Behind(q)
  BY <1>3 DEF Behind
<1>10. LaterIsUntouched'
  <2>1. \A l \in Lights : l \in Queries
    BY DEF Queries
  <2> QED BY <1>3, <2>1 DEF Copies, LaterIsUntouched
<1>11. ShownIsRead'
  <2> SUFFICES ASSUME NEW q \in invalid', page = q
               PROVE  fetch'[q] # "idle" \/ q \in errored
    BY DEF ShownIsRead
  <2>1. CASE q \in invalid
    BY <1>2, <1>3, <2>1 DEF Copies, ShownIsRead
  <2>2. CASE q \notin invalid
    BY <1>1, <2>2 DEF Follows
  <2> QED BY <2>1, <2>2
<1>12. StaleIsDue'
  <2> SUFFICES ASSUME NEW q \in Queries, Alive(q), data[q] = "stale",
                      fetch'[q] = "idle" \/ Behind(q)'
               PROVE  q \in invalid' \/ Due(q)'
    BY <1>7 DEF StaleIsDue
  <2>1. fetch[q] = "idle" \/ Behind(q)
    BY <1>3, <1>9
  <2>2. q \in invalid \/ Due(q)
    BY <2>1 DEF Copies, StaleIsDue
  <2>3. q \in invalid => q \in invalid'
    BY <1>1 DEF Follows
  <2> QED BY <1>8, <2>2, <2>3
<1>13. OldIsDue'
  <2> SUFFICES ASSUME NEW q \in Queries, Alive(q), Behind(q)'
               PROVE  Due(q)'
    BY <1>7 DEF OldIsDue
  <2>1. Due(q)
    BY <1>9 DEF Copies, OldIsDue
  <2> QED BY <1>8, <2>1
<1> QED BY <1>10, <1>11, <1>12, <1>13 DEF Copies

LEMMA HearOfLightCopies ==
    ASSUME LiveIInv, Copies, HearOfLight
    PROVE  Copies'
<1> DEFINE e == Head(wire)
           n == Len(wire)
           x == IF e.kind = "changed" THEN InvalidateLight(Cache, e.light)
                                      ELSE RaceAware(Cache, One("list"))
<1>1. /\ UNCHANGED <<sub, conn, dirty, source, roster, onStream,
                     previousGateway, page, data, errored, rpc, missed>>
      /\ Becomes(x)
  BY DEF HearOfLight, apiVars, streamVars, gatewayVars
<1>2. /\ n \in Nat \ {0}
      /\ DOMAIN wire = 1..n
      /\ e = wire[1] /\ e \in NoticeFrame
      /\ DOMAIN wire' = 1..(n - 1)
      /\ \A i \in 1..(n - 1) : wire'[i] = wire[i + 1]
  <2>1. wire # <<>> /\ wire' = Tail(wire) /\ e \in NoticeFrame
        /\ wire \in Seq(NoticeFrame \cup StatusFrame)
    BY DEF HearOfLight, LiveIInv, RestTyped, StreamTyped
  <2> QED BY <2>1, HeadsAndTails
<1>3. e.light \in Lights /\ e.kind \in Kinds
  BY <1>2 DEF NoticeFrame
<1> HIDE DEF e, n
<1>4. Cache \in Caches /\ WellKept(Cache)
  BY DEF LiveIInv, CacheKept
<1>5. /\ x \in Caches /\ Follows(Cache, x)
      /\ \A s : Waits(Cache, s) => Waits(x, s)
      /\ Handled(x, One("list"))
      /\ e.kind = "changed" => Handled(x, One(e.light))
  <2>1. CASE e.kind = "changed"
    BY <1>3, <1>4, <2>1, InvalidateLightIs
  <2>2. CASE e.kind # "changed"
    BY <1>4, <2>2, OneIs, RaceAwareIs DEF Handles
  <2> QED BY <2>1, <2>2
<1> HIDE DEF x
<1>6. \A i \in DOMAIN wire : i = 1 \/ \E j \in DOMAIN wire' : wire'[j] = wire[i]
  <2> SUFFICES ASSUME NEW i \in DOMAIN wire, i # 1
               PROVE  \E j \in DOMAIN wire' : wire'[j] = wire[i]
    OBVIOUS
  <2>1. i - 1 \in 1..(n - 1) /\ (i - 1) + 1 = i
    BY <1>2
  <2> QED BY <1>2, <2>1
<1>7. ASSUME NEW q \in Queries, Coming(q)
      PROVE  Coming(q)' \/ \E s \in Scopes : q \in s /\ Handled(x, s)
  <2>1. FullReadDue => FullReadDue'
    <3>1. wire[1] # Outage
      BY <1>2, FramesDiffer DEF StatusFrame, Outage
    <3> QED BY <1>1, <1>6, <3>1 DEF FullReadDue
  <2>2. CASE \E i \in DOMAIN onStream : Names(onStream[i], q)
    BY <1>1, <2>2 DEF Coming, WordOnItsWay
  <2>3. CASE /\ conn[Console] = "open"
             /\ \E l \in Framed(Console) :
                    Names([light |-> l, kind |-> dirty[Console][l]], q)
    BY <1>1, <2>3 DEF Coming, WordOnItsWay, Framed
  <2>4. ASSUME NEW i \in DOMAIN wire, wire[i] \in NoticeFrame, Names(wire[i], q)
        PROVE  Coming(q)' \/ \E s \in Scopes : q \in s /\ Handled(x, s)
    <3>1. CASE i = 1
      <4>1. q = "list" \/ (q = e.light /\ e.kind = "changed")
        BY <1>2, <2>4, <3>1 DEF Names
      <4>2. q \in One(q) /\ One(q) \in Scopes
        BY DEF One, Scopes
      <4> QED BY <1>5, <4>1, <4>2
    <3>2. CASE i # 1
      BY <1>6, <2>4, <3>2 DEF Coming, WordOnItsWay
    <3> QED BY <3>1, <3>2
  <2> QED BY <1>7, <2>1, <2>2, <2>3, <2>4 DEF Coming, WordOnItsWay
<1> QED BY <1>1, <1>5, <1>7, HeardCopies

(* A status heard: an outage heard of before is over only with everything  *)
(* handled.                                                                *)
LEMMA HearStatusCopies ==
    ASSUME LiveIInv, Copies, HearStatus
    PROVE  Copies'
<1> DEFINE e == Head(wire)
           n == Len(wire)
           over == previousGateway = "reconnecting" /\ e.gateway = "connected"
           x == IF over THEN RaceAware(Cache, Everything) ELSE Cache
<1>1. /\ UNCHANGED <<sub, conn, dirty, source, roster, onStream, page, data, errored,
                     rpc, missed>>
      /\ previousGateway' = e.gateway
      /\ Becomes(x)
  BY DEF HearStatus, apiVars, streamVars, gatewayVars
<1>2. /\ n \in Nat \ {0}
      /\ DOMAIN wire = 1..n
      /\ e = wire[1] /\ e \in StatusFrame
      /\ DOMAIN wire' = 1..(n - 1)
      /\ \A i \in 1..(n - 1) : wire'[i] = wire[i + 1]
  <2>1. wire # <<>> /\ wire' = Tail(wire) /\ e \in StatusFrame
        /\ wire \in Seq(NoticeFrame \cup StatusFrame)
    BY DEF HearStatus, LiveIInv, RestTyped, StreamTyped
  <2> QED BY <2>1, HeadsAndTails
<1>3. e.gateway \in {"connected", "reconnecting"}
  BY <1>2 DEF StatusFrame
<1> HIDE DEF e, n
<1>4. Cache \in Caches /\ WellKept(Cache)
  BY DEF LiveIInv, CacheKept
<1>5. /\ x \in Caches /\ Follows(Cache, x)
      /\ \A s : Waits(Cache, s) => Waits(x, s)
      /\ over => Handled(x, Everything)
  <2>1. CASE over
    BY <1>4, <2>1, OneIs, RaceAwareIs DEF Handles
  <2>2. CASE ~over
    BY <1>4, <2>2 DEF Follows
  <2> QED BY <2>1, <2>2
<1> HIDE DEF x
<1>6. \A i \in DOMAIN wire : i = 1 \/ \E j \in DOMAIN wire' : wire'[j] = wire[i]
  <2> SUFFICES ASSUME NEW i \in DOMAIN wire, i # 1
               PROVE  \E j \in DOMAIN wire' : wire'[j] = wire[i]
    OBVIOUS
  <2>1. i - 1 \in 1..(n - 1) /\ (i - 1) + 1 = i
    BY <1>2
  <2> QED BY <1>2, <2>1
<1>7. ASSUME NEW q \in Queries, Coming(q)
      PROVE  Coming(q)' \/ \E s \in Scopes : q \in s /\ Handled(x, s)
  <2>1. CASE over
    BY <1>5, <2>1, OneIs DEF Everything
  <2>2. CASE ~over /\ FullReadDue
    <3>1. CASE sub = "waiting"
      BY <1>1, <2>2, <3>1 DEF Coming, FullReadDue
    <3>2. CASE previousGateway = "reconnecting"
      BY <1>1, <1>3, <2>2, <3>2 DEF Coming, FullReadDue
    <3>3. ASSUME NEW i \in DOMAIN wire, wire[i] = Outage
          PROVE  Coming(q)'
      <4>1. CASE i = 1
        BY <1>1, <1>2, <2>2, <3>3, <4>1 DEF Coming, FullReadDue, Outage
      <4>2. CASE i # 1
        BY <1>1, <1>6, <2>2, <3>3, <4>2 DEF Coming, FullReadDue
      <4> QED BY <4>1, <4>2
    <3> QED BY <2>2, <3>1, <3>2, <3>3 DEF FullReadDue
  <2>3. CASE WordOnItsWay(q)
    <3>1. wire[1] \notin NoticeFrame
      BY <1>2, FramesDiffer
    <3>2. Framed(Console)' = Framed(Console)
      BY <1>1 DEF Framed
    <3> QED BY <1>1, <1>6, <2>3, <3>1, <3>2 DEF Coming, WordOnItsWay
  <2> QED BY <1>7, <2>1, <2>2, <2>3 DEF Coming
<1> QED BY <1>1, <1>5, <1>7, HeardCopies

(* Reads set going, joined to an RPC, answered or refused: one that is     *)
(* answered with less than has happened was told so, or is on record.      *)
LEMMA ReadsCopies ==
    ASSUME LiveIInv, Copies,
           UNCHANGED <<roster, data, invalid, errored, followUps>>,
           missed \subseteq missed',
           \A q \in Queries : Coming(q) => Coming(q)',
           \A q \in Queries : fetch'[q] = "idle" => fetch[q] = "idle",
           \A q \in Queries : Behind(q)' => Behind(q) \/ Coming(q) \/ q \in missed',
           \A q \in Queries : fetch'[q] = "old" \/ rpc'[q] = "old" =>
                                  fetch[q] = "old" \/ rpc[q] = "old",
           ShownIsRead'
    PROVE  Copies'
<1>1. \A q : (Followed(q)' <=> Followed(q)) /\ (Alive(q)' <=> Alive(q))
  BY DEF Followed, Waits, Cache, Alive
<1>2. \A q \in Queries : Due(q) => Due(q)'
  BY <1>1 DEF Due
<1>3. ASSUME NEW q \in Queries, Alive(q), Behind(q)' PROVE Due(q)'
  BY <1>2, <1>3 DEF Copies, OldIsDue, Due
<1>4. StaleIsDue'
  <2> SUFFICES ASSUME NEW q \in Queries, Alive(q), data[q] = "stale",
                      fetch'[q] = "idle" \/ Behind(q)'
               PROVE  q \in invalid \/ Due(q)'
    BY <1>1 DEF StaleIsDue
  <2> QED BY <1>2, <1>3 DEF Copies, StaleIsDue
<1>5. OldIsDue'
  BY <1>1, <1>3 DEF OldIsDue
<1>6. LaterIsUntouched'
  <2>1. \A l \in Lights : l \in Queries
    BY DEF Queries
  <2> QED BY <2>1 DEF Copies, LaterIsUntouched
<1> QED BY <1>4, <1>5, <1>6 DEF Copies

LEMMA PagesCopies ==
    ASSUME LiveIInv, Copies, (\E q \in Queries : Visit(q)) \/ Focus
    PROVE  Copies'
<1>1. UNCHANGED <<apiVars, roster, onStream, wire, rpc, source, previousGateway,
                  data, invalid, errored, followUps, missed>>
  BY DEF Visit, Focus, apiVars, gatewayVars
<1>2. /\ fetch \in [Queries -> FetchStates]
      /\ invalid \subseteq Queries
  BY CacheKeptIs DEF LiveIInv
<1>3. \A q \in Queries :
         fetch'[q] = fetch[q] \/ (fetch[q] = "idle" /\ fetch'[q] = "asked")
  BY <1>2 DEF Visit, Focus
<1>4. \A q : Coming(q)' <=> Coming(q)
  BY <1>1, ComingStays DEF apiVars, streamVars
<1>5. \A q \in Queries : Behind(q)' => Behind(q)
  BY <1>1, <1>3 DEF Behind
<1>6. ShownIsRead'
  <2> SUFFICES ASSUME NEW q \in invalid, page' = q
               PROVE  fetch'[q] # "idle" \/ q \in errored
    BY <1>1 DEF ShownIsRead
  <2>1. CASE page' = page
    BY <1>2, <1>3, <2>1 DEF Copies, ShownIsRead
  <2>2. CASE page' # page
    <3>1. Visit(q)
      BY <2>2 DEF Visit, Focus
    <3> QED BY <1>2, <3>1 DEF Visit
  <2> QED BY <2>1, <2>2
<1> QED BY <1>1, <1>3, <1>4, <1>5, <1>6, ReadsCopies

LEMMA RpcCopies ==
    ASSUME LiveIInv, Copies, NEW p \in Queries, ByRpc(p)
    PROVE  Copies'
<1> USE DEF ByRpc
<1>1. ReadAside /\ UNCHANGED <<data, invalid, errored, followUps>>
  BY DEF Join, OthersAsk, Sample, RpcAnswers, RpcFails, RpcEnds, cacheVars
<1>2. /\ fetch \in [Queries -> FetchStates]
      /\ rpc \in [Queries -> RpcStates]
      /\ invalid \subseteq Queries
  BY CacheKeptIs DEF LiveIInv, RestTyped, ReadsTyped
<1>3. \A q : Coming(q)' <=> Coming(q)
  BY <1>1, ComingStays DEF ReadAside, apiVars, streamVars, gatewayVars
<1>4. \A q \in Queries \ {p} : fetch'[q] = fetch[q] /\ rpc'[q] = rpc[q]
  BY <1>2 DEF Join, OthersAsk, Sample, RpcAnswers, RpcFails, RpcEnds, cacheVars
<1>5. /\ fetch'[p] = "idle" => fetch[p] = "idle"
      /\ fetch[p] = "idle" => fetch'[p] = "idle"
      /\ fetch'[p] = "old" \/ rpc'[p] = "old" => fetch[p] = "old" \/ rpc[p] = "old"
      /\ Behind(p)' => Behind(p) \/ Coming(p) \/ p \in missed'
      /\ missed \subseteq missed'
  <2>1. CASE Join(p)
    BY <1>2, <2>1 DEF Join, Behind
  <2>2. CASE OthersAsk(p) \/ Sample(p)
    BY <1>2, <2>2 DEF OthersAsk, Sample, Behind, cacheVars
  <2>3. CASE RpcAnswers(p)
    BY <1>2, <2>3 DEF RpcAnswers, RpcEnds, Behind
  <2>4. CASE RpcFails(p)
    BY <1>2, <2>4 DEF RpcFails, RpcEnds, Behind
  <2> QED BY <2>1, <2>2, <2>3, <2>4
<1>6. ShownIsRead'
  <2>1. page' = page
    BY <1>1 DEF ReadAside
  <2>2. \A q \in Queries : fetch[q] # "idle" => fetch'[q] # "idle"
    BY <1>4, <1>5
  <2> QED BY <1>1, <1>2, <2>1, <2>2 DEF Copies, ShownIsRead
<1>7. UNCHANGED roster
  BY <1>1 DEF ReadAside, gatewayVars
<1>8. \A q \in Queries : Behind(q)' => Behind(q) \/ Coming(q) \/ q \in missed'
  BY <1>4, <1>5 DEF Behind
<1>9. \A q \in Queries : /\ fetch'[q] = "idle" => fetch[q] = "idle"
                         /\ fetch'[q] = "old" \/ rpc'[q] = "old" =>
                                fetch[q] = "old" \/ rpc[q] = "old"
  BY <1>4, <1>5
<1> QED BY <1>1, <1>3, <1>5, <1>6, <1>7, <1>8, <1>9, ReadsCopies

(* A read that ends: what waited on it has been told, and if it shows what *)
(* happened the copy does, or else word of it was coming already.          *)
LEMMA SettledCopies ==
    ASSUME LiveIInv, Copies, NEW p \in Queries, Answer(p) \/ Refused(p) \/ Fail(p)
    PROVE  Copies'
<1> DEFINE marks == IF Answer(p) THEN invalid \ {p} ELSE invalid \cup {p}
           c == [Cache EXCEPT !.fetch[p] = "idle", !.invalid = marks]
           x == Told(c)
<1>1. /\ UNCHANGED <<apiVars, roster, onStream, wire, source, previousGateway, page, rpc>>
      /\ fetch[p] # "idle"
  BY DEF Answer, Refused, Fail, ReadFails, ReadAside, apiVars, gatewayVars
<1>2. /\ fetch \in [Queries -> FetchStates]
      /\ invalid \subseteq Queries
      /\ Cache \in Caches
      /\ data \in [Queries -> {"none", "fresh", "stale"}]
  BY CacheKeptIs DEF LiveIInv, CacheKept, RestTyped, ReadsTyped
<1>3. Becomes(x)
  <2>1. CASE Answer(p)
    <3>1. [Cache EXCEPT !.fetch[p] = "idle", !.invalid = @ \ {p}] = c
      BY <2>1 DEF Cache
    <3> QED BY <2>1, <3>1 DEF Answer
  <2>2. CASE ~Answer(p)
    <3>1. [Cache EXCEPT !.fetch[p] = "idle", !.invalid = @ \cup {p}] = c
      BY <2>2 DEF Cache
    <3> QED BY <2>2, <3>1 DEF Refused, Fail, ReadFails
  <2> QED BY <2>1, <2>2
<1>4. marks \in SUBSET Queries
  BY <1>2
<1> HIDE DEF marks
<1>5. /\ c \in Caches
      /\ c.followUps = followUps
      /\ c.invalid = marks
      /\ c.fetch = [fetch EXCEPT ![p] = "idle"]
  BY <1>2, <1>4 DEF Cache, Caches, FetchStates
<1> HIDE DEF c
<1>6. \A i, j \in DOMAIN followUps : followUps[i] = followUps[j] => i = j
  BY CacheKeptIs DEF IsInjective, LiveIInv
<1>7. /\ x \in Caches /\ Follows(c, x)
      /\ \A s : Waits(c, s) => Handled(x, s)
  BY <1>5, <1>6, ToldIs
<1> HIDE DEF x
<1>8. /\ fetch' = x.fetch /\ invalid' = x.invalid /\ followUps' = x.followUps
      /\ x.invalid \subseteq Queries
  BY <1>3, <1>7, CacheTyped DEF Becomes
<1>9. \A q \in Queries \ {p} : \/ fetch'[q] = fetch[q]
                               \/ q = page /\ fetch[q] = "idle" /\ fetch'[q] = "asked"
  BY <1>2, <1>5, <1>7, <1>8 DEF Follows
<1>10. fetch'[p] \in {"idle", "asked"}
  BY <1>2, <1>5, <1>7, <1>8 DEF Follows
<1>11. marks \subseteq invalid'
  BY <1>5, <1>7, <1>8 DEF Follows
<1>12. \A q \in Queries \ {p} :
          data'[q] = data[q] /\ (q \in errored' <=> q \in errored)
  BY <1>2 DEF Answer, Refused, Fail, ReadFails
<1>13. \A s : (Waits(Cache, s) <=> Waits(c, s)) /\ (Waits(Cache, s)' <=> Waits(x, s))
  BY <1>5, <1>8 DEF Waits, Cache
<1>14. ASSUME NEW q \in Queries, Followed(q)
       PROVE  Followed(q)' \/ (q \in invalid' /\ ~Behind(q)')
  <2>1. PICK s \in Scopes : Waits(Cache, s) /\ q \in s
    BY <1>14 DEF Followed
  <2>2. Handled(x, s)
    BY <1>7, <1>13, <2>1
  <2>3. CASE Waits(x, s)
    BY <1>13, <2>1, <2>3 DEF Followed
  <2>4. CASE \A r \in s : Marked(x, r)
    BY <1>8, <2>1, <2>4 DEF Marked, Behind
  <2> QED BY <2>2, <2>3, <2>4 DEF Handled
<1>15. \A q : (Coming(q)' <=> Coming(q)) /\ (Alive(q)' <=> Alive(q))
  BY <1>1, ComingStays DEF apiVars, streamVars, Alive
<1>16. \A q \in Queries : Behind(q)' => q # p /\ Behind(q)
  BY <1>1, <1>9, <1>10 DEF Behind
<1>17. \A q \in Queries \ {p} : q \in invalid => q \in marks
  BY DEF marks
<1>18. LaterIsUntouched'
  <2> SUFFICES ASSUME NEW l \in Lights, roster[l] = "later"
               PROVE  data'[l] # "stale" /\ fetch'[l] # "old" /\ rpc'[l] # "old"
    BY <1>1 DEF LaterIsUntouched
  <2>1. l \in Queries /\ data[l] # "stale" /\ fetch[l] # "old" /\ rpc[l] # "old"
    BY DEF Queries, Copies, LaterIsUntouched
  <2>2. CASE l # p
    BY <1>1, <1>9, <1>12, <2>1, <2>2
  <2>3. CASE l = p
    <3>1. data'[p] # "stale"
      BY <1>2, <2>1, <2>3 DEF Answer, Refused, Fail, ReadFails
    <3> QED BY <1>1, <1>10, <2>1, <2>3, <3>1
  <2> QED BY <2>2, <2>3
<1>19. \A q \in Queries : Due(q) =>
          \/ Due(q)' \/ (q \in invalid' /\ ~Behind(q)')
          \/ q = p /\ data'[p] # "stale"
  <2>1. \A q \in missed : q \in missed' \/ (q = p /\ data'[p] # "stale")
    BY <1>2 DEF Answer, Refused, Fail, ReadFails
  <2> QED BY <1>14, <1>15, <2>1 DEF Due
<1>20. ShownIsRead'
  <2> SUFFICES ASSUME NEW q \in invalid', page = q
               PROVE  fetch'[q] # "idle" \/ q \in errored'
    BY <1>1 DEF ShownIsRead
  <2>1. q \in Queries
    BY <1>8
  <2>2. CASE q \notin marks
    BY <1>5, <1>7, <1>8, <2>2 DEF Follows
  <2>3. CASE q \in marks /\ q # p
    <3>1. q \in invalid
      BY <2>3 DEF marks
    <3> QED BY <1>9, <1>12, <2>1, <2>3, <3>1 DEF Copies, ShownIsRead
  <2>4. CASE q \in marks /\ q = p
    <3>1. ReadFails(p)
      BY <2>4 DEF marks, Refused, Fail
    <3> QED BY <2>4, <3>1 DEF ReadFails
  <2> QED BY <2>2, <2>3, <2>4
<1>21. StaleIsDue'
  <2> SUFFICES ASSUME NEW q \in Queries, Alive(q), data'[q] = "stale",
                      fetch'[q] = "idle" \/ Behind(q)'
               PROVE  q \in invalid' \/ Due(q)'
    BY <1>15 DEF StaleIsDue
  <2>1. CASE q # p
    <3>1. data[q] = "stale" /\ (fetch[q] = "idle" \/ Behind(q))
      BY <1>9, <1>12, <1>16, <2>1
    <3>2. q \in invalid \/ Due(q)
      BY <3>1 DEF Copies, StaleIsDue
    <3> QED BY <1>11, <1>17, <1>19, <2>1, <3>2
  <2>2. CASE q = p /\ Answer(p)
    <3>1. Behind(p)
      BY <1>2, <2>2 DEF Answer, Behind
    <3>2. Due(q)
      BY <2>2, <3>1 DEF Copies, OldIsDue
    <3> QED BY <1>19, <2>2, <3>2
  <2>3. CASE q = p /\ ~Answer(p)
    <3>1. p \in marks
      BY <2>3 DEF marks
    <3> QED BY <1>11, <2>3, <3>1
  <2> QED BY <2>1, <2>2, <2>3
<1>22. OldIsDue'
  <2> SUFFICES ASSUME NEW q \in Queries, Alive(q), Behind(q)'
               PROVE  Due(q)'
    BY <1>15 DEF OldIsDue
  <2>1. q # p /\ Behind(q)
    BY <1>16
  <2>2. Due(q)
    BY <2>1 DEF Copies, OldIsDue
  <2> QED BY <1>19, <2>1, <2>2
<1> QED BY <1>18, <1>20, <1>21, <1>22 DEF Copies

LEMMA LiveNextCopies ==
    ASSUME LiveIInv, Words, Copies, [LiveNext]_llVars
    PROVE  Copies'
<1>1. ASSUME NEW l \in Lights, NEW kind \in Kinds, Change(l, kind)
      PROVE  Copies'
  BY <1>1, ChangeCopies
<1>2. CASE Deliver
  BY <1>2, DeliverCopies
<1>3. CASE BySub \/ ByGap
  BY <1>3, SubscriptionCopies
<1>4. CASE FlushToWire
  BY <1>4, FlushCopies
<1>5. CASE Opened \/ ByApi \/ ByBreak
  BY <1>5, StreamsCopies
<1>6. CASE HearOfLight
  BY <1>6, HearOfLightCopies
<1>7. CASE HearStatus
  BY <1>7, HearStatusCopies
<1>8. ASSUME NEW q \in Queries, Answer(q) \/ Refused(q) \/ Fail(q)
      PROVE  Copies'
  BY <1>8, SettledCopies
<1>9. ASSUME NEW q \in Queries, ByRpc(q)
      PROVE  Copies'
  BY <1>9, RpcCopies
<1>10. CASE (\E q \in Queries : Visit(q)) \/ Focus
  BY <1>10, PagesCopies
<1>11. CASE UNCHANGED llVars
  <2>1. UNCHANGED <<sub, conn, dirty, onStream, wire, source, previousGateway,
                    roster, page, rpc, missed, cacheVars>>
    BY <1>11 DEF llVars, apiVars, streamVars, gatewayVars, consoleVars
  <2>2. \A q : Coming(q)' <=> Coming(q)
    BY <2>1, ComingStays
  <2>3. Accounted
    BY <2>1, <2>2 DEF Accounted
  <2> QED BY <2>1, <2>3, CopiesAside
<1> QED
  BY <1>1, <1>2, <1>3, <1>4, <1>5, <1>6, <1>7, <1>8, <1>9, <1>10, <1>11
     DEF LiveNext, BySub, ByGap, ByApi, ByBreak, ByRpc

(* Every reachable state satisfies the invariant, whatever is lost. *)
THEOREM RepairInvariant == LiveSpec => [](LiveIInv /\ Words /\ Copies)
<1>1. LiveInit => LiveIInv /\ Words /\ Copies
  BY LiveInitIInv, LiveInitWords, LiveInitCopies
<1>2. LiveIInv /\ Words /\ Copies /\ [LiveNext]_llVars
          => (LiveIInv /\ Words /\ Copies)'
  BY LiveNextIInv, LiveNextWords, LiveNextCopies
<1> QED BY <1>1, <1>2, PTL DEF LiveSpec

(* A copy on screen that misses something is never just left there, unless *)
(* a word of it was lost or its read was answered with less than was asked *)
(* for: openEventStream, onLightNotice and raceAwareInvalidate between     *)
(* them have the read that will show it under way, waiting, or due at a    *)
(* word still on its way.                                                  *)
THEOREM NothingStaleIsLeft == LiveSpec => []StaleIsBeingRepaired
<1>1. LiveIInv /\ Words /\ Copies => StaleIsBeingRepaired
  <2> SUFFICES ASSUME LiveIInv, Copies, NEW q \in Queries, Misleads(q),
                      fetch[q] = "idle" \/ Behind(q)
               PROVE  Due(q)
    BY FollowedIs DEF StaleIsBeingRepaired, Repairing, Due, LiveIInv
  <2>1. Alive(q) /\ data[q] = "stale" /\ page = q /\ q \notin errored
    BY DEF Misleads, Alive
  <2>2. q \in invalid \/ Due(q)
    BY <2>1 DEF Copies, StaleIsDue
  <2>3. CASE q \in invalid
    <3>1. fetch[q] # "idle"
      BY <2>1, <2>3 DEF Copies, ShownIsRead
    <3> QED BY <2>1, <3>1 DEF Copies, OldIsDue
  <2> QED BY <2>2, <2>3
<1> QED BY <1>1, RepairInvariant, PTL

(* Nor will one nobody is looking at be shown as it is, under the same     *)
(* exception.                                                              *)
THEOREM NothingStaleIsShown == LiveSpec => []StaleIsMarked
<1>1. LiveIInv /\ Words /\ Copies => StaleIsMarked
  <2> SUFFICES ASSUME LiveIInv, Copies, NEW q \in Queries, data[q] = "stale",
                      Alive(q), fetch[q] = "idle" \/ Behind(q)
               PROVE  q \in invalid \/ Due(q)
    BY FollowedIs DEF StaleIsMarked, Repairing, Due, LiveIInv, Alive
  <2> QED BY DEF Copies, StaleIsDue
<1> QED BY <1>1, RepairInvariant, PTL
=============================================================================
