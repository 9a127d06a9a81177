------------------------- MODULE UpdateLight_proofs -------------------------
(***************************************************************************)
(* What holds of Commands for any instances, pages, lights and Commands,   *)
(* any number of commits, and pages left and returned to at any time: the  *)
(* types, the slider's policy within a visit, what becomes of the last     *)
(* commit, and what a Pending Command means and waits for.                 *)
(***************************************************************************)
EXTENDS UpdateLight, TLAPS

-----------------------------------------------------------------------------
(* The invariant, its parts over any sequence of PATCHes: within one step  *)
(* a PATCH settles and the next is fired after it.                         *)

(* What a PATCH's stage and reply say of each other. *)
Agrees(x) ==
    /\ x.stage = "travelling" => x.reply = "none"
    /\ x.stage = "acted" => x.reply \in Outcomes
    /\ x.stage = "lost" => x.reply \in {"outcome_unknown", "error"}
    /\ x.stage = "settled" => x.reply # "none"

OutstandingIn(ps, p) == ps[p].stage \in {"travelling", "acted"}

IsLastOf(ps, p, l) ==
    /\ p \in DOMAIN ps /\ ps[p].light = l
    /\ \A q \in DOMAIN ps : ps[q].light = l => q <= p

(* An instance that observes a PATCH is on screen, fired it there, fired   *)
(* none after it, and has its key taken exactly while it is outstanding;   *)
(* what it holds is what was committed last.                               *)
Observer(ps, i) ==
    /\ observing[i] = 0 => slot[i] = Free
    /\ observing[i] # 0 =>
          /\ i \in mounted /\ observing[i] > since
          /\ IsLastOf(ps, observing[i], LightOf[i])
          /\ slot[i] # Free <=> OutstandingIn(ps, observing[i])
    /\ slot[i] \in Commands => wanted[LightOf[i]] = slot[i]

(* An outstanding PATCH of this visit is observed. *)
Observed(ps, p) ==
    OutstandingIn(ps, p) /\ p > since => \E i \in Instances : observing[i] = p

(* What was committed last was fired last, or dropped, or is held by the   *)
(* instance that observes what was fired last.                             *)
Committed(ps, l) ==
    wanted[l] # Free =>
        \E p \in DOMAIN ps :
            /\ IsLastOf(ps, p, l)
            /\ \/ ps[p].command = wanted[l]
               \/ l \in dropped
               \/ \E i \in Instances : observing[i] = p /\ slot[i] = wanted[l]

(* While no PATCH for a light was given up on, and the last was fired with *)
(* none outstanding, those before it are settled, and if it is a success   *)
(* it is what the light did last.                                          *)
NoneLost(ps, l) ==
    \A q \in DOMAIN ps :
        ps[q].light = l => ps[q].reply \in Outcomes \cup {"none"}

Follows(ps, l) ==
    l \notin crossing /\ NoneLost(ps, l) =>
        \A p \in DOMAIN ps : IsLastOf(ps, p, l) =>
            /\ \A q \in DOMAIN ps :
                  ps[q].light = l /\ q < p => ps[q].stage = "settled"
            /\ ps[p].reply = "success" => lamp[l] = p

(* What a Pending Command waits for, by what became of its PATCH. *)
Awaits(ps, l) ==
    \/ ps[pending[l]].stage = "travelling"
    \/ ps[pending[l]].stage = "acted" /\ ps[pending[l]].reply # "success"
    \/ l \in due \/ reading[l] = "newer" \/ l \in forlorn

PendingFits(ps, l) ==
    pending[l] # 0 =>
        /\ ps[pending[l]].light = l
        /\ pending[l] > since /\ ~OutstandingIn(ps, pending[l]) =>
              ps[pending[l]].reply = "success"
        /\ Awaits(ps, l)

Policy ==
    /\ mounted \in Pages \cup {{}}
    /\ \A p \in Numbers : Agrees(patches[p]) /\ Observed(patches, p)
    /\ \A i \in Instances : Observer(patches, i)
    /\ \A l \in Lights : /\ Committed(patches, l)
                         /\ Follows(patches, l)
                         /\ PendingFits(patches, l)

-----------------------------------------------------------------------------
(* The sequence of PATCHes *)

LEMMA PatchesAre ==
    ASSUME NEW ps \in Seq(Patch)
    PROVE  /\ Len(ps) \in Nat
           /\ DOMAIN ps = 1..Len(ps)
           /\ \A p \in DOMAIN ps : ps[p] \in Patch
OBVIOUS

(* One more is fired. *)
LEMMA PatchAdded ==
    ASSUME NEW ps \in Seq(Patch), NEW i \in Instances, NEW c \in Commands
    PROVE  LET qs == WithPatch(ps, i, c)
               n == Len(ps) + 1
           IN  /\ qs \in Seq(Patch)
               /\ Len(qs) = n
               /\ DOMAIN qs = 1..n
               /\ \A p \in 1..Len(ps) : qs[p] = ps[p]
               /\ qs[n].light = LightOf[i] /\ qs[n].command = c
               /\ qs[n].stage = "travelling" /\ qs[n].reply = "none"
<1> DEFINE x == [light |-> LightOf[i], command |-> c, stage |-> "travelling",
                 reply |-> "none"]
<1>1. x \in Patch
  BY LightAssumption DEF Patch
<1>2. WithPatch(ps, i, c) = Append(ps, x)
  BY DEF WithPatch
<1> HIDE DEF x
<1>3. /\ Append(ps, x) \in Seq(Patch)
      /\ Len(Append(ps, x)) = Len(ps) + 1
      /\ \A p \in 1..Len(ps) : Append(ps, x)[p] = ps[p]
      /\ Append(ps, x)[Len(ps) + 1] = x
  BY <1>1
<1> QED
  BY <1>2, <1>3 DEF x

(* One becomes what it becomes; the others stay. *)
Amended(qs, p, stage, reply) ==
    /\ qs \in Seq(Patch)
    /\ Len(qs) = Len(patches)
    /\ DOMAIN qs = Numbers
    /\ \A q \in Numbers : q # p => qs[q] = patches[q]
    /\ \A q \in Numbers : /\ qs[q].light = patches[q].light
                          /\ qs[q].command = patches[q].command
    /\ qs[p].stage = stage
    /\ qs[p].reply = reply

LEMMA PatchReplaced ==
    ASSUME patches \in Seq(Patch), NEW p \in Numbers,
           NEW stage \in {"travelling", "acted", "lost", "settled"},
           NEW reply \in Replies \cup {"none"}
    PROVE  Amended([patches EXCEPT ![p] =
                       [@ EXCEPT !.stage = stage, !.reply = reply]],
                   p, stage, reply)
<1>1. patches[p] \in Patch /\ p \in 1..Len(patches)
  BY PatchesAre DEF Numbers
<1>. PICK r \in Patch : r = patches[p]
  BY <1>1
<1> DEFINE x == [r EXCEPT !.stage = stage, !.reply = reply]
<1>2. /\ x \in Patch
      /\ x.light = patches[p].light /\ x.command = patches[p].command
      /\ x.stage = stage /\ x.reply = reply
  BY DEF Patch
<1> HIDE DEF x
<1>3. /\ [patches EXCEPT ![p] = x] \in Seq(Patch)
      /\ Len([patches EXCEPT ![p] = x]) = Len(patches)
      /\ \A q \in 1..Len(patches) :
            [patches EXCEPT ![p] = x][q] = IF q = p THEN x ELSE patches[q]
  BY <1>1, <1>2
<1>4. [patches EXCEPT ![p] = x]
        = [patches EXCEPT ![p] = [@ EXCEPT !.stage = stage, !.reply = reply]]
  BY DEF x
<1> QED
  BY <1>1, <1>2, <1>3, <1>4 DEF Amended, Numbers

LEMMA ActAmends ==
    ASSUME patches \in Seq(Patch), NEW p \in Numbers, NEW reply \in Outcomes
    PROVE  Amended([patches EXCEPT ![p].stage = "acted", ![p].reply = reply],
                   p, "acted", reply)
<1>1. [patches EXCEPT ![p].stage = "acted", ![p].reply = reply]
        = [patches EXCEPT ![p] = [@ EXCEPT !.stage = "acted", !.reply = reply]]
  BY DEF Numbers
<1> QED
  BY <1>1, PatchReplaced DEF Replies

LEMMA LateAmends ==
    ASSUME patches \in Seq(Patch), NEW p \in Numbers
    PROVE  Amended([patches EXCEPT ![p].stage = "settled"],
                   p, "settled", patches[p].reply)
<1>1. patches[p] \in Patch
  BY PatchesAre DEF Numbers
<1>2. patches[p].reply \in Replies \cup {"none"}
  BY <1>1 DEF Patch
<1>3. [patches EXCEPT ![p].stage = "settled"]
        = [patches EXCEPT ![p] = [@ EXCEPT !.stage = "settled",
                                           !.reply = patches[p].reply]]
  BY <1>1 DEF Numbers, Patch
<1> QED
  BY <1>2, <1>3, PatchReplaced

(* What it is once it is over. *)
Over(p) == IF patches[p].stage = "acted" THEN "settled" ELSE "lost"

LEMMA SettleAmends ==
    ASSUME patches \in Seq(Patch), NEW p \in Numbers,
           NEW reply \in Replies \cup {"none"}
    PROVE  Amended([patches EXCEPT
                       ![p].stage = IF @ = "acted" THEN "settled" ELSE "lost",
                       ![p].reply = reply],
                   p, Over(p), reply)
<1>1. patches[p] \in Patch
  BY PatchesAre DEF Numbers
<1>2. Over(p) \in {"travelling", "acted", "lost", "settled"}
  BY DEF Over
<1>3. [patches EXCEPT ![p].stage = IF @ = "acted" THEN "settled" ELSE "lost",
                      ![p].reply = reply]
        = [patches EXCEPT ![p] = [@ EXCEPT !.stage = Over(p), !.reply = reply]]
  BY <1>1 DEF Numbers, Patch, Over
<1> QED
  BY <1>2, <1>3, PatchReplaced

-----------------------------------------------------------------------------
(* Types *)

LEMMA InitTyped == Init => TypeOK
BY SlotAssumption, BoundsAssumption DEF Init, TypeOK

(* `fire`, after any sequence of PATCHes as long as this one. *)
LEMMA FireTyped ==
    ASSUME TypeOK, NEW ps \in Seq(Patch), Len(ps) = Len(patches),
           NEW i \in Instances, NEW c \in Commands, Fire(ps, i, c),
           mounted' \subseteq Instances, since' = since, lamp' = lamp,
           due' \subseteq Lights, sends' \in 0..MaxSends,
           wanted' \in [Lights -> Commands \cup {Free}], dropped' \subseteq Lights
    PROVE  TypeOK'
<1>1. /\ patches \in Seq(Patch) /\ Len(patches) \in Nat
      /\ LightOf[i] \in Lights
  BY PatchesAre, LightAssumption DEF TypeOK
<1>2. patches' \in Seq(Patch) /\ Len(patches') = Len(patches) + 1
  BY PatchAdded DEF Fire
<1>3. reading' \in [Lights -> {"idle", "older", "newer"}]
  BY <1>1 DEF TypeOK, Fire, Aged
<1>4. /\ slot' \in [Instances -> Commands \cup {Free, Empty}]
      /\ pending' \in [Lights -> 0..Len(patches')]
      /\ observing' \in [Instances -> 0..Len(patches')]
      /\ lamp' \in [Lights -> 0..Len(patches')]
      /\ since' \in 0..Len(patches')
  BY <1>1, <1>2 DEF TypeOK, Fire
<1>5. /\ thisInstant' \subseteq Lights /\ crossing' \subseteq Lights
      /\ forlorn' \subseteq Lights
  BY <1>1 DEF TypeOK, Fire
<1> QED
  BY <1>2, <1>3, <1>4, <1>5 DEF TypeOK

LEMMA SettleTyped ==
    ASSUME TypeOK, NEW p \in Numbers, NEW reply \in Replies \cup {"none"},
           Settle(p, reply), UNCHANGED <<lamp, sends, wanted, dropped>>
    PROVE  TypeOK'
<1> DEFINE l == patches[p].light
           over == [patches EXCEPT
                       ![p].stage = IF @ = "acted" THEN "settled" ELSE "lost",
                       ![p].reply = reply]
           cleared == IF AssertsNothing(reply) THEN ClearPending(l, p) ELSE pending
<1>1. patches \in Seq(Patch) /\ Len(patches) \in Nat /\ Numbers = 1..Len(patches)
  BY PatchesAre DEF TypeOK, Numbers
<1>2. over \in Seq(Patch) /\ Len(over) = Len(patches) /\ l \in Lights
  <2>1. Amended(over, p, Over(p), reply)
    BY <1>1, SettleAmends
  <2>2. patches[p] \in Patch
    BY <1>1, PatchesAre
  <2> QED
    BY <2>1, <2>2 DEF Amended, Patch
<1>3. cleared \in [Lights -> 0..Len(patches)]
  BY <1>2 DEF TypeOK, ClearPending
<1>4. UNCHANGED <<lamp, sends, wanted, dropped>>
  OBVIOUS
<1>5. CASE /\ patches' = over
           /\ forlorn' = IF AssertsNothing(reply) /\ pending[l] = p
                            THEN forlorn \cup {l} ELSE forlorn
           /\ UNCHANGED <<uiVars, due, reading, crossing>>
  <2> HIDE DEF over, cleared, l
  <2> QED
    BY <1>1, <1>2, <1>4, <1>5 DEF TypeOK, uiVars
<1>6. ASSUME NEW i \in Instances,
             due' = IF NobodyKnows(reply) THEN due \cup {l} ELSE due,
             UNCHANGED <<mounted, since>>,
             NextGoesOut(i, patches[p].command), Fire(over, i, slot[i])
      PROVE  TypeOK'
  <2>1. slot[i] \in Commands /\ due' \subseteq Lights
    BY <1>2, <1>6 DEF NextGoesOut, TypeOK
  <2> HIDE DEF over, cleared, l
  <2> QED
    BY <2>1, <1>2, <1>4, <1>6, FireTyped DEF TypeOK
<1>7. ASSUME NEW i \in Instances,
             due' = IF NobodyKnows(reply) THEN due \cup {l} ELSE due,
             UNCHANGED <<mounted, since>>,
             patches' = over, slot' = [slot EXCEPT ![i] = Free],
             pending' = cleared,
             UNCHANGED <<observing, reading, thisInstant, crossing, forlorn>>
      PROVE  TypeOK'
  <2> HIDE DEF over, cleared, l
  <2> QED
    BY <1>1, <1>2, <1>3, <1>4, <1>7 DEF TypeOK
<1> QED
  BY <1>5, <1>6, <1>7 DEF Settle

LEMMA SendTyped ==
    ASSUME TypeOK, NEW i \in Instances, NEW c \in Commands, Send(i, c)
    PROVE  TypeOK'
<1>1. Len(patches) \in Nat /\ patches \in Seq(Patch) /\ LightOf[i] \in Lights
  BY PatchesAre, LightAssumption DEF TypeOK
<1>2. /\ sends' \in 0..MaxSends
      /\ wanted' \in [Lights -> Commands \cup {Free}]
      /\ dropped' \subseteq Lights
      /\ UNCHANGED <<mounted, since, lamp, due>>
  BY <1>1, BoundsAssumption DEF TypeOK, Send
<1>3. CASE Fire(patches, i, c)
  BY <1>1, <1>2, <1>3, FireTyped DEF TypeOK
<1>4. CASE Hold(i, c)
  BY <1>1, <1>2, <1>4 DEF TypeOK, Hold
<1> QED
  BY <1>3, <1>4 DEF Send

LEMMA NextTyped == TypeOK /\ [Next]_vars => TypeOK'
<1> SUFFICES ASSUME TypeOK, [Next]_vars PROVE TypeOK'
  OBVIOUS
<1>1. /\ patches \in Seq(Patch) /\ Len(patches) \in Nat
      /\ Numbers = 1..Len(patches)
      /\ \A p \in Numbers : patches[p].light \in Lights
  BY PatchesAre DEF TypeOK, Numbers, Patch
<1>2. CASE Tick
  BY <1>2 DEF Tick, TypeOK
<1>3. ASSUME NEW page \in Pages, Enter(page) PROVE TypeOK'
  BY <1>3, PagesAssumption DEF Enter, TypeOK
<1>4. CASE Leave
  <2>1. {LightOf[i] : i \in {j \in mounted : slot[j] \in Commands}} \subseteq Lights
    BY LightAssumption DEF TypeOK
  <2>2. dropped' \subseteq Lights
    BY <2>1, <1>4 DEF Leave, TypeOK
  <2>3. /\ slot' \in [Instances -> Commands \cup {Free, Empty}]
        /\ observing' \in [Instances -> 0..Len(patches)]
    BY <1>1, <1>4 DEF Leave
  <2> QED
    BY <2>2, <2>3, <1>1, <1>4 DEF Leave, TypeOK
<1>5. ASSUME NEW i \in Instances, NEW c \in Commands, Send(i, c) PROVE TypeOK'
  BY <1>5, SendTyped
<1>6. ASSUME NEW p \in Numbers, Act(p) PROVE TypeOK'
  <2>1. PICK reply \in Outcomes, touched \in BOOLEAN :
           /\ patches' = [patches EXCEPT ![p].stage = "acted", ![p].reply = reply]
           /\ IF touched
                 THEN /\ lamp' = [lamp EXCEPT ![patches[p].light] = p]
                      /\ due' = due \cup {patches[p].light}
                 ELSE UNCHANGED <<lamp, due>>
    BY <1>6 DEF Act
  <2>2. patches' \in Seq(Patch) /\ Len(patches') = Len(patches)
    BY <1>1, <2>1, ActAmends DEF Amended
  <2>3. UNCHANGED <<mounted, since, slot, observing, pending, thisInstant,
                    reading, sends, wanted, dropped, crossing, forlorn>>
    BY <1>6 DEF Act, uiVars
  <2>4. lamp' \in [Lights -> 0..Len(patches)] /\ due' \subseteq Lights
    <3>1. patches[p].light \in Lights /\ p \in 0..Len(patches)
      BY <1>1
    <3>2. \/ /\ lamp' = [lamp EXCEPT ![patches[p].light] = p]
             /\ due' = due \cup {patches[p].light}
          \/ UNCHANGED <<lamp, due>>
      BY <2>1
    <3> QED
      BY <3>1, <3>2 DEF TypeOK
  <2> QED
    BY <2>2, <2>3, <2>4 DEF TypeOK
<1>7. ASSUME NEW p \in Numbers, ActLate(p) PROVE TypeOK'
  <2>1. patches' \in Seq(Patch) /\ Len(patches') = Len(patches)
    BY <1>1, <1>7, LateAmends DEF ActLate, Amended
  <2>2. lamp' \in [Lights -> 0..Len(patches)] /\ due' \subseteq Lights
    BY <1>1, <1>7 DEF ActLate, TypeOK
  <2>3. UNCHANGED <<mounted, since, slot, observing, pending, thisInstant,
                    reading, sends, wanted, dropped, crossing, forlorn>>
    BY <1>7 DEF ActLate, uiVars
  <2> QED
    BY <2>1, <2>2, <2>3 DEF TypeOK
<1>8. ASSUME NEW p \in Numbers, Acknowledged(p) \/ TimedOut(p) \/ Broken(p)
      PROVE  TypeOK'
  <2>1. patches[p].reply \in Replies \cup {"none"}
    BY <1>1, PatchesAre DEF Patch
  <2>2. PICK reply \in Replies \cup {"none"} : Settle(p, reply)
    BY <2>1, <1>8 DEF Acknowledged, TimedOut, Broken, Replies
  <2>3. UNCHANGED <<lamp, sends, wanted, dropped>>
    BY <1>8 DEF Acknowledged, TimedOut, Broken
  <2> QED
    BY <2>2, <2>3, SettleTyped
<1>9. ASSUME NEW l \in Lights, AskRead(l) \/ Elsewhere(l) PROVE TypeOK'
  BY <1>9 DEF AskRead, Elsewhere, TypeOK, uiVars
<1>10. ASSUME NEW l \in Lights, LoseWord(l) \/ ReadFails(l) PROVE TypeOK'
  BY <1>10 DEF LoseWord, ReadFails, TypeOK, uiVars
<1>11. ASSUME NEW l \in Lights, ReadArrives(l) PROVE TypeOK'
  BY <1>11, <1>1 DEF ReadArrives, TypeOK
<1>12. CASE UNCHANGED vars
  BY <1>12 DEF vars, uiVars, TypeOK
<1> QED
  BY <1>2, <1>3, <1>4, <1>5, <1>6, <1>7, <1>8, <1>9, <1>10, <1>11, <1>12 DEF Next

-----------------------------------------------------------------------------
(* The invariant holds at first, and every step keeps it. *)

LEMMA InitPolicy == Init => Policy
BY SlotAssumption
DEF Init, Policy, Numbers, Observer, Committed, Follows, PendingFits, IsLastOf

(* Steps that leave the PATCHes and what is said of them alone. *)
LEMMA StillPolicy ==
    ASSUME Policy,
           UNCHANGED <<mounted, since, slot, observing, patches, lamp, wanted,
                       dropped, crossing>>,
           \A l \in Lights : pending'[l] # 0 =>
               pending'[l] = pending[l] /\ Awaits(patches, l)'
    PROVE  Policy'
<1>1. \A i \in Instances : Observer(patches, i)'
  BY DEF Policy, Observer
<1>2. \A p \in Numbers' : (Agrees(patches[p]) /\ Observed(patches, p))'
  BY DEF Policy, Numbers, Observed, OutstandingIn
<1>3. \A l \in Lights : (Committed(patches, l) /\ Follows(patches, l))'
  BY DEF Policy, Committed, Follows, NoneLost
<1>4. \A l \in Lights : PendingFits(patches, l)'
  BY DEF Policy, PendingFits, OutstandingIn
<1> QED
  BY <1>1, <1>2, <1>3, <1>4 DEF Policy

(* What is awaited is still awaited, as long as nothing of it is lost. *)
LEMMA StillAwaited ==
    ASSUME Policy, NEW l \in Lights, pending[l] # 0, pending'[l] = pending[l],
           UNCHANGED patches, UNCHANGED reading,
           l \in due \/ l \in forlorn => l \in due' \/ l \in forlorn'
    PROVE  Awaits(patches, l)'
BY DEF Policy, PendingFits, Awaits

LEMMA ReadPolicy ==
    ASSUME TypeOK, Policy, NEW m \in Lights,
           AskRead(m) \/ LoseWord(m) \/ Elsewhere(m) \/ ReadArrives(m) \/ ReadFails(m)
    PROVE  Policy'
<1>1. UNCHANGED <<mounted, since, slot, observing, patches, lamp, wanted,
                  dropped, crossing>>
  BY DEF AskRead, LoseWord, Elsewhere, ReadArrives, ReadFails, uiVars
<1> SUFFICES ASSUME NEW l \in Lights, pending'[l] # 0
             PROVE  pending'[l] = pending[l] /\ Awaits(patches, l)'
  BY <1>1, StillPolicy
<1>2. CASE AskRead(m)
  BY <1>1, <1>2 DEF AskRead, uiVars, TypeOK, Policy, PendingFits, Awaits
<1>3. CASE LoseWord(m)
  BY <1>1, <1>3 DEF LoseWord, uiVars, TypeOK, Policy, PendingFits, Awaits
<1>4. CASE Elsewhere(m)
  BY <1>1, <1>4 DEF Elsewhere, uiVars, TypeOK, Policy, PendingFits, Awaits
<1>5. CASE ReadFails(m)
  BY <1>1, <1>5 DEF ReadFails, uiVars, TypeOK, Policy, PendingFits, Awaits
<1>6. CASE ReadArrives(m)
  <2>1. pending'[l] = pending[l] /\ (l = m => reading[l] # "newer")
    BY <1>6 DEF ReadArrives, IsSupersededByAReadAfter, TypeOK
  <2>2. reading'[l] = "newer" <=> reading[l] = "newer"
    BY <2>1, <1>6 DEF ReadArrives, TypeOK
  <2>3. UNCHANGED <<patches, due, forlorn>>
    BY <1>6 DEF ReadArrives
  <2> QED
    BY <2>1, <2>2, <2>3 DEF Policy, PendingFits, Awaits
<1> QED
  BY <1>2, <1>3, <1>4, <1>5, <1>6

LEMMA PagePolicy ==
    ASSUME TypeOK, Policy, Leave \/ \E page \in Pages : Enter(page)
    PROVE  Policy'
<1>1. CASE \E page \in Pages : Enter(page)
  <2>1. /\ mounted = {} /\ mounted' \in Pages
        /\ UNCHANGED <<since, slot, observing, pending, patches, lamp, due,
                       reading, wanted, dropped, crossing, forlorn>>
    BY <1>1 DEF Enter
  <2>2. \A i \in Instances : Observer(patches, i)'
    BY <2>1 DEF Policy, Observer
  <2>3. \A p \in Numbers' : (Agrees(patches[p]) /\ Observed(patches, p))'
    BY <2>1 DEF Policy, Numbers, Observed, OutstandingIn
  <2>4. \A l \in Lights : (Committed(patches, l) /\ Follows(patches, l))'
    BY <2>1 DEF Policy, Committed, Follows, NoneLost
  <2>5. \A l \in Lights : PendingFits(patches, l)'
    BY <2>1 DEF Policy, PendingFits, OutstandingIn, Awaits
  <2> QED
    BY <2>1, <2>2, <2>3, <2>4, <2>5 DEF Policy
<1>2. CASE Leave
  <2>1. /\ mounted' = {} /\ since' = Len(patches)
        /\ slot' = [i \in Instances |-> Free]
        /\ observing' = [i \in Instances |-> 0]
        /\ dropped' = dropped
             \cup {LightOf[i] : i \in {j \in mounted : slot[j] \in Commands}}
        /\ UNCHANGED <<pending, patches, lamp, due, reading, wanted, crossing,
                       forlorn>>
    BY <1>2 DEF Leave
  <2>2. patches \in Seq(Patch) /\ Len(patches) \in Nat /\ Numbers = 1..Len(patches)
    BY PatchesAre DEF TypeOK, Numbers
  <2>3. \A i \in Instances : Observer(patches, i)'
    BY <2>1, SlotAssumption DEF Observer
  <2>4. \A p \in Numbers' : (Agrees(patches[p]) /\ Observed(patches, p))'
    BY <2>1, <2>2 DEF Policy, Numbers, Observed
  <2>5. ASSUME NEW l \in Lights PROVE Committed(patches, l)'
    <3> SUFFICES ASSUME wanted[l] # Free
                 PROVE  \E p \in Numbers :
                           /\ IsLastOf(patches, p, l)
                           /\ patches[p].command = wanted[l] \/ l \in dropped'
      BY <2>1 DEF Committed, Numbers, IsLastOf
    <3>1. PICK p \in Numbers :
             /\ IsLastOf(patches, p, l)
             /\ \/ patches[p].command = wanted[l]
                \/ l \in dropped
                \/ \E i \in Instances : observing[i] = p /\ slot[i] = wanted[l]
      BY DEF Policy, Committed, Numbers
    <3>2. ASSUME NEW i \in Instances, observing[i] = p, slot[i] = wanted[l]
          PROVE  l \in dropped'
      <4>1. observing[i] # 0 /\ wanted[l] \in Commands
        BY <2>2, <3>2 DEF TypeOK
      <4>2. i \in mounted /\ LightOf[i] = l
        BY <4>1, <3>1, <3>2 DEF Policy, Observer, IsLastOf
      <4> QED
        BY <4>1, <4>2, <3>2, <2>1
    <3> QED
      BY <3>1, <3>2, <2>1
  <2>6. ASSUME NEW l \in Lights
        PROVE  Follows(patches, l)' /\ PendingFits(patches, l)'
    <3>1. pending[l] \in 0..Len(patches)
      BY DEF TypeOK
    <3> QED
      BY <3>1, <2>1, <2>2
      DEF Policy, Follows, NoneLost, PendingFits, OutstandingIn, Awaits
  <2> QED
    BY <2>1, <2>3, <2>4, <2>5, <2>6 DEF Policy
<1> QED
  BY <1>1, <1>2

LEMMA HoldPolicy ==
    ASSUME TypeOK, Policy, NEW i \in Instances, NEW c \in Commands,
           Hold(i, c), Send(i, c)
    PROVE  Policy'
<1> DEFINE l == LightOf[i]
<1>1. /\ slot[i] # Free /\ slot' = [slot EXCEPT ![i] = c] /\ i \in mounted
      /\ wanted' = [wanted EXCEPT ![l] = c]
      /\ dropped' = dropped \ {l}
      /\ UNCHANGED <<mounted, since, observing, pending, patches, lamp, due,
                     reading, crossing, forlorn>>
  BY DEF Hold, Send
<1>2. /\ patches \in Seq(Patch) /\ Len(patches) \in Nat
      /\ Numbers = 1..Len(patches) /\ l \in Lights
  BY PatchesAre, LightAssumption DEF TypeOK, Numbers
<1>3. slot'[i] = c /\ wanted'[l] = c /\ c # Free
  BY <1>1, <1>2, SlotAssumption DEF TypeOK
<1>4. ASSUME NEW j \in Instances, j # i, observing[j] # 0 PROVE LightOf[j] # l
  BY <1>1, <1>4, PagesAssumption DEF Policy, Observer
<1>5. ASSUME NEW j \in Instances PROVE Observer(patches, j)'
  <2>1. CASE j = i
    BY <2>1, <1>1, <1>3 DEF Policy, Observer, OutstandingIn, IsLastOf
  <2>2. CASE j # i
    <3>1. slot'[j] = slot[j]
      BY <2>2, <1>1 DEF TypeOK
    <3>2. slot[j] # Free => wanted'[LightOf[j]] = wanted[LightOf[j]]
      BY <2>2, <1>1, <1>2, <1>4, LightAssumption DEF TypeOK, Policy, Observer
    <3>3. slot[j] \in Commands => slot[j] # Free
      BY SlotAssumption
    <3> QED
      BY <3>1, <3>2, <3>3, <1>1 DEF Policy, Observer, OutstandingIn, IsLastOf
  <2> QED
    BY <2>1, <2>2
<1>6. \A p \in Numbers' : (Agrees(patches[p]) /\ Observed(patches, p))'
  BY <1>1 DEF Policy, Numbers, Observed, OutstandingIn
<1>7. ASSUME NEW m \in Lights PROVE Committed(patches, m)'
  <2>1. CASE m = l
    <3>1. observing[i] # 0 /\ IsLastOf(patches, observing[i], l)
      BY <1>1 DEF Policy, Observer
    <3> QED
      BY <3>1, <2>1, <1>1, <1>3 DEF Committed, IsLastOf
  <2>2. CASE m # l
    <3> SUFFICES ASSUME wanted'[m] # Free
                 PROVE  \E p \in Numbers :
                           /\ IsLastOf(patches, p, m)
                           /\ \/ patches[p].command = wanted'[m]
                              \/ m \in dropped'
                              \/ \E j \in Instances :
                                    observing[j] = p /\ slot'[j] = wanted'[m]
      BY <1>1 DEF Committed, Numbers, IsLastOf
    <3>1. wanted'[m] = wanted[m] /\ (m \in dropped => m \in dropped')
      BY <2>2, <1>1 DEF TypeOK
    <3>2. PICK p \in Numbers :
             /\ IsLastOf(patches, p, m)
             /\ \/ patches[p].command = wanted[m]
                \/ m \in dropped
                \/ \E j \in Instances : observing[j] = p /\ slot[j] = wanted[m]
      BY <3>1 DEF Policy, Committed, Numbers
    <3>3. ASSUME NEW j \in Instances, observing[j] = p, slot[j] = wanted[m]
          PROVE  slot'[j] = slot[j]
      <4>1. observing[j] # 0
        BY <3>3, <1>2
      <4>2. j # i
        BY <4>1, <3>2, <3>3, <2>2 DEF Policy, Observer, IsLastOf
      <4> QED
        BY <4>2, <1>1 DEF TypeOK
    <3> QED
      BY <3>1, <3>2, <3>3
  <2> QED
    BY <2>1, <2>2
<1>8. \A m \in Lights : Follows(patches, m)' /\ PendingFits(patches, m)'
  BY <1>1 DEF Policy, Follows, NoneLost, PendingFits, OutstandingIn, Awaits
<1> QED
  BY <1>1, <1>5, <1>6, <1>7, <1>8 DEF Policy

(* What the other instances and lights must be like, when one fires after  *)
(* the PATCHes ps: nothing it fired before is still under way.             *)
Quiet(ps, i) ==
    /\ ps \in Seq(Patch) /\ since <= Len(ps)
    /\ i \in mounted
    /\ mounted \in Pages
    /\ \A p \in DOMAIN ps :
          /\ Agrees(ps[p])
          /\ OutstandingIn(ps, p) =>
                /\ Outstanding(p) /\ p \in Numbers
                /\ patches[p].light = ps[p].light
                /\ observing[i] # p
                /\ p > since => \E j \in Instances : observing[j] = p
    /\ observing[i] # 0 =>
          observing[i] \in DOMAIN ps /\ ps[observing[i]].light = LightOf[i]
    /\ \A j \in Instances : j # i => Observer(ps, j)
    /\ \A l \in Lights : l # LightOf[i] =>
          Committed(ps, l) /\ Follows(ps, l) /\ PendingFits(ps, l)

LEMMA FirePolicy ==
    ASSUME TypeOK, NEW ps, NEW i \in Instances, NEW c \in Commands,
           Quiet(ps, i), Fire(ps, i, c), Len(ps) = Len(patches),
           UNCHANGED <<mounted, since, lamp>>,
           wanted'[LightOf[i]] = c,
           \A m \in Lights : m # LightOf[i] =>
              /\ wanted'[m] = wanted[m]
              /\ m \in dropped => m \in dropped'
              /\ m \in due => m \in due'
    PROVE  Policy'
<1> DEFINE l == LightOf[i]
           n == Len(ps) + 1
<1>1. /\ ps \in Seq(Patch) /\ Len(ps) \in Nat /\ DOMAIN ps = 1..Len(ps)
      /\ n \in Nat /\ l \in Lights
  BY PatchesAre, LightAssumption DEF Quiet
<1>2. /\ DOMAIN patches' = 1..n /\ Numbers' = 1..n
      /\ \A p \in DOMAIN ps : patches'[p] = ps[p]
      /\ patches'[n].light = l /\ patches'[n].command = c
      /\ patches'[n].stage = "travelling" /\ patches'[n].reply = "none"
  BY <1>1, PatchAdded DEF Fire, Numbers
<1>3. /\ slot' = [slot EXCEPT ![i] = Empty]
      /\ pending' = [pending EXCEPT ![l] = n]
      /\ observing' = [observing EXCEPT ![i] = n]
      /\ reading' = Aged(l)
      /\ forlorn' = forlorn \ {l}
      /\ crossing' = IF \E p \in OutstandingFor(l) : observing[i] # p
                        THEN crossing \cup {l} ELSE crossing \ {l}
  BY DEF Fire
<1> HIDE DEF n
<1>4. \A p \in 1..n : p \in DOMAIN ps \/ p = n
  BY <1>1 DEF n
<1>5. n > since' /\ n # 0 /\ n \notin DOMAIN ps /\ \A p \in DOMAIN ps : p < n
  BY <1>1 DEF n, Quiet, TypeOK
<1>6. IsLastOf(patches', n, l)
  BY <1>2, <1>4, <1>5, <1>1 DEF IsLastOf, n
<1>7. ASSUME NEW m \in Lights, m # l, NEW p \in DOMAIN ps, IsLastOf(ps, p, m)
      PROVE  IsLastOf(patches', p, m) /\ p \in Numbers'
  BY <1>7, <1>1, <1>2, <1>4 DEF IsLastOf, n
<1>8. ASSUME NEW m \in Lights, m # l, NEW p \in Numbers', IsLastOf(patches', p, m)
      PROVE  p \in DOMAIN ps /\ IsLastOf(ps, p, m)
  BY <1>8, <1>1, <1>2, <1>4 DEF IsLastOf, n
<1>9. ASSUME NEW j \in Instances, j # i
      PROVE  /\ slot'[j] = slot[j] /\ observing'[j] = observing[j]
             /\ observing[j] # 0 => LightOf[j] \in Lights /\ LightOf[j] # l
  <2>1. slot'[j] = slot[j] /\ observing'[j] = observing[j]
    BY <1>9, <1>3 DEF TypeOK
  <2>2. observing[j] # 0 => j \in mounted
    BY <1>9 DEF Quiet, Observer
  <2>3. j \in mounted => LightOf[j] # l
    BY <1>9, PagesAssumption DEF Quiet
  <2> QED
    BY <2>1, <2>2, <2>3, LightAssumption
<1>10. slot'[i] = Empty /\ observing'[i] = n
  BY <1>3 DEF TypeOK
<1>11. ASSUME NEW j \in Instances PROVE Observer(patches, j)'
  <2>1. CASE j = i
    <3>1. i \in mounted' /\ Empty \notin Commands /\ Empty # Free
      BY SlotAssumption DEF Quiet
    <3>2. OutstandingIn(patches', n)
      BY <1>2 DEF OutstandingIn
    <3> QED
      BY <2>1, <3>1, <3>2, <1>5, <1>6, <1>10 DEF Observer, OutstandingIn, IsLastOf
  <2>2. CASE j # i
    <3>1. Observer(ps, j)
      BY <2>2 DEF Quiet
    <3>2. CASE observing[j] = 0
      BY <2>2, <3>1, <3>2, <1>9, SlotAssumption DEF Observer
    <3>3. CASE observing[j] # 0
      <4>1. /\ observing[j] \in DOMAIN ps /\ LightOf[j] \in Lights /\ LightOf[j] # l
            /\ IsLastOf(ps, observing[j], LightOf[j])
        BY <2>2, <3>1, <3>3, <1>9 DEF Observer, IsLastOf
      <4>2. /\ IsLastOf(patches', observing[j], LightOf[j])
            /\ patches'[observing[j]] = ps[observing[j]]
            /\ wanted'[LightOf[j]] = wanted[LightOf[j]]
        BY <4>1, <1>2, <1>7
      <4> QED
        BY <2>2, <3>1, <3>3, <4>2, <1>9 DEF Observer, OutstandingIn, IsLastOf
    <3> QED
      BY <3>2, <3>3
  <2> QED
    BY <2>1, <2>2
<1>12. ASSUME NEW p \in Numbers'
       PROVE  (Agrees(patches[p]) /\ Observed(patches, p))'
  <2>1. CASE p = n
    BY <2>1, <1>2, <1>10 DEF Agrees, Observed
  <2>2. CASE p \in DOMAIN ps
    <3>1. Agrees(patches'[p])
      BY <2>2, <1>2 DEF Quiet
    <3>2. OutstandingIn(patches', p) /\ p > since' => \E j \in Instances : observing'[j] = p
      BY <2>2, <1>2, <1>9 DEF Quiet, OutstandingIn
    <3> QED
      BY <3>1, <3>2 DEF Agrees, Observed, OutstandingIn
  <2> QED
    BY <2>1, <2>2, <1>2, <1>4
<1>13. ASSUME NEW m \in Lights PROVE Committed(patches, m)'
  <2>1. CASE m = l
    <3>1. n \in Numbers' /\ patches'[n].command = wanted'[m]
      BY <2>1, <1>2, <1>1 DEF n
    <3> QED
      BY <2>1, <3>1, <1>6 DEF Committed, IsLastOf, Numbers
  <2>2. CASE m # l
    <3> SUFFICES ASSUME wanted[m] # Free
                 PROVE  \E p \in Numbers' :
                           /\ IsLastOf(patches', p, m)
                           /\ \/ patches'[p].command = wanted[m]
                              \/ m \in dropped'
                              \/ \E j \in Instances :
                                    observing'[j] = p /\ slot'[j] = wanted[m]
      BY <2>2 DEF Committed, IsLastOf, Numbers
    <3>1. PICK p \in DOMAIN ps :
             /\ IsLastOf(ps, p, m)
             /\ \/ ps[p].command = wanted[m]
                \/ m \in dropped
                \/ \E j \in Instances : observing[j] = p /\ slot[j] = wanted[m]
      BY <2>2 DEF Quiet, Committed
    <3>2. IsLastOf(patches', p, m) /\ p \in Numbers' /\ patches'[p] = ps[p]
      BY <2>2, <3>1, <1>2, <1>7
    <3>3. ASSUME NEW j \in Instances, observing[j] = p, slot[j] = wanted[m]
          PROVE  observing'[j] = p /\ slot'[j] = wanted[m]
      <4>1. j # i
        BY <2>2, <3>1, <3>3, <1>1 DEF Quiet, IsLastOf
      <4> QED
        BY <4>1, <3>3, <1>9
    <3> QED
      BY <2>2, <3>1, <3>2, <3>3
  <2> QED
    BY <2>1, <2>2
<1>14. ASSUME NEW m \in Lights, m # l PROVE m \in crossing' <=> m \in crossing
  BY <1>3, <1>14
<1>15. ASSUME NEW m \in Lights PROVE Follows(patches, m)'
  <2>1. CASE m = l
    <3> SUFFICES ASSUME l \notin crossing', NoneLost(patches', l),
                        NEW q \in Numbers', patches'[q].light = l, q < n
                 PROVE  patches'[q].stage = "settled"
      <4>1. ASSUME NEW p \in Numbers', IsLastOf(patches', p, l) PROVE p = n
        BY <4>1, <1>2, <1>4, <1>5, <1>1 DEF IsLastOf, n
      <4> QED
        BY <2>1, <4>1, <1>2 DEF Follows, NoneLost, IsLastOf, Numbers
    <3>1. q \in DOMAIN ps /\ patches'[q] = ps[q]
      BY <1>2, <1>4
    <3>2. ~OutstandingIn(ps, q)
      <4> SUFFICES ASSUME OutstandingIn(ps, q) PROVE FALSE
        OBVIOUS
      <4>1. q \in OutstandingFor(l) /\ observing[i] # q
        BY <3>1 DEF Quiet, OutstandingFor
      <4> QED
        BY <4>1, <1>3
    <3>3. ps[q].reply \in Outcomes \cup {"none"}
      BY <3>1, <1>2 DEF NoneLost, Numbers
    <3>4. ps[q] \in Patch /\ Agrees(ps[q])
      BY <3>1, <1>1, PatchesAre DEF Quiet
    <3> QED
      BY <3>1, <3>2, <3>3, <3>4 DEF OutstandingIn, Agrees, Outcomes, Patch
  <2>2. CASE m # l
    <3>1. NoneLost(patches', m) => NoneLost(ps, m)
      BY <2>2, <1>1, <1>2 DEF NoneLost, n
    <3> SUFFICES ASSUME m \notin crossing', NoneLost(patches', m),
                        NEW p \in Numbers', IsLastOf(patches', p, m)
                 PROVE  /\ \A q \in Numbers' :
                              patches'[q].light = m /\ q < p =>
                                  patches'[q].stage = "settled"
                        /\ patches'[p].reply = "success" => lamp[m] = p
      BY DEF Follows, NoneLost, IsLastOf, Numbers
    <3>2. p \in DOMAIN ps /\ IsLastOf(ps, p, m) /\ m \notin crossing
      BY <2>2, <1>8, <1>14
    <3>3. /\ \A q \in DOMAIN ps :
                ps[q].light = m /\ q < p => ps[q].stage = "settled"
          /\ ps[p].reply = "success" => lamp[m] = p
      BY <2>2, <3>1, <3>2 DEF Quiet, Follows
    <3> QED
      BY <2>2, <3>2, <3>3, <1>2, <1>4
  <2> QED
    BY <2>1, <2>2
<1>16. ASSUME NEW m \in Lights PROVE PendingFits(patches, m)'
  <2>1. CASE m = l
    <3>1. pending'[m] = n
      BY <2>1, <1>1, <1>3 DEF TypeOK
    <3> QED
      BY <2>1, <3>1, <1>2 DEF PendingFits, OutstandingIn, Awaits
  <2>2. CASE m # l
    <3>1. /\ pending'[m] = pending[m]
          /\ reading'[m] = reading[m]
          /\ m \in forlorn => m \in forlorn'
      BY <2>2, <1>3 DEF TypeOK, Aged
    <3>2. pending[m] # 0 => patches'[pending[m]] = ps[pending[m]]
      <4>1. pending[m] \in 0..Len(ps)
        BY DEF TypeOK
      <4> QED
        BY <4>1, <1>1, <1>2
    <3>3. PendingFits(ps, m)
      BY <2>2 DEF Quiet
    <3> QED
      BY <2>2, <3>1, <3>2, <3>3 DEF PendingFits, OutstandingIn, Awaits
  <2> QED
    BY <2>1, <2>2
<1> QED
  BY <1>11, <1>12, <1>13, <1>15, <1>16 DEF Policy, Quiet

LEMMA SendPolicy ==
    ASSUME TypeOK, Policy, NEW i \in Instances, NEW c \in Commands, Send(i, c)
    PROVE  Policy'
<1>1. CASE slot[i] = Free /\ Fire(patches, i, c)
  <2>1. /\ i \in mounted
        /\ wanted' = [wanted EXCEPT ![LightOf[i]] = c]
        /\ dropped' = dropped \ {LightOf[i]}
        /\ UNCHANGED <<mounted, since, lamp, due>>
    BY DEF Send
  <2>2. /\ patches \in Seq(Patch) /\ Len(patches) \in Nat
        /\ Numbers = 1..Len(patches) /\ LightOf[i] \in Lights
    BY PatchesAre, LightAssumption DEF TypeOK, Numbers
  <2>3. Quiet(patches, i)
    <3>1. since <= Len(patches) /\ mounted \in Pages
      BY <2>1, <2>2 DEF TypeOK, Policy
    <3>2. ASSUME NEW p \in Numbers, OutstandingIn(patches, p)
          PROVE  /\ Outstanding(p) /\ observing[i] # p
                 /\ p > since => \E j \in Instances : observing[j] = p
      <4>1. p # 0
        BY <2>2
      <4> QED
        BY <4>1, <3>2, <1>1
        DEF Policy, Observer, Observed, OutstandingIn, Outstanding
    <3>3. observing[i] # 0 => /\ observing[i] \in Numbers
                              /\ patches[observing[i]].light = LightOf[i]
      BY DEF Policy, Observer, IsLastOf, Numbers
    <3> QED
      BY <2>1, <2>2, <3>1, <3>2, <3>3 DEF Policy, Quiet, Numbers
  <2>4. wanted'[LightOf[i]] = c /\ \A m \in Lights : m # LightOf[i] =>
            wanted'[m] = wanted[m] /\ (m \in dropped => m \in dropped')
    BY <2>1, <2>2 DEF TypeOK
  <2> QED
    BY <1>1, <2>1, <2>3, <2>4, FirePolicy
<1>2. CASE Hold(i, c)
  BY <1>2, HoldPolicy
<1> QED
  BY <1>1, <1>2 DEF Send

LEMMA TypedPatches ==
    ASSUME TypeOK
    PROVE  /\ patches \in Seq(Patch) /\ Len(patches) \in Nat
           /\ Numbers = 1..Len(patches) /\ 0 \notin Numbers
           /\ \A q \in Numbers : patches[q] \in Patch /\ patches[q].light \in Lights
<1>1. /\ patches \in Seq(Patch) /\ Len(patches) \in Nat
      /\ Numbers = 1..Len(patches)
      /\ \A q \in Numbers : patches[q] \in Patch
  BY PatchesAre DEF TypeOK, Numbers
<1>2. \A x \in Patch : x.light \in Lights
  BY DEF Patch
<1> QED
  BY <1>1, <1>2

(* A PATCH whose stage and reply change is of the same light still. *)
LEMMA LastAmended ==
    ASSUME patches \in Seq(Patch), NEW qs, NEW p \in Numbers, NEW stage, NEW reply,
           Amended(qs, p, stage, reply)
    PROVE  \A q, m : IsLastOf(qs, q, m) <=> IsLastOf(patches, q, m)
BY DEF Amended, IsLastOf, Numbers

LEMMA ActPolicy ==
    ASSUME TypeOK, Policy, NEW p \in Numbers, Act(p)
    PROVE  Policy'
<1> DEFINE l == patches[p].light
<1>1. /\ patches \in Seq(Patch) /\ Len(patches) \in Nat
      /\ Numbers = 1..Len(patches) /\ p # 0
      /\ \A q \in Numbers : patches[q] \in Patch /\ patches[q].light \in Lights
  BY TypedPatches
<1>2. PICK reply \in Outcomes, touched \in BOOLEAN :
         /\ reply = "success" => touched
         /\ patches' = [patches EXCEPT ![p].stage = "acted", ![p].reply = reply]
         /\ IF touched
               THEN lamp' = [lamp EXCEPT ![l] = p] /\ due' = due \cup {l}
               ELSE UNCHANGED <<lamp, due>>
  BY DEF Act
<1>3. /\ patches[p].stage = "travelling" /\ patches[p].reply = "none"
      /\ UNCHANGED <<mounted, since, slot, observing, pending, thisInstant,
                     reading, wanted, dropped, crossing, forlorn>>
  BY DEF Act, uiVars, Policy, Agrees
<1>4. Amended(patches', p, "acted", reply)
  BY <1>1, <1>2, ActAmends
<1>5. /\ \/ lamp' = [lamp EXCEPT ![l] = p] /\ due' = due \cup {l}
         \/ UNCHANGED <<lamp, due>> /\ reply # "success"
      /\ reply \in Outcomes
  BY <1>2
<1> HIDE DEF l
<1>6. /\ Numbers' = Numbers
      /\ \A q \in Numbers : q # p => patches'[q] = patches[q]
      /\ \A q \in Numbers : /\ patches'[q].light = patches[q].light
                            /\ patches'[q].command = patches[q].command
      /\ patches'[p].stage = "acted" /\ patches'[p].reply = reply
  BY <1>4 DEF Amended, Numbers
<1>7. \A q, m : IsLastOf(patches', q, m) <=> IsLastOf(patches, q, m)
  BY <1>1, <1>4, LastAmended
<1>8. \A q \in Numbers : OutstandingIn(patches', q) <=> OutstandingIn(patches, q)
  BY <1>3, <1>6 DEF OutstandingIn
<1>9. \A i \in Instances : Observer(patches, i)'
  <2> SUFFICES ASSUME NEW i \in Instances PROVE Observer(patches, i)'
    OBVIOUS
  <2>1. observing[i] # 0 => observing[i] \in Numbers
    BY <1>1 DEF TypeOK
  <2> QED
    BY <2>1, <1>3, <1>7, <1>8 DEF Policy, Observer
<1>10. ASSUME NEW q \in Numbers' PROVE (Agrees(patches[q]) /\ Observed(patches, q))'
  <2>1. Agrees(patches'[q])
    BY <1>5, <1>6 DEF Policy, Agrees, Outcomes
  <2>2. Observed(patches, q)'
    BY <1>3, <1>6, <1>8 DEF Policy, Observed
  <2> QED
    BY <2>1, <2>2 DEF Agrees
<1>11. ASSUME NEW m \in Lights PROVE Committed(patches, m)'
  BY <1>3, <1>6, <1>7 DEF Policy, Committed, Numbers
<1>12. ASSUME NEW m \in Lights PROVE Follows(patches, m)'
  <2> SUFFICES ASSUME m \notin crossing, NoneLost(patches', m),
                      NEW q \in Numbers, IsLastOf(patches', q, m)
               PROVE  /\ \A r \in Numbers :
                            patches'[r].light = m /\ r < q =>
                                patches'[r].stage = "settled"
                      /\ patches'[q].reply = "success" => lamp'[m] = q
    BY <1>3, <1>6 DEF Follows, NoneLost, IsLastOf, Numbers
  <2>1. NoneLost(patches, m)
    BY <1>1, <1>3, <1>6 DEF NoneLost, Numbers
  <2>2. IsLastOf(patches, q, m)
    BY <1>7
  <2>3. /\ \A r \in Numbers :
              patches[r].light = m /\ r < q => patches[r].stage = "settled"
        /\ patches[q].reply = "success" => lamp[m] = q
    BY <2>1, <2>2 DEF Policy, Follows, Numbers
  <2>4. m = l => p = q
    BY <2>2, <2>3, <1>1, <1>3 DEF IsLastOf, l
  <2>5. m # l => p # q
    BY <2>2 DEF IsLastOf, l
  <2>6. \A r \in Numbers :
           patches'[r].light = m /\ r < q => patches'[r].stage = "settled"
    BY <2>3, <2>4, <1>1, <1>6 DEF l
  <2>7. CASE m = l
    BY <2>4, <2>6, <2>7, <1>5, <1>6 DEF TypeOK
  <2>8. CASE m # l
    BY <2>3, <2>5, <2>6, <2>8, <1>5, <1>6 DEF TypeOK
  <2> QED
    BY <2>7, <2>8
<1>13. ASSUME NEW m \in Lights PROVE PendingFits(patches, m)'
  <2> SUFFICES ASSUME pending[m] # 0 PROVE PendingFits(patches, m)'
    BY <1>3 DEF PendingFits
  <2>1. pending[m] \in Numbers /\ PendingFits(patches, m)
    BY <1>1 DEF TypeOK, Policy
  <2>2. CASE pending[m] # p
    <3>1. patches'[pending[m]] = patches[pending[m]] /\ (m \in due => m \in due')
      BY <2>1, <2>2, <1>5, <1>6
    <3> QED
      BY <3>1, <2>1, <1>3 DEF PendingFits, OutstandingIn, Awaits
  <2>3. CASE pending[m] = p
    <3>1. m = l
      BY <2>1, <2>3 DEF PendingFits, l
    <3>2. reply = "success" => m \in due'
      BY <3>1, <1>5
    <3> QED
      BY <3>1, <3>2, <2>3, <1>3, <1>6 DEF PendingFits, OutstandingIn, Awaits, l
  <2> QED
    BY <2>2, <2>3
<1> QED
  BY <1>3, <1>9, <1>10, <1>11, <1>12, <1>13 DEF Policy

LEMMA LatePolicy ==
    ASSUME TypeOK, Policy, NEW p \in Numbers, ActLate(p)
    PROVE  Policy'
<1> DEFINE l == patches[p].light
<1>1. /\ patches \in Seq(Patch) /\ Len(patches) \in Nat
      /\ Numbers = 1..Len(patches) /\ p # 0
      /\ \A q \in Numbers : patches[q] \in Patch /\ patches[q].light \in Lights
  BY TypedPatches
<1>2. /\ patches[p].stage = "lost"
      /\ patches[p].reply \in {"outcome_unknown", "error"}
      /\ lamp' = [lamp EXCEPT ![l] = p] /\ due' = due \cup {l}
      /\ UNCHANGED <<mounted, since, slot, observing, pending, thisInstant,
                     reading, wanted, dropped, crossing, forlorn>>
  BY DEF ActLate, uiVars, Policy, Agrees
<1>3. Amended(patches', p, "settled", patches[p].reply)
  BY <1>1, LateAmends DEF ActLate
<1> HIDE DEF l
<1>4. /\ Numbers' = Numbers
      /\ \A q \in Numbers : q # p => patches'[q] = patches[q]
      /\ \A q \in Numbers : /\ patches'[q].light = patches[q].light
                            /\ patches'[q].command = patches[q].command
                            /\ patches'[q].reply = patches[q].reply
      /\ patches'[p].stage = "settled"
  BY <1>3 DEF Amended, Numbers
<1>5. \A q, m : IsLastOf(patches', q, m) <=> IsLastOf(patches, q, m)
  BY <1>1, <1>3, LastAmended
<1>6. \A q \in Numbers : OutstandingIn(patches', q) <=> OutstandingIn(patches, q)
  BY <1>2, <1>4 DEF OutstandingIn
<1>7. \A i \in Instances : Observer(patches, i)'
  <2> SUFFICES ASSUME NEW i \in Instances PROVE Observer(patches, i)'
    OBVIOUS
  <2>1. observing[i] # 0 => observing[i] \in Numbers
    BY <1>1 DEF TypeOK
  <2> QED
    BY <2>1, <1>2, <1>5, <1>6 DEF Policy, Observer
<1>8. ASSUME NEW q \in Numbers' PROVE (Agrees(patches[q]) /\ Observed(patches, q))'
  <2>1. Agrees(patches'[q])
    BY <1>2, <1>4 DEF Policy, Agrees, Outcomes
  <2>2. Observed(patches, q)'
    BY <1>2, <1>4, <1>6 DEF Policy, Observed
  <2> QED
    BY <2>1, <2>2 DEF Agrees
<1>9. ASSUME NEW m \in Lights PROVE Committed(patches, m)'
  BY <1>2, <1>4, <1>5 DEF Policy, Committed, Numbers
<1>10. ASSUME NEW m \in Lights PROVE Follows(patches, m)'
  <2> SUFFICES ASSUME m \notin crossing, NoneLost(patches', m),
                      NEW q \in Numbers, IsLastOf(patches', q, m)
               PROVE  /\ \A r \in Numbers :
                            patches'[r].light = m /\ r < q =>
                                patches'[r].stage = "settled"
                      /\ patches'[q].reply = "success" => lamp'[m] = q
    BY <1>2, <1>4 DEF Follows, NoneLost, IsLastOf, Numbers
  <2>1. m # l
    BY <1>2, <1>4 DEF NoneLost, Numbers, Outcomes, l
  <2>2. NoneLost(patches, m) /\ IsLastOf(patches, q, m) /\ lamp'[m] = lamp[m]
    BY <2>1, <1>2, <1>4, <1>5 DEF NoneLost, Numbers, TypeOK
  <2>3. /\ \A r \in Numbers :
              patches[r].light = m /\ r < q => patches[r].stage = "settled"
        /\ patches[q].reply = "success" => lamp[m] = q
    BY <2>2 DEF Policy, Follows, Numbers
  <2> QED
    BY <2>1, <2>2, <2>3, <1>4 DEF l
<1>11. ASSUME NEW m \in Lights PROVE PendingFits(patches, m)'
  <2> SUFFICES ASSUME pending[m] # 0 PROVE PendingFits(patches, m)'
    BY <1>2 DEF PendingFits
  <2>1. pending[m] \in Numbers /\ PendingFits(patches, m) /\ (m \in due => m \in due')
    BY <1>1, <1>2 DEF TypeOK, Policy
  <2>2. pending[m] # p => patches'[pending[m]] = patches[pending[m]]
    BY <2>1, <1>4
  <2> QED
    BY <2>1, <2>2, <1>2, <1>4, <1>6 DEF PendingFits, OutstandingIn, Awaits
<1> QED
  BY <1>2, <1>7, <1>8, <1>9, <1>10, <1>11 DEF Policy

(* One outstanding PATCH is over, and its callbacks run if the instance    *)
(* that observes it is on screen: with what was held fired next, or the    *)
(* key free.                                                               *)
LEMMA SettlePolicy ==
    ASSUME TypeOK, Policy, NEW p \in Numbers, NEW reply \in Replies,
           Outstanding(p), Settle(p, reply), UNCHANGED <<lamp, wanted, dropped>>,
           reply \in Outcomes =>
              patches[p].stage = "acted" /\ reply = patches[p].reply
    PROVE  Policy'
<1> DEFINE l == patches[p].light
           over == [patches EXCEPT
                       ![p].stage = IF @ = "acted" THEN "settled" ELSE "lost",
                       ![p].reply = reply]
           cleared == IF AssertsNothing(reply) THEN ClearPending(l, p) ELSE pending
<1>1. /\ patches \in Seq(Patch) /\ Len(patches) \in Nat
      /\ Numbers = 1..Len(patches) /\ p # 0 /\ l \in Lights
  BY TypedPatches
<1>2. Amended(over, p, Over(p), reply)
  BY <1>1, SettleAmends
<1>3. \/ /\ \A i \in Instances : ~Hears(i, p)
         /\ patches' = over
         /\ forlorn' = IF AssertsNothing(reply) /\ pending[l] = p
                          THEN forlorn \cup {l} ELSE forlorn
         /\ UNCHANGED <<uiVars, due, reading, crossing>>
      \/ \E i \in Instances :
         /\ Hears(i, p)
         /\ due' = IF NobodyKnows(reply) THEN due \cup {l} ELSE due
         /\ UNCHANGED <<mounted, since>>
         /\ \/ /\ NextGoesOut(i, patches[p].command)
               /\ Fire(over, i, slot[i])
            \/ /\ ~NextGoesOut(i, patches[p].command)
               /\ patches' = over
               /\ slot' = [slot EXCEPT ![i] = Free]
               /\ pending' = cleared
               /\ UNCHANGED <<observing, reading, thisInstant, crossing, forlorn>>
  BY DEF Settle
<1>4. /\ AssertsNothing(reply) <=> reply # "success"
      /\ cleared = IF reply # "success" /\ pending[l] = p
                      THEN [pending EXCEPT ![l] = 0] ELSE pending
  BY DEF AssertsNothing, ClearPending
<1> HIDE DEF over, cleared, l
<1>5. /\ over \in Seq(Patch) /\ DOMAIN over = Numbers /\ Len(over) = Len(patches)
      /\ \A q \in Numbers : q # p => over[q] = patches[q]
      /\ \A q \in Numbers : /\ over[q].light = patches[q].light
                            /\ over[q].command = patches[q].command
      /\ over[p].stage = Over(p) /\ over[p].reply = reply
  BY <1>2 DEF Amended
<1>6. \A q, m : IsLastOf(over, q, m) <=> IsLastOf(patches, q, m)
  BY <1>1, <1>2, LastAmended
<1>7. \A q \in Numbers :
         OutstandingIn(over, q) <=> q # p /\ OutstandingIn(patches, q)
  BY <1>5 DEF OutstandingIn, Over
<1>8. \A q \in Numbers : Agrees(over[q])
  BY <1>5 DEF Policy, Agrees, Over, Outstanding, Replies, Outcomes
<1>9. ASSUME NEW m \in Lights PROVE Follows(over, m)
  <2> SUFFICES ASSUME m \notin crossing, NoneLost(over, m),
                      NEW q \in Numbers, IsLastOf(over, q, m)
               PROVE  /\ \A r \in Numbers :
                            over[r].light = m /\ r < q =>
                                over[r].stage = "settled"
                      /\ over[q].reply = "success" => lamp[m] = q
    BY <1>5 DEF Follows
  <2>1. patches[p].light = m => reply = patches[p].reply /\ patches[p].stage = "acted"
    BY <1>5 DEF NoneLost, Outcomes, Replies
  <2>2. NoneLost(patches, m)
    BY <2>1, <1>5 DEF NoneLost, Numbers
  <2>3. /\ \A r \in Numbers :
              patches[r].light = m /\ r < q => patches[r].stage = "settled"
        /\ patches[q].reply = "success" => lamp[m] = q
    BY <2>2, <1>6 DEF Policy, Follows, Numbers
  <2>4. patches[q].light = m
    BY <1>6 DEF IsLastOf
  <2> QED
    BY <2>1, <2>3, <2>4, <1>5 DEF Outstanding
<1>10. ASSUME NEW m \in Lights, pending[m] # 0, pending[m] # p
       PROVE  /\ over[pending[m]] = patches[pending[m]]
              /\ PendingFits(over, m)
  <2>1. pending[m] \in Numbers /\ PendingFits(patches, m)
    BY <1>1, <1>10 DEF TypeOK, Policy
  <2>2. over[pending[m]] = patches[pending[m]]
    BY <2>1, <1>5, <1>10
  <2> QED
    BY <2>1, <2>2 DEF PendingFits, OutstandingIn, Awaits
<1>11. ASSUME NEW m \in Lights, pending[m] = p PROVE m = l
  BY <1>1, <1>11 DEF Policy, PendingFits, l
<1>12. ASSUME pending[l] = p, reply = "success"
       PROVE  l \in due \/ reading[l] = "newer" \/ l \in forlorn
  <2>1. patches[p].stage = "acted" /\ patches[p].reply = "success"
    BY <1>12 DEF Outcomes
  <2> QED
    BY <2>1, <1>1, <1>12 DEF Policy, PendingFits, Awaits
<1>13. CASE /\ \A i \in Instances : ~Hears(i, p)
            /\ patches' = over
            /\ forlorn' = IF AssertsNothing(reply) /\ pending[l] = p
                             THEN forlorn \cup {l} ELSE forlorn
            /\ UNCHANGED <<uiVars, due, reading, crossing>>
  <2>1. UNCHANGED <<mounted, since, slot, observing, pending, lamp, wanted,
                    dropped, due, reading, crossing>>
    BY <1>13 DEF uiVars
  <2>2. ASSUME NEW i \in Instances PROVE observing[i] # p
    BY <1>1, <1>13 DEF Hears, Policy, Observer
  <2>3. p <= since
    <3>1. ~(p > since)
      BY <2>2 DEF Policy, Observed, Outstanding, OutstandingIn
    <3> QED
      BY <3>1, <1>1 DEF TypeOK
  <2>4. ASSUME NEW i \in Instances PROVE Observer(patches, i)'
    <3>1. observing[i] # 0 => observing[i] \in Numbers
      BY <1>1 DEF TypeOK
    <3>2. Observer(patches, i) /\ observing[i] # p
      BY <2>2 DEF Policy
    <3> QED
      BY <3>1, <3>2, <2>1, <1>6, <1>7, <1>13 DEF Observer
  <2>5. ASSUME NEW q \in Numbers'
        PROVE  (Agrees(patches[q]) /\ Observed(patches, q))'
    <3>1. q \in Numbers
      BY <1>5, <1>13 DEF Numbers
    <3> QED
      BY <3>1, <2>1, <1>7, <1>8, <1>13 DEF Policy, Observed, Agrees
  <2>6. ASSUME NEW m \in Lights PROVE Committed(patches, m)'
    BY <2>1, <1>5, <1>6, <1>13 DEF Policy, Committed, Numbers
  <2>7. ASSUME NEW m \in Lights PROVE Follows(patches, m)'
    BY <2>1, <1>9, <1>13 DEF Follows, NoneLost, IsLastOf
  <2>8. ASSUME NEW m \in Lights PROVE PendingFits(patches, m)'
    <3>1. CASE pending[m] # 0 /\ pending[m] # p
      BY <3>1, <2>1, <1>10, <1>13 DEF PendingFits, OutstandingIn, Awaits
    <3>2. CASE pending[m] = p
      <4>1. m = l /\ over[p].light = m
        BY <3>2, <1>5, <1>11 DEF l
      <4>2. m \in due' \/ reading'[m] = "newer" \/ m \in forlorn'
        BY <3>2, <4>1, <2>1, <1>4, <1>12, <1>13
      <4>3. ~(pending'[m] > since')
        BY <3>2, <2>1, <2>3, <1>1 DEF TypeOK
      <4> QED
        BY <3>2, <4>1, <4>2, <4>3, <2>1, <1>13 DEF PendingFits, Awaits
    <3>3. CASE pending[m] = 0
      BY <3>3, <2>1 DEF PendingFits
    <3> QED
      BY <3>1, <3>2, <3>3
  <2> QED
    BY <2>1, <2>4, <2>5, <2>6, <2>7, <2>8 DEF Policy
<1>14. ASSUME NEW i \in Instances, Hears(i, p),
              due' = IF NobodyKnows(reply) THEN due \cup {l} ELSE due,
              UNCHANGED <<mounted, since>>,
              \/ /\ NextGoesOut(i, patches[p].command)
                 /\ Fire(over, i, slot[i])
              \/ /\ ~NextGoesOut(i, patches[p].command)
                 /\ patches' = over
                 /\ slot' = [slot EXCEPT ![i] = Free]
                 /\ pending' = cleared
                 /\ UNCHANGED <<observing, reading, thisInstant, crossing, forlorn>>
       PROVE  Policy'
  <2>1. /\ i \in mounted /\ observing[i] = p /\ p > since
        /\ IsLastOf(patches, p, LightOf[i]) /\ LightOf[i] = l
        /\ slot[i] # Free
    BY <1>1, <1>14
    DEF Hears, Policy, Observer, IsLastOf, Outstanding, OutstandingIn, l
  <2>2. mounted \in Pages
    BY <2>1 DEF Policy
  <2>3. ASSUME NEW j \in Instances, j # i
        PROVE  Observer(over, j) /\ observing[j] # p
    <3>1. observing[j] # 0 => observing[j] \in Numbers
      BY <1>1 DEF TypeOK
    <3>2. observing[j] # p
      <4> SUFFICES ASSUME observing[j] = p PROVE FALSE
        OBVIOUS
      <4>1. j \in mounted /\ LightOf[j] = l
        BY <1>1 DEF Policy, Observer, IsLastOf, l
      <4> QED
        BY <4>1, <2>1, <2>2, <2>3, PagesAssumption
    <3> QED
      BY <3>1, <3>2, <1>6, <1>7 DEF Policy, Observer
  <2>4. ASSUME NEW q \in Numbers, OutstandingIn(over, q), q > since
        PROVE  \E j \in Instances : observing[j] = q
    BY <2>4, <1>7 DEF Policy, Observed
  <2>5. ASSUME NEW m \in Lights, m # l PROVE PendingFits(over, m)
    BY <2>5, <1>10, <1>11 DEF PendingFits
  <2>6. ASSUME NEW m \in Lights PROVE Committed(over, m)
    BY <1>5, <1>6 DEF Policy, Committed, Numbers
  <2>7. CASE NextGoesOut(i, patches[p].command) /\ Fire(over, i, slot[i])
    <3>1. slot[i] \in Commands /\ wanted[l] = slot[i]
      BY <2>1, <2>7 DEF NextGoesOut, Policy, Observer
    <3>2. ASSUME NEW q \in Numbers, OutstandingIn(over, q)
          PROVE  /\ Outstanding(q) /\ patches[q].light = over[q].light
                 /\ observing[i] # q
      BY <3>2, <2>1, <1>5, <1>7 DEF Outstanding, OutstandingIn
    <3>3. since <= Len(over)
      BY <1>1, <1>5 DEF TypeOK
    <3>4. observing[i] \in DOMAIN over /\ over[observing[i]].light = LightOf[i]
      BY <2>1, <1>5 DEF l
    <3>5. Quiet(over, i)
      BY <2>1, <2>2, <2>3, <2>4, <2>5, <2>6, <3>2, <3>3, <3>4,
         <1>5, <1>8, <1>9 DEF Quiet
    <3>6. \A m \in Lights : m \in due => m \in due'
      BY <1>14
    <3> QED
      BY <3>1, <3>5, <3>6, <2>1, <2>7, <1>5, <1>14, FirePolicy
  <2>8. CASE /\ ~NextGoesOut(i, patches[p].command)
             /\ patches' = over
             /\ slot' = [slot EXCEPT ![i] = Free]
             /\ pending' = cleared
             /\ UNCHANGED <<observing, reading, thisInstant, crossing, forlorn>>
    <3>1. /\ slot'[i] = Free /\ Numbers' = Numbers
          /\ \A j \in Instances : j # i => slot'[j] = slot[j]
      BY <2>8, <1>5 DEF TypeOK, Numbers
    <3>2. ASSUME NEW j \in Instances PROVE Observer(patches, j)'
      <4>1. CASE j = i
        <5>1. ~OutstandingIn(over, p) /\ IsLastOf(over, p, LightOf[i])
          BY <2>1, <1>6, <1>7
        <5> QED
          BY <4>1, <5>1, <3>1, <2>1, <2>8, <1>1, <1>14, SlotAssumption DEF Observer
      <4>2. CASE j # i
        BY <4>2, <3>1, <2>3, <2>8, <1>14 DEF Observer
      <4> QED
        BY <4>1, <4>2
    <3>3. ASSUME NEW q \in Numbers'
          PROVE  (Agrees(patches[q]) /\ Observed(patches, q))'
      BY <3>1, <2>4, <2>8, <1>8, <1>14 DEF Observed, Agrees
    <3>4. ASSUME NEW m \in Lights PROVE Committed(patches, m)'
      <4> SUFFICES ASSUME wanted[m] # Free
                   PROVE  \E q \in Numbers :
                             /\ IsLastOf(over, q, m)
                             /\ \/ over[q].command = wanted[m]
                                \/ m \in dropped
                                \/ \E j \in Instances :
                                      observing[j] = q /\ slot'[j] = wanted[m]
        BY <3>1, <2>8 DEF Committed, Numbers
      <4>1. PICK q \in Numbers :
               /\ IsLastOf(over, q, m)
               /\ \/ over[q].command = wanted[m]
                  \/ m \in dropped
                  \/ \E j \in Instances : observing[j] = q /\ slot[j] = wanted[m]
        BY <2>6, <1>5 DEF Committed
      <4>2. ASSUME NEW j \in Instances, observing[j] = q, slot[j] = wanted[m]
            PROVE  over[q].command = wanted[m] \/ slot'[j] = wanted[m]
        <5>1. CASE j # i
          BY <4>2, <5>1, <3>1
        <5>2. CASE j = i
          <6>1. q = p /\ wanted[m] \in Commands
            BY <4>2, <5>2, <2>1 DEF TypeOK
          <6>2. slot[i] = patches[p].command
            BY <6>1, <4>2, <5>2, <2>8 DEF NextGoesOut
          <6> QED
            BY <6>1, <6>2, <4>2, <5>2, <1>5
        <5> QED
          BY <5>1, <5>2
      <4> QED
        BY <4>1, <4>2
    <3>5. ASSUME NEW m \in Lights PROVE Follows(patches, m)'
      BY <2>8, <1>9 DEF Follows, NoneLost, IsLastOf
    <3>6. ASSUME NEW m \in Lights PROVE PendingFits(patches, m)'
      <4> SUFFICES ASSUME pending'[m] # 0 PROVE PendingFits(patches, m)'
        BY DEF PendingFits
      <4>1. pending'[m] = pending[m] /\ pending[m] # 0
        BY <2>8, <1>1, <1>4 DEF TypeOK
      <4>2. m \in due => m \in due'
        BY <1>14
      <4>3. CASE pending[m] # p
        BY <4>1, <4>2, <4>3, <2>8, <1>10, <1>14 DEF PendingFits, OutstandingIn, Awaits
      <4>4. CASE pending[m] = p
        <5>1. m = l /\ reply = "success"
          BY <4>1, <4>4, <2>8, <1>1, <1>4, <1>11 DEF TypeOK
        <5>2. over[p].light = m /\ over[p].reply = "success"
          BY <5>1, <1>5 DEF l
        <5> QED
          BY <4>1, <4>2, <4>4, <5>1, <5>2, <2>8, <1>12, <1>14 DEF PendingFits, Awaits
      <4> QED
        BY <4>3, <4>4
    <3> QED
      BY <3>2, <3>3, <3>4, <3>5, <3>6, <2>2, <1>14 DEF Policy
  <2> QED
    BY <2>7, <2>8, <1>14
<1> QED
  BY <1>3, <1>13, <1>14

LEMMA NextPolicy == TypeOK /\ Policy /\ [Next]_vars => Policy'
<1> SUFFICES ASSUME TypeOK, Policy, [Next]_vars PROVE Policy'
  OBVIOUS
<1>1. CASE Tick \/ UNCHANGED vars
  <2>1. /\ UNCHANGED <<mounted, since, slot, observing, patches, lamp, wanted,
                       dropped, crossing>>
        /\ UNCHANGED <<pending, due, reading, forlorn>>
    BY <1>1 DEF Tick, vars, uiVars
  <2>2. \A l \in Lights : pending[l] # 0 => Awaits(patches, l)'
    BY <2>1 DEF Policy, PendingFits, Awaits
  <2> QED
    BY <2>1, <2>2, StillPolicy
<1>2. CASE Leave \/ \E page \in Pages : Enter(page)
  BY <1>2, PagePolicy
<1>3. ASSUME NEW i \in Instances, NEW c \in Commands, Send(i, c) PROVE Policy'
  BY <1>3, SendPolicy
<1>4. ASSUME NEW p \in Numbers, Act(p) PROVE Policy'
  BY <1>4, ActPolicy
<1>5. ASSUME NEW p \in Numbers, ActLate(p) PROVE Policy'
  BY <1>5, LatePolicy
<1>6. ASSUME NEW p \in Numbers, Acknowledged(p) PROVE Policy'
  <2>1. /\ patches[p].stage = "acted" /\ Settle(p, patches[p].reply)
        /\ UNCHANGED <<lamp, wanted, dropped>>
    BY <1>6 DEF Acknowledged
  <2>2. patches[p].reply \in Replies /\ Outstanding(p)
    BY <2>1 DEF Policy, Agrees, Replies, Outstanding
  <2> QED
    BY <2>1, <2>2, SettlePolicy
<1>7. ASSUME NEW p \in Numbers, TimedOut(p) \/ Broken(p) PROVE Policy'
  <2>1. PICK reply \in {"outcome_unknown", "error"} : Settle(p, reply)
    BY <1>7 DEF TimedOut, Broken
  <2>2. Outstanding(p) /\ UNCHANGED <<lamp, wanted, dropped>>
    BY <1>7 DEF TimedOut, Broken
  <2>3. reply \in Replies /\ reply \notin Outcomes
    BY <2>1 DEF Replies, Outcomes
  <2> QED
    BY <2>1, <2>2, <2>3, SettlePolicy
<1>8. ASSUME NEW l \in Lights,
             AskRead(l) \/ LoseWord(l) \/ Elsewhere(l) \/ ReadArrives(l) \/ ReadFails(l)
      PROVE  Policy'
  BY <1>8, ReadPolicy
<1> QED
  BY <1>1, <1>2, <1>3, <1>4, <1>5, <1>6, <1>7, <1>8 DEF Next

-----------------------------------------------------------------------------
(* Theorems *)

(* The state of sending Commands is well formed, pages left at any time    *)
(* included.                                                               *)
THEOREM CommandsTyped == Spec => []TypeOK
BY InitTyped, NextTyped, PTL DEF Spec

LEMMA SpecPolicy == Spec => [](TypeOK /\ Policy)
<1>1. Init => TypeOK /\ Policy
  BY InitTyped, InitPolicy
<1>2. (TypeOK /\ Policy) /\ [Next]_vars => (TypeOK /\ Policy)'
  BY NextTyped, NextPolicy
<1> QED
  BY <1>1, <1>2, PTL DEF Spec

(* A visit to a page never has two PATCHes outstanding for one light,      *)
(* however many commits it sees, and whatever earlier visits left          *)
(* outstanding.                                                            *)
THEOREM OneCommandAtATime == Spec => []OneAtATime
<1>1. TypeOK /\ Policy => OneAtATime
  <2> SUFFICES ASSUME TypeOK, Policy, NEW l \in Lights,
                      NEW p \in OutstandingFor(l), NEW q \in OutstandingFor(l),
                      p > since, q > since
               PROVE  p = q
    BY DEF OneAtATime
  <2>1. 0 \notin Numbers /\ p \in Numbers /\ q \in Numbers
    BY TypedPatches DEF OutstandingFor
  <2>2. PICK i \in Instances : observing[i] = p
    BY <2>1 DEF Policy, Observed, OutstandingFor, Outstanding, OutstandingIn
  <2>3. PICK j \in Instances : observing[j] = q
    BY <2>1 DEF Policy, Observed, OutstandingFor, Outstanding, OutstandingIn
  <2>4. i \in mounted /\ j \in mounted /\ LightOf[i] = l /\ LightOf[j] = l
    BY <2>1, <2>2, <2>3 DEF Policy, Observer, IsLastOf, OutstandingFor
  <2>5. mounted \in Pages
    BY <2>4 DEF Policy
  <2> QED
    BY <2>2, <2>3, <2>4, <2>5, PagesAssumption
<1> QED
  BY <1>1, SpecPolicy, PTL

(* The last PATCH for a light is the one with the greatest number. *)
LEMMA LastIs ==
    ASSUME TypeOK, NEW l \in Lights, NEW p \in Numbers, IsLastOf(patches, p, l)
    PROVE  Last(l) = p
<1>1. Numbers = 1..Len(patches) /\ Len(patches) \in Nat
  BY TypedPatches
<1>2. \A q \in Numbers :
         /\ patches[q].light = l
         /\ \A r \in Numbers : patches[r].light = l => r <= q
         => q = p
  BY <1>1 DEF IsLastOf
<1> QED
  BY <1>2 DEF Last, IsLastOf, Numbers

(* What was committed last is dropped by nothing but a page left with it   *)
(* held.                                                                   *)
THEOREM LastCommitKept == Spec => []OnlyLeavingDrops
<1>1. TypeOK /\ Policy => OnlyLeavingDrops
  <2> SUFFICES ASSUME TypeOK, Policy, NEW l \in Lights, wanted[l] # Free
               PROVE  \/ patches[Last(l)].command = wanted[l]
                      \/ \E q \in OutstandingFor(l) :
                            \E i \in Instances :
                               Hears(i, q) /\ slot[i] = wanted[l]
                      \/ l \in dropped
    BY DEF OnlyLeavingDrops
  <2>1. PICK p \in Numbers :
           /\ IsLastOf(patches, p, l)
           /\ \/ patches[p].command = wanted[l]
              \/ l \in dropped
              \/ \E i \in Instances : observing[i] = p /\ slot[i] = wanted[l]
    BY DEF Policy, Committed, Numbers
  <2>2. Last(l) = p
    BY <2>1, LastIs
  <2>3. ASSUME NEW i \in Instances, observing[i] = p, slot[i] = wanted[l]
        PROVE  p \in OutstandingFor(l) /\ Hears(i, p)
    <3>1. p # 0
      BY TypedPatches
    <3> QED
      BY <3>1, <2>1, <2>3
      DEF Policy, Observer, IsLastOf, OutstandingFor, Outstanding, OutstandingIn,
          Hears
  <2> QED
    BY <2>1, <2>2, <2>3
<1> QED
  BY <1>1, SpecPolicy, PTL

(* A light whose Commands were all acknowledged, the last fired with none  *)
(* outstanding and a success, is as the last commit wanted it, unless that *)
(* was dropped.                                                            *)
THEOREM LastWordIsWanted == Spec => []BridgeHasLastWord
<1>1. TypeOK /\ Policy => BridgeHasLastWord
  <2> SUFFICES ASSUME TypeOK, Policy, NEW l \in Lights,
                      wanted[l] # Free, l \notin dropped \cup crossing,
                      OutstandingFor(l) = {},
                      \A q \in Numbers :
                         patches[q].light = l => patches[q].reply \in Outcomes,
                      patches[Last(l)].reply = "success"
               PROVE  patches[lamp[l]].command = wanted[l]
    BY DEF BridgeHasLastWord
  <2>1. PICK p \in Numbers :
           /\ IsLastOf(patches, p, l)
           /\ \/ patches[p].command = wanted[l]
              \/ \E i \in Instances : observing[i] = p /\ slot[i] = wanted[l]
    BY DEF Policy, Committed, Numbers
  <2>2. patches[p].command = wanted[l]
    <3> SUFFICES ASSUME NEW i \in Instances, observing[i] = p, slot[i] = wanted[l]
                 PROVE  FALSE
      BY <2>1
    <3>1. p # 0
      BY TypedPatches
    <3>2. p \in OutstandingFor(l)
      BY <3>1, <2>1
      DEF Policy, Observer, IsLastOf, OutstandingFor, Outstanding, OutstandingIn
    <3> QED
      BY <3>2
  <2>3. NoneLost(patches, l)
    BY DEF NoneLost, Numbers
  <2>4. lamp[l] = p
    BY <2>1, <2>3, LastIs DEF Policy, Follows, Numbers
  <2> QED
    BY <2>2, <2>4
<1> QED
  BY <1>1, SpecPolicy, PTL

(* Of the Commands of the page on screen none is shown pending of which it *)
(* is known that it came to nothing, or of which nothing is known.         *)
THEOREM PendingMeansSomething == Spec => []NothingPendingInVain
<1>1. TypeOK /\ Policy => NothingPendingInVain
  <2> SUFFICES ASSUME TypeOK, Policy, NEW l \in Lights, pending[l] > since,
                      ~Outstanding(pending[l])
               PROVE  patches[pending[l]].reply = "success"
    BY DEF NothingPendingInVain
  <2>1. pending[l] # 0
    BY TypedPatches DEF TypeOK
  <2> QED
    BY <2>1 DEF Policy, PendingFits, Outstanding, OutstandingIn
<1> QED
  BY <1>1, SpecPolicy, PTL

(* A Pending Command always waits for something that would settle it, but  *)
(* for a word that never came, a failed read, or a PATCH that failed with  *)
(* nobody to hear of it.                                                   *)
THEOREM PendingIsNotForgotten == Spec => []PendingIsAwaited
<1>1. TypeOK /\ Policy => PendingIsAwaited
  BY DEF Policy, PendingFits, Awaits, PendingIsAwaited, Outstanding
<1> QED
  BY <1>1, SpecPolicy, PTL
=============================================================================
