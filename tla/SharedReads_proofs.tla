------------------------- MODULE SharedReads_proofs -------------------------
(***************************************************************************)
(* What MCSharedReads checks of three reads over two keys, for every set   *)
(* of reads and keys and every number of changes.  No fairness is used.    *)
(***************************************************************************)
EXTENDS SharedReads, TLAPS

(* The RPC a read waits on is running, and was asked for the read's key. *)
WaitsOnARunningRpc ==
    \A r, i \in Reads :
        waitsOn[r] = i => /\ rpc[i] # "idle"
                          /\ keyOf[i] = keyOf[r]
                          /\ floor[i] = floor[r]

(* The read that started a running RPC waits on it. *)
StarterWaits == \A i \in Reads : rpc[i] # "idle" => waitsOn[i] = i

(* An RPC samples after it began, and the truth never goes back. *)
SampledSinceAsked ==
    /\ \A i \in Reads : rpc[i] = "sampled" => shows[i] >= floor[i]
    /\ \A r \in Reads : floor[r] <= truth

IInv ==
    /\ TypeOK
    /\ OneRpcPerKey
    /\ WaitsOnARunningRpc
    /\ StarterWaits
    /\ SampledSinceAsked
    /\ NotACache

-----------------------------------------------------------------------------
LEMMA InitIInv == Init => IInv
<1> SUFFICES ASSUME Init PROVE IInv
  OBVIOUS
<1> USE NobodyAssumption, ChangesAssumption
<1>1. TypeOK
  BY DEF Init, TypeOK, Versions
<1>2. OneRpcPerKey /\ WaitsOnARunningRpc /\ StarterWaits
  BY DEF Init, OneRpcPerKey, WaitsOnARunningRpc, StarterWaits
<1>3. SampledSinceAsked
  BY DEF Init, SampledSinceAsked
<1>4. NotACache
  BY DEF Init, NotACache
<1> QED BY <1>1, <1>2, <1>3, <1>4 DEF IInv

LEMMA ChangeIInv == IInv /\ Change => IInv'
<1> SUFFICES ASSUME IInv, Change PROVE IInv'
  OBVIOUS
<1> USE DEF IInv, Change
<1>1. TypeOK'
  BY ChangesAssumption DEF TypeOK, Versions
<1>2. OneRpcPerKey' /\ WaitsOnARunningRpc' /\ StarterWaits'
  BY DEF OneRpcPerKey, WaitsOnARunningRpc, StarterWaits
<1>3. SampledSinceAsked'
  BY DEF SampledSinceAsked, TypeOK, Versions
<1>4. NotACache'
  BY DEF NotACache, Waiting, Failed
<1> QED BY <1>1, <1>2, <1>3, <1>4

(* Reads of one key that wait, wait on one RPC, and so have one floor. *)
LEMMA OneFloor ==
    ASSUME IInv, NEW r \in Reads, NEW i \in Reads, inFlight[keyOf[r]] = i
    PROVE  FloorFor(r) = floor[i]
<1> USE DEF IInv
<1>1. keyOf[r] \in Keys
  BY DEF TypeOK
<1>2. rpc[i] # "idle" /\ keyOf[i] = keyOf[r]
  BY <1>1 DEF OneRpcPerKey
<1>3. Waiting(i)
  BY <1>2, NobodyAssumption DEF StarterWaits, Waiting
<1>4. ASSUME NEW s \in Reads, Waiting(s), keyOf[s] = keyOf[r]
      PROVE  floor[s] = floor[i]
  <2>1. PICK j \in Reads : waitsOn[s] = j
    BY <1>4 DEF TypeOK, Waiting
  <2>2. rpc[j] # "idle" /\ keyOf[j] = keyOf[r] /\ floor[j] = floor[s]
    BY <1>4, <2>1 DEF WaitsOnARunningRpc
  <2>3. inFlight[keyOf[r]] = j
    BY <1>1, <2>2 DEF OneRpcPerKey
  <2> QED BY <2>2, <2>3
<1>5. floor[i] \in Versions
  BY DEF TypeOK
<1> DEFINE Fits(v) ==
      \E s \in Reads : Waiting(s) /\ keyOf[s] = keyOf[r] /\ v = floor[s]
<1>6. Fits(floor[i])
  BY <1>2, <1>3
<1>7. \A v \in Versions : Fits(v) => v = floor[i]
  BY <1>4
<1>8. (CHOOSE v \in Versions : Fits(v)) = floor[i]
  <2> HIDE DEF Fits
  <2> QED BY <1>5, <1>6, <1>7
<1> QED
  BY <1>2, <1>3, <1>8 DEF FloorFor

(* With no RPC for its key, a read finds nobody waiting. *)
LEMMA FloorAlone ==
    ASSUME IInv, NEW r \in Reads, inFlight[keyOf[r]] = Nobody
    PROVE  FloorFor(r) = truth
<1> USE DEF IInv
<1>1. ASSUME NEW s \in Reads, Waiting(s), keyOf[s] = keyOf[r]
      PROVE  FALSE
  <2>1. PICK j \in Reads : waitsOn[s] = j
    BY <1>1 DEF TypeOK, Waiting
  <2>2. rpc[j] # "idle" /\ keyOf[j] = keyOf[r]
    BY <1>1, <2>1 DEF WaitsOnARunningRpc
  <2>3. inFlight[keyOf[r]] = j
    BY <2>2 DEF OneRpcPerKey, TypeOK
  <2> QED BY <2>3, NobodyAssumption
<1> QED BY <1>1 DEF FloorFor

(* A read that joins takes on the floor of the RPC's starter. *)
LEMMA JoinIInv ==
    ASSUME IInv, NEW r \in Reads, Begin(r), Join(r)
    PROVE  IInv'
<1> USE DEF IInv
<1>1. PICK i \in Reads : inFlight[keyOf[r]] = i
  BY DEF Join, TypeOK
<1>2. FloorFor(r) = floor[i] /\ floor[i] \in Versions
  BY <1>1, OneFloor DEF TypeOK
<1>3. rpc[i] # "idle" /\ keyOf[i] = keyOf[r]
  BY <1>1 DEF OneRpcPerKey, TypeOK
<1>4. rpc[r] = "idle" /\ r # i
  BY <1>3, NobodyAssumption DEF Begin, Waiting, StarterWaits, TypeOK
<1>5. /\ waitsOn' = [waitsOn EXCEPT ![r] = i]
      /\ floor' = [floor EXCEPT ![r] = floor[i]]
      /\ UNCHANGED <<truth, inFlight, rpc, keyOf, shows, answered>>
  BY <1>1, <1>2 DEF Begin, Join
<1>6. TypeOK'
  BY <1>2, <1>5 DEF TypeOK
<1>7. OneRpcPerKey'
  BY <1>5 DEF OneRpcPerKey
<1>8. WaitsOnARunningRpc'
  <2> SUFFICES ASSUME NEW s \in Reads, NEW j \in Reads, waitsOn'[s] = j
               PROVE  /\ rpc[j] # "idle"
                      /\ keyOf[j] = keyOf[s]
                      /\ floor'[j] = floor'[s]
    BY <1>5 DEF WaitsOnARunningRpc
  <2>1. CASE s = r
    BY <2>1, <1>3, <1>4, <1>5 DEF TypeOK
  <2>2. CASE s # r
    <3>1. waitsOn[s] = j
      BY <2>2, <1>5 DEF TypeOK
    <3>2. rpc[j] # "idle" /\ keyOf[j] = keyOf[s] /\ floor[j] = floor[s]
      BY <3>1 DEF WaitsOnARunningRpc
    <3> QED BY <2>2, <3>2, <1>4, <1>5 DEF TypeOK
  <2> QED BY <2>1, <2>2
<1>9. StarterWaits'
  BY <1>4, <1>5 DEF StarterWaits, TypeOK
<1>10. SampledSinceAsked'
  BY <1>4, <1>5 DEF SampledSinceAsked, TypeOK
<1>11. NotACache'
  <2> SUFFICES ASSUME NEW s \in Reads, waitsOn'[s] = Nobody,
                      answered[s] # Failed
               PROVE  answered[s] >= floor'[s]
    BY <1>5 DEF NotACache, Waiting, Failed
  <2>1. s # r
    BY <1>5, NobodyAssumption DEF TypeOK
  <2> QED BY <2>1, <1>5 DEF NotACache, Waiting, Failed, TypeOK
<1> QED BY <1>6, <1>7, <1>8, <1>9, <1>10, <1>11

(* A read that starts an RPC has the present truth for its floor. *)
LEMMA StartIInv ==
    ASSUME IInv, NEW r \in Reads, Begin(r), Start(r)
    PROVE  IInv'
<1> USE DEF IInv
<1>1. FloorFor(r) = truth /\ truth \in Versions
  BY FloorAlone DEF Start, TypeOK
<1>2. rpc[r] = "idle"
  BY NobodyAssumption DEF Begin, Waiting, StarterWaits, TypeOK
<1>3. /\ waitsOn' = [waitsOn EXCEPT ![r] = r]
      /\ floor' = [floor EXCEPT ![r] = truth]
      /\ rpc' = [rpc EXCEPT ![r] = "asked"]
      /\ inFlight' = [inFlight EXCEPT ![keyOf[r]] = r]
      /\ UNCHANGED <<truth, keyOf, shows, answered>>
  BY <1>1 DEF Begin, Start
<1>4. \A s \in Reads : waitsOn[s] # r
  BY <1>2 DEF WaitsOnARunningRpc
<1>5. TypeOK'
  BY <1>1, <1>3 DEF TypeOK
<1>6. OneRpcPerKey'
  <2> SUFFICES ASSUME NEW i \in Reads, NEW k \in Keys
               PROVE  rpc'[i] # "idle" /\ keyOf[i] = k <=> inFlight'[k] = i
    BY <1>3 DEF OneRpcPerKey
  <2>1. inFlight[keyOf[r]] = Nobody /\ keyOf[r] \in Keys
    BY DEF Start, TypeOK
  <2>2. rpc[i] # "idle" /\ keyOf[i] = k <=> inFlight[k] = i
    BY DEF OneRpcPerKey
  <2>3. CASE k = keyOf[r]
    BY <2>1, <2>2, <2>3, <1>2, <1>3, NobodyAssumption DEF TypeOK
  <2>4. CASE k # keyOf[r]
    BY <2>2, <2>4, <1>2, <1>3 DEF TypeOK
  <2> QED BY <2>3, <2>4
<1>7. WaitsOnARunningRpc'
  <2> SUFFICES ASSUME NEW s \in Reads, NEW j \in Reads, waitsOn'[s] = j
               PROVE  /\ rpc'[j] # "idle"
                      /\ keyOf[j] = keyOf[s]
                      /\ floor'[j] = floor'[s]
    BY <1>3 DEF WaitsOnARunningRpc
  <2>1. CASE s = r
    BY <2>1, <1>3 DEF TypeOK
  <2>2. CASE s # r
    <3>1. waitsOn[s] = j /\ j # r
      BY <2>2, <1>3, <1>4 DEF TypeOK
    <3>2. rpc[j] # "idle" /\ keyOf[j] = keyOf[s] /\ floor[j] = floor[s]
      BY <3>1 DEF WaitsOnARunningRpc
    <3> QED BY <2>2, <3>1, <3>2, <1>3 DEF TypeOK
  <2> QED BY <2>1, <2>2
<1>8. StarterWaits'
  BY <1>3 DEF StarterWaits, TypeOK
<1>9. SampledSinceAsked'
  BY <1>3 DEF SampledSinceAsked, TypeOK, Versions
<1>10. NotACache'
  <2> SUFFICES ASSUME NEW s \in Reads, waitsOn'[s] = Nobody,
                      answered[s] # Failed
               PROVE  answered[s] >= floor'[s]
    BY <1>3 DEF NotACache, Waiting, Failed
  <2>1. s # r
    BY <1>3, NobodyAssumption DEF TypeOK
  <2> QED BY <2>1, <1>3 DEF NotACache, Waiting, Failed, TypeOK
<1> QED BY <1>5, <1>6, <1>7, <1>8, <1>9, <1>10

LEMMA SampleIInv ==
    ASSUME IInv, NEW i \in Reads, Sample(i)
    PROVE  IInv'
<1> USE DEF IInv, Sample
<1>1. TypeOK'
  BY DEF TypeOK
<1>2. OneRpcPerKey' /\ StarterWaits'
  BY DEF OneRpcPerKey, StarterWaits, TypeOK
<1>3. WaitsOnARunningRpc'
  BY DEF WaitsOnARunningRpc, TypeOK
<1>4. SampledSinceAsked'
  BY DEF SampledSinceAsked, TypeOK, Versions
<1>5. NotACache'
  BY DEF NotACache, Waiting, Failed
<1> QED BY <1>1, <1>2, <1>3, <1>4, <1>5

(* A settled RPC leaves nobody waiting on it, and its key free. *)
LEMMA SettleIInv ==
    ASSUME IInv, NEW i \in Reads, NEW outcome \in Versions \cup {Failed},
           rpc[i] # "idle", outcome = Failed \/ outcome >= floor[i],
           Settle(i, outcome),
           UNCHANGED <<truth, keyOf, shows, floor>>
    PROVE  IInv'
<1> USE DEF IInv, Settle
<1>1. TypeOK'
  <2>1. answered' \in [Reads -> Versions \cup {Failed}]
    BY DEF TypeOK
  <2>2. waitsOn' \in [Reads -> Reads \cup {Nobody}]
    BY DEF TypeOK
  <2>3. Failed' = Failed /\ Versions' = Versions
    BY DEF Failed, Versions
  <2> QED BY <2>1, <2>2, <2>3 DEF TypeOK
<1>2. inFlight[keyOf[i]] = i /\ keyOf[i] \in Keys
  BY DEF OneRpcPerKey, TypeOK
<1>3. OneRpcPerKey'
  <2> SUFFICES ASSUME NEW j \in Reads, NEW k \in Keys
               PROVE  rpc'[j] # "idle" /\ keyOf[j] = k <=> inFlight'[k] = j
    BY DEF OneRpcPerKey
  <2>1. rpc[j] # "idle" /\ keyOf[j] = k <=> inFlight[k] = j
    BY DEF OneRpcPerKey
  <2>2. CASE k = keyOf[i]
    BY <2>1, <2>2, <1>2, NobodyAssumption DEF TypeOK
  <2>3. CASE k # keyOf[i]
    BY <2>1, <2>3, <1>2 DEF TypeOK
  <2> QED BY <2>2, <2>3
<1>4. WaitsOnARunningRpc'
  <2> SUFFICES ASSUME NEW s \in Reads, NEW j \in Reads, waitsOn'[s] = j
               PROVE  /\ rpc'[j] # "idle"
                      /\ keyOf[j] = keyOf[s]
                      /\ floor[j] = floor[s]
    BY DEF WaitsOnARunningRpc
  <2>1. waitsOn[s] = j /\ j # i
    BY NobodyAssumption DEF Sharers, TypeOK
  <2> QED BY <2>1 DEF WaitsOnARunningRpc, TypeOK
<1>5. StarterWaits'
  <2> SUFFICES ASSUME NEW j \in Reads, rpc'[j] # "idle"
               PROVE  waitsOn'[j] = j
    BY DEF StarterWaits
  <2>1. j # i /\ rpc[j] # "idle"
    BY DEF TypeOK
  <2>2. waitsOn[j] = j
    BY <2>1 DEF StarterWaits
  <2> QED BY <2>1, <2>2 DEF Sharers
<1>6. SampledSinceAsked'
  BY DEF SampledSinceAsked, TypeOK
<1>7. NotACache'
  <2> SUFFICES ASSUME NEW s \in Reads, waitsOn'[s] = Nobody,
                      answered'[s] # Failed
               PROVE  answered'[s] >= floor[s]
    BY DEF NotACache, Waiting, Failed
  <2>1. CASE waitsOn[s] = i
    <3>1. floor[i] = floor[s]
      BY <2>1 DEF WaitsOnARunningRpc
    <3>2. answered'[s] = outcome
      BY <2>1 DEF Sharers
    <3> QED BY <3>1, <3>2
  <2>2. CASE waitsOn[s] # i
    <3>1. answered'[s] = answered[s] /\ waitsOn[s] = Nobody
      BY <2>2 DEF Sharers
    <3> QED BY <3>1 DEF NotACache, Waiting
  <2> QED BY <2>1, <2>2
<1> QED BY <1>1, <1>3, <1>4, <1>5, <1>6, <1>7

LEMMA NextIInv == IInv /\ [Next]_vars => IInv'
<1> SUFFICES ASSUME IInv, [Next]_vars PROVE IInv'
  OBVIOUS
<1>1. CASE Change
  BY <1>1, ChangeIInv
<1>2. ASSUME NEW r \in Reads, Begin(r) PROVE IInv'
  BY <1>2, JoinIInv, StartIInv DEF Begin
<1>3. ASSUME NEW r \in Reads, Sample(r) PROVE IInv'
  BY <1>3, SampleIInv
<1>4. ASSUME NEW r \in Reads, Answer(r) PROVE IInv'
  <2>1. shows[r] \in Versions /\ shows[r] >= floor[r] /\ rpc[r] # "idle"
    BY <1>4 DEF Answer, IInv, TypeOK, SampledSinceAsked
  <2> QED BY <1>4, <2>1, SettleIInv DEF Answer
<1>5. ASSUME NEW r \in Reads, Fail(r) PROVE IInv'
  BY <1>5, SettleIInv DEF Fail
<1>6. CASE UNCHANGED vars
  BY <1>6 DEF vars, IInv, TypeOK, OneRpcPerKey, WaitsOnARunningRpc,
              StarterWaits, SampledSinceAsked, NotACache, Waiting, Failed,
              Versions
<1> QED BY <1>1, <1>2, <1>3, <1>4, <1>5, <1>6 DEF Next

(* Every reachable state satisfies the invariant. *)
THEOREM ReadsInvariant == Spec => []IInv
BY InitIInv, NextIInv, PTL DEF Spec

(* Every variable stays in its type. *)
THEOREM ReadsTyped == Spec => []TypeOK
<1>1. IInv => TypeOK
  BY DEF IInv
<1> QED BY <1>1, ReadsInvariant, PTL

(* One RPC per key at most, and the map names exactly those running. *)
THEOREM OneRpcAtATime == Spec => []OneRpcPerKey
<1>1. IInv => OneRpcPerKey
  BY DEF IInv
<1> QED BY <1>1, ReadsInvariant, PTL

(* However reads come and go and whichever fail, none is answered with     *)
(* less than had happened when the first of those it shares with began.    *)
THEOREM SharingIsNotCaching == Spec => []NotACache
<1>1. IInv => NotACache
  BY DEF IInv
<1> QED BY <1>1, ReadsInvariant, PTL
=============================================================================
