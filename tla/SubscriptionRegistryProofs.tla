--------------------- MODULE SubscriptionRegistryProofs ---------------------
(***************************************************************************)
(* Proofs about SubscriptionRegistry for any sets of connections, ids,     *)
(* patterns, filters and events and any limits: types and limits, the slot *)
(* discipline of the slab, what the maps hold for each connection (nothing *)
(* leaks, nothing registered loses its bits, the bitmap path answers like  *)
(* the linear one), and the circuit breaker in front of the index.         *)
(***************************************************************************)
EXTENDS SubscriptionRegistry, CircuitBreaker, SequenceTheorems, FiniteSetTheorems, TLAPS

\* What the type invariant needs about the locals of a task: inside an
\* operation cur is a subscription, and the keys of a plan in progress are
\* composite keys.
Busy(c) == pc[c] \notin {"idle", "next"}

CurOK == \A c \in Conns : Busy(c) => cur[c] \in Sub

WorkOK == \A c \in Conns : pc[c] = "index" =>
             \A i \in DOMAIN work[c] : work[c][i][2].step = "key" => work[c][i] \in CompositeKeys

TypeInv == TypeOK /\ CurOK /\ WorkOK

-----------------------------------------------------------------------------
\* The plan of a subscription is a sequence of updates for its pattern, whose
\* key updates are composite keys.
LEMMA PlanType ==
  ASSUME NEW s \in Sub
  PROVE  /\ PlanOf(s) \in Seq(Patterns \X Steps)
         /\ \A i \in DOMAIN PlanOf(s) : PlanOf(s)[i][2].step = "key" => PlanOf(s)[i] \in CompositeKeys
<1>1. s.flt \in Filters /\ s.pat \in Patterns
  BY DEF Sub
<1>2. Plan[s.flt] \in Seq(Steps)
  BY <1>1, IndexAssumption DEF IndexAssumption
<1>3. PlanOf(s) \in Seq(Patterns \X Steps)
  BY <1>1, <1>2 DEF PlanOf
<1>4. ASSUME NEW i \in DOMAIN PlanOf(s), PlanOf(s)[i][2].step = "key"
      PROVE  PlanOf(s)[i] \in CompositeKeys
  <2>1. i \in DOMAIN Plan[s.flt] /\ PlanOf(s)[i] = <<s.pat, Plan[s.flt][i]>>
    BY <1>2 DEF PlanOf
  <2>2. Plan[s.flt][i] \in AllKeys
    BY <1>1, <1>4, <2>1 DEF AllKeys, IsKey
  <2> QED
    BY <1>1, <2>1, <2>2 DEF CompositeKeys
<1> QED
  BY <1>3, <1>4

\* Composite keys are updates.
LEMMA KeysAreSteps == CompositeKeys \subseteq Patterns \X Steps
<1>1. AllKeys \subseteq Steps
  <2> SUFFICES ASSUME NEW f \in Filters, NEW i \in DOMAIN Plan[f] PROVE Plan[f][i] \in Steps
    BY DEF AllKeys
  <2> QED
    BY IndexAssumption DEF IndexAssumption
<1> QED
  BY <1>1 DEF CompositeKeys

\* So are sequences of them.
LEMMA KeySeqs == Seq(CompositeKeys) \subseteq Seq(Patterns \X Steps)
  BY KeysAreSteps

\* The key of a subscription.
LEMMA KeyType == ASSUME NEW s \in Sub PROVE KeyOf(s) \in SubKey
  BY DEF Sub, SubKey, KeyOf

-----------------------------------------------------------------------------
\* An update of a function keeps its type.
LEMMA Update ==
  ASSUME NEW D, NEW R, NEW f \in [D -> R], NEW d, NEW e \in R
  PROVE  [f EXCEPT ![d] = e] \in [D -> R]
  OBVIOUS

\* What a step may take from a non-empty sequence.
LEMMA SeqParts ==
  ASSUME NEW S, NEW s \in Seq(S), s # <<>>
  PROVE  /\ Len(s) \in Nat /\ Len(s) > 0
         /\ Head(s) = s[1] /\ Head(s) \in S
         /\ s[Len(s)] \in S
         /\ Tail(s) \in Seq(S)
         /\ \A i \in DOMAIN Tail(s) : i + 1 \in DOMAIN s /\ Tail(s)[i] = s[i + 1]
         /\ SubSeq(s, 1, Len(s) - 1) \in Seq(S)
         /\ Len(SubSeq(s, 1, Len(s) - 1)) = Len(s) - 1
         /\ \A i \in 1..(Len(s) - 1) : SubSeq(s, 1, Len(s) - 1)[i] = s[i]
<1>1. Len(s) \in Nat /\ Len(s) > 0
  OBVIOUS
<1>2. Head(s) = s[1] /\ Head(s) \in S /\ s[Len(s)] \in S
  BY <1>1
<1>3. /\ Tail(s) \in Seq(S)
      /\ \A i \in DOMAIN Tail(s) : i + 1 \in DOMAIN s /\ Tail(s)[i] = s[i + 1]
  BY <1>1
<1>4. /\ SubSeq(s, 1, Len(s) - 1) \in Seq(S)
      /\ Len(SubSeq(s, 1, Len(s) - 1)) = Len(s) - 1
      /\ \A i \in 1..(Len(s) - 1) : SubSeq(s, 1, Len(s) - 1)[i] = s[i]
  <2> DEFINE n == Len(s) - 1
  <2>1. n \in Nat /\ n <= Len(s) /\ 1..n \subseteq 1..Len(s)
    BY <1>1
  <2>2. \A i \in 1..n : s[i] \in S
    BY <2>1
  <2> HIDE DEF n
  <2>3. SubSeq(s, 1, n) = [i \in 1..n |-> s[i]]
    BY <2>1, <2>2
  <2>4. SubSeq(s, 1, n) \in Seq(S) /\ Len(SubSeq(s, 1, n)) = n
    BY <2>1, <2>2, <2>3
  <2>5. \A i \in 1..n : SubSeq(s, 1, n)[i] = s[i]
    BY <2>3
  <2> QED
    BY <2>4, <2>5 DEF n
<1> QED
  BY <1>1, <1>2, <1>3, <1>4

\* Appending to a sequence.
LEMMA AppendParts ==
  ASSUME NEW S, NEW s \in Seq(S), NEW e \in S
  PROVE  /\ Append(s, e) \in Seq(S)
         /\ Len(Append(s, e)) = Len(s) + 1
         /\ \A i \in 1..Len(s) : Append(s, e)[i] = s[i]
         /\ Append(s, e)[Len(s) + 1] = e
  OBVIOUS

\* Overwriting one position of a sequence.
LEMMA SeqUpdate ==
  ASSUME NEW S, NEW s \in Seq(S), NEW d, NEW e \in S
  PROVE  /\ [s EXCEPT ![d] = e] \in Seq(S)
         /\ Len([s EXCEPT ![d] = e]) = Len(s)
<1> DEFINE t == [s EXCEPT ![d] = e]
<1>1. s \in [1..Len(s) -> S] /\ Len(s) \in Nat
  OBVIOUS
<1>2. t \in [1..Len(s) -> S]
  BY <1>1
<1> HIDE DEF t
<1>3. t \in Seq(S) /\ Len(t) = Len(s)
  BY <1>1, <1>2
<1> QED
  BY <1>3 DEF t

-----------------------------------------------------------------------------
\* The types hold initially.
LEMMA InitTypes == Init => TypeInv
<1> SUFFICES ASSUME Init PROVE TypeInv
  OBVIOUS
<1> USE DEF Init, IndexInit
<1>1. TypeOK
  BY DEF TypeOK, SlabTypes, MapTypes, LocalTypes, WorkTypes, RegTypes, RouterTypes, PCs
<1>2. CurOK
  BY DEF CurOK, Busy
<1>3. WorkOK
  BY DEF WorkOK
<1> QED
  BY <1>1, <1>2, <1>3 DEF TypeInv

\* The steps of alloc_slot keep the types.
LEMMA AllocTypes ==
  ASSUME TypeInv, NEW c \in Conns, UNCHANGED <<regVars, router>>,
         AllocPop(c) \/ AllocWrite(c) \/ AllocPush(c)
  PROVE  TypeInv'
<1> USE DEF TypeInv, TypeOK
<1>0. /\ MapTypes' /\ WorkTypes' /\ RegTypes' /\ RouterTypes'
      /\ cur' = cur
  BY DEF AllocPop, AllocWrite, AllocPush, MapTypes, WorkTypes, RegTypes, RouterTypes, regVars
<1>1. cur[c] \in Sub
  BY DEF AllocPop, AllocWrite, AllocPush, CurOK, Busy
<1>2. CASE AllocPop(c)
  <2>1. CASE freeSlots = <<>>
    <3>1. SlabTypes'
      BY <1>2, <2>1 DEF AllocPop, SlabTypes
    <3>2. pc' = [pc EXCEPT ![c] = "push"] /\ slot' = slot
      BY <1>2, <2>1 DEF AllocPop
    <3>3. LocalTypes'
      BY <1>0, <3>2 DEF LocalTypes, PCs
    <3>4. CurOK' /\ WorkOK'
      BY <1>0, <1>1, <1>2, <3>2 DEF AllocPop, CurOK, WorkOK, Busy, LocalTypes
    <3> QED
      BY <1>0, <3>1, <3>3, <3>4
  <2>2. CASE freeSlots # <<>>
    <3>0. /\ freeSlots[Len(freeSlots)] \in Nat
          /\ SubSeq(freeSlots, 1, Len(freeSlots) - 1) \in Seq(Nat)
      BY <2>2, SeqParts DEF SlabTypes
    <3>1. SlabTypes'
      BY <1>2, <2>2, <3>0 DEF AllocPop, SlabTypes
    <3>2. /\ pc' = [pc EXCEPT ![c] = "write"]
          /\ slot' = [slot EXCEPT ![c] = freeSlots[Len(freeSlots)]]
      BY <1>2, <2>2 DEF AllocPop
    <3>3. LocalTypes'
      BY <1>0, <3>0, <3>2 DEF LocalTypes, PCs
    <3>4. CurOK' /\ WorkOK'
      BY <1>0, <1>1, <1>2, <3>2 DEF AllocPop, CurOK, WorkOK, Busy, LocalTypes
    <3> QED
      BY <1>0, <3>1, <3>3, <3>4
  <2> QED
    BY <2>1, <2>2
<1>3. CASE AllocWrite(c)
  <2>1. SlabTypes'
    BY <1>1, <1>3, SeqUpdate DEF AllocWrite, SlabTypes
  <2>2. pc' = [pc EXCEPT ![c] = "register"] /\ slot' = slot /\ work' = work
    BY <1>3 DEF AllocWrite
  <2>3. LocalTypes'
    BY <1>0, <2>2 DEF LocalTypes, PCs
  <2>4. CurOK' /\ WorkOK'
    BY <1>0, <1>1, <2>2 DEF CurOK, WorkOK, Busy, LocalTypes
  <2> QED
    BY <1>0, <2>1, <2>3, <2>4
<1>4. CASE AllocPush(c)
  <2>1. SlabTypes'
    BY <1>1, <1>4, AppendParts DEF AllocPush, SlabTypes
  <2>2. /\ pc' = [pc EXCEPT ![c] = "register"] /\ work' = work
        /\ slot' = [slot EXCEPT ![c] = Len(slots) + 1]
    BY <1>4 DEF AllocPush
  <2>3. Len(slots) + 1 \in Nat
    BY DEF SlabTypes
  <2>4. LocalTypes'
    BY <1>0, <2>2, <2>3 DEF LocalTypes, PCs
  <2>5. CurOK' /\ WorkOK'
    BY <1>0, <1>1, <2>2 DEF CurOK, WorkOK, Busy, LocalTypes
  <2> QED
    BY <1>0, <2>1, <2>4, <2>5
<1> QED
  BY <1>2, <1>3, <1>4

\* add_subscription's registration and index_filter's updates keep the types.
LEMMA IndexTypes ==
  ASSUME TypeInv, NEW c \in Conns, UNCHANGED <<regVars, router>>,
         Register(c) \/ IndexStep(c)
  PROVE  TypeInv'
<1> USE DEF TypeInv, TypeOK
<1>0. SlabTypes' /\ RegTypes' /\ RouterTypes' /\ cur' = cur /\ slot' = slot
  BY DEF Register, IndexStep, SlabTypes, RegTypes, RouterTypes, regVars
<1>1. cur[c] \in Sub /\ cur[c].pat \in Patterns
  BY DEF Register, IndexStep, CurOK, Busy, Sub
<1>2. CASE Register(c)
  <2>0. slot[c] \in Nat
    BY DEF LocalTypes
  <2>1. MapTypes'
    <3>1. slotBySub' \in [SubKey -> Nat]
      BY <1>2, <2>0, Update DEF Register, MapTypes
    <3>2. patterns' \subseteq Patterns
      BY <1>1, <1>2 DEF Register, MapTypes
    <3> QED
      BY <1>2, <3>1, <3>2 DEF Register, MapTypes
  <2>2. /\ pc' = [pc EXCEPT ![c] = "index"]
        /\ work' = [work EXCEPT ![c] = PlanOf(cur[c])]
        /\ tracked' = [tracked EXCEPT ![c] = <<>>]
    BY <1>2 DEF Register
  <2>3. LocalTypes'
    BY <1>0, <2>2 DEF LocalTypes, PCs
  <2>4. WorkTypes'
    <3>1. work' \in [Conns -> Seq(Patterns \X Steps)]
      BY <1>1, <2>2, PlanType, Update DEF WorkTypes
    <3>2. tracked' \in [Conns -> Seq(CompositeKeys)]
      BY <2>2, Update DEF WorkTypes
    <3> QED
      BY <3>1, <3>2 DEF WorkTypes
  <2>5. CurOK'
    BY <1>0, <1>1, <2>2 DEF CurOK, Busy, LocalTypes
  <2>6. WorkOK'
    <3> SUFFICES ASSUME NEW d \in Conns, pc'[d] = "index", NEW i \in DOMAIN work'[d],
                        work'[d][i][2].step = "key"
                 PROVE  work'[d][i] \in CompositeKeys
      BY DEF WorkOK
    <3>1. CASE d = c
      <4>1. work'[d] = PlanOf(cur[c])
        BY <2>2, <3>1 DEF WorkTypes
      <4> QED
        BY <1>1, <4>1, PlanType
    <3>2. CASE d # c
      <4>1. pc[d] = "index" /\ work'[d] = work[d]
        BY <2>2, <3>2 DEF WorkTypes, LocalTypes
      <4> QED
        BY <4>1 DEF WorkOK
    <3> QED
      BY <3>1, <3>2
  <2> QED
    BY <1>0, <2>1, <2>3, <2>4, <2>5, <2>6
<1>3. CASE IndexStep(c)
  <2> DEFINE ck == Head(work[c])
  <2>0. /\ work[c] \in Seq(Patterns \X Steps) /\ work[c] # <<>> /\ pc[c] = "index"
        /\ slot[c] \in Nat
    BY <1>3 DEF IndexStep, WorkTypes, LocalTypes
  <2>1. /\ ck \in Patterns \X Steps /\ ck = work[c][1] /\ 1 \in DOMAIN work[c]
        /\ Tail(work[c]) \in Seq(Patterns \X Steps)
        /\ \A i \in DOMAIN Tail(work[c]) : i + 1 \in DOMAIN work[c] /\ Tail(work[c])[i] = work[c][i + 1]
    BY <2>0, SeqParts
  <2>2. ck[2].step = "key" => ck \in CompositeKeys
    BY <2>0, <2>1 DEF WorkOK
  <2>3. ck[2].field \in Fields \cup {""}
    BY <2>1 DEF Steps
  <2>4. pc' = pc /\ work' = [work EXCEPT ![c] = Tail(work[c])]
    BY <1>3 DEF IndexStep
  <2> HIDE DEF ck
  <2>5. /\ index' \in [CompositeKeys -> SUBSET Nat]
        /\ unfiltered' \in [Patterns -> SUBSET Nat]
        /\ fields' \in [Patterns -> SUBSET (Fields \cup {""})]
        /\ tracked' \in [Conns -> Seq(CompositeKeys)]
        /\ keyCount' \in Int
    <3>1. CASE /\ ck[2].step = "key"
               /\ index' = [index EXCEPT ![ck] = @ \cup {slot[c]}]
               /\ keyCount' = keyCount + 1
               /\ tracked' = [tracked EXCEPT ![c] = Append(@, ck)]
               /\ UNCHANGED <<unfiltered, fields>>
      <4>1. index' \in [CompositeKeys -> SUBSET Nat]
        BY <2>0, <2>2, <3>1 DEF MapTypes
      <4>2. Append(tracked[c], ck) \in Seq(CompositeKeys)
        BY <2>2, <3>1, AppendParts DEF WorkTypes
      <4>3. tracked' \in [Conns -> Seq(CompositeKeys)]
        BY <3>1, <4>2 DEF WorkTypes
      <4>4. keyCount' \in Int
        <5>1. keyCount \in Int
          BY DEF MapTypes
        <5>2. keyCount' = keyCount + 1
          BY <3>1
        <5> QED
          BY <5>1, <5>2
      <4>5. /\ unfiltered' \in [Patterns -> SUBSET Nat]
            /\ fields' \in [Patterns -> SUBSET (Fields \cup {""})]
        BY <3>1 DEF MapTypes
      <4> QED
        BY <4>1, <4>3, <4>4, <4>5
    <3>2. CASE /\ fields' = [fields EXCEPT ![cur[c].pat] = @ \cup {ck[2].field}]
               /\ UNCHANGED <<index, keyCount, tracked, unfiltered>>
      <4>1. fields' \in [Patterns -> SUBSET (Fields \cup {""})]
        BY <1>1, <2>3, <3>2 DEF MapTypes
      <4> QED
        BY <3>2, <4>1 DEF MapTypes, WorkTypes
    <3>3. CASE /\ unfiltered' = [unfiltered EXCEPT ![cur[c].pat] = @ \cup {slot[c]}]
               /\ UNCHANGED <<index, keyCount, tracked, fields>>
      <4>1. unfiltered' \in [Patterns -> SUBSET Nat]
        BY <1>1, <2>0, <3>3 DEF MapTypes
      <4> QED
        BY <3>3, <4>1 DEF MapTypes, WorkTypes
    <3> QED
      BY <1>3, <3>1, <3>2, <3>3 DEF IndexStep, ck
  <2>6. MapTypes'
    BY <1>3, <2>5 DEF IndexStep, MapTypes
  <2>7. LocalTypes' /\ CurOK'
    BY <1>0, <2>4 DEF LocalTypes, CurOK, Busy
  <2>8. WorkTypes'
    BY <2>1, <2>4, <2>5 DEF WorkTypes
  <2>9. WorkOK'
    <3> SUFFICES ASSUME NEW d \in Conns, pc'[d] = "index", NEW i \in DOMAIN work'[d],
                        work'[d][i][2].step = "key"
                 PROVE  work'[d][i] \in CompositeKeys
      BY DEF WorkOK
    <3>1. CASE d = c
      <4>1. work'[d] = Tail(work[c])
        BY <2>4, <3>1 DEF WorkTypes
      <4> QED
        BY <2>0, <2>1, <4>1 DEF WorkOK
    <3>2. CASE d # c
      <4>1. pc[d] = "index" /\ work'[d] = work[d]
        BY <2>4, <3>2 DEF WorkTypes, LocalTypes
      <4> QED
        BY <4>1 DEF WorkOK
    <3> QED
      BY <3>1, <3>2
  <2> QED
    BY <1>0, <2>6, <2>7, <2>8, <2>9
<1> QED
  BY <1>2, <1>3

\* The steps of free_slot and remove_subscription keep the types.
LEMMA RemoveTypes ==
  ASSUME TypeInv, NEW c \in Conns, UNCHANGED <<regVars, router>>,
         FreeClear(c) \/ FreeRelease(c) \/ Unfilter(c) \/ UnindexStep(c)
  PROVE  TypeInv'
<1> USE DEF TypeInv, TypeOK
<1>0. RegTypes' /\ RouterTypes' /\ cur' = cur /\ slot' = slot
  BY DEF FreeClear, FreeRelease, Unfilter, UnindexStep, RegTypes, RouterTypes, regVars
<1>1. cur[c] \in Sub /\ cur[c].pat \in Patterns /\ slot[c] \in Nat
  BY DEF FreeClear, FreeRelease, Unfilter, UnindexStep, CurOK, Busy, Sub, LocalTypes
<1>2. CASE FreeClear(c) \/ FreeRelease(c)
  <2>1. SlabTypes'
    <3>1. CASE FreeClear(c)
      BY <3>1, SeqUpdate DEF FreeClear, SlabTypes
    <3>2. CASE FreeRelease(c)
      BY <1>1, <3>2, AppendParts DEF FreeRelease, SlabTypes
    <3> QED
      BY <1>2, <3>1, <3>2
  <2>2. MapTypes' /\ WorkTypes' /\ work' = work
    BY <1>2 DEF FreeClear, FreeRelease, MapTypes, WorkTypes
  <2>3. /\ pc' = [pc EXCEPT ![c] = "release"] \/ pc' = [pc EXCEPT ![c] = "unfilter"]
        /\ Busy(c)
    BY <1>2 DEF FreeClear, FreeRelease, Busy
  <2>4. LocalTypes'
    BY <1>0, <2>3 DEF LocalTypes, PCs
  <2>5. CurOK' /\ WorkOK'
    BY <1>0, <1>1, <2>2, <2>3 DEF CurOK, WorkOK, Busy, LocalTypes
  <2> QED
    BY <1>0, <2>1, <2>2, <2>4, <2>5
<1>3. CASE Unfilter(c)
  <2> DEFINE keys == subKeys[KeyOf(cur[c])]
  <2>1. keys \in Seq(CompositeKeys) /\ keys \in Seq(Patterns \X Steps)
    BY <1>1, KeyType, KeySeqs DEF MapTypes
  <2>2. /\ pc' = [pc EXCEPT ![c] = "unindex"]
        /\ work' = [work EXCEPT ![c] = keys]
        /\ tracked' = [tracked EXCEPT ![c] = keys]
        /\ unfiltered' = [unfiltered EXCEPT ![cur[c].pat] = unfiltered[cur[c].pat] \ {slot[c]}]
        /\ subKeys' = [subKeys EXCEPT ![KeyOf(cur[c])] = <<>>]
    BY <1>3 DEF Unfilter
  <2> HIDE DEF keys
  <2>3. SlabTypes'
    BY <1>3 DEF Unfilter, SlabTypes
  <2>4. MapTypes'
    <3>1. unfiltered' \in [Patterns -> SUBSET Nat]
      BY <1>1, <2>2 DEF MapTypes
    <3>2. subKeys' \in [SubKey -> Seq(CompositeKeys)]
      <4>1. subKeys \in [SubKey -> Seq(CompositeKeys)]
        BY DEF MapTypes
      <4>2. subKeys' = [subKeys EXCEPT ![KeyOf(cur[c])] = <<>>]
        BY <2>2
      <4> QED
        BY <4>1, <4>2, Update, EmptySeq
    <3> QED
      BY <1>3, <3>1, <3>2 DEF Unfilter, MapTypes
  <2>5. WorkTypes'
    BY <2>1, <2>2 DEF WorkTypes
  <2>6. LocalTypes'
    BY <1>0, <2>2 DEF LocalTypes, PCs
  <2>7. CurOK'
    BY <1>0, <1>1, <2>2 DEF CurOK, Busy, LocalTypes
  <2>8. WorkOK'
    <3> SUFFICES ASSUME NEW d \in Conns, pc'[d] = "index"
                 PROVE  pc[d] = "index" /\ work'[d] = work[d]
      BY DEF WorkOK
    <3>1. d # c
      BY <2>2 DEF LocalTypes
    <3> QED
      BY <2>2, <3>1 DEF LocalTypes, WorkTypes
  <2> QED
    BY <1>0, <2>3, <2>4, <2>5, <2>6, <2>7, <2>8
<1>4. CASE UnindexStep(c)
  <2>0. SlabTypes' /\ pc[c] = "unindex"
    BY <1>4 DEF UnindexStep, SlabTypes
  <2>1. CASE work[c] # <<>>
    <3>1. /\ pc' = pc /\ tracked' = tracked /\ keyCount' = keyCount
          /\ work' = [work EXCEPT ![c] = Tail(work[c])]
          /\ index' = [index EXCEPT ![Head(work[c])] = index[Head(work[c])] \ {slot[c]}]
      BY <1>4, <2>1 DEF UnindexStep
    <3>2. Tail(work[c]) \in Seq(Patterns \X Steps)
      BY <2>1, SeqParts DEF WorkTypes
    <3>3. index' \in [CompositeKeys -> SUBSET Nat]
      BY <3>1 DEF MapTypes
    <3>4. MapTypes'
      BY <1>4, <3>1, <3>3 DEF UnindexStep, MapTypes
    <3>5. WorkTypes'
      BY <3>1, <3>2 DEF WorkTypes
    <3>6. LocalTypes' /\ CurOK'
      BY <1>0, <3>1 DEF LocalTypes, CurOK, Busy
    <3>7. WorkOK'
      BY <2>0, <3>1 DEF WorkOK, WorkTypes, LocalTypes
    <3> QED
      BY <1>0, <2>0, <3>4, <3>5, <3>6, <3>7
  <2>2. CASE work[c] = <<>>
    <3>1. /\ pc' = [pc EXCEPT ![c] = "next"] /\ index' = index /\ work' = work
          /\ tracked' = [tracked EXCEPT ![c] = <<>>]
          /\ keyCount' = keyCount - Len(tracked[c])
      BY <1>4, <2>2 DEF UnindexStep
    <3>2. Len(tracked[c]) \in Nat
      BY DEF WorkTypes
    <3>3. keyCount' \in Int
      <4>1. keyCount \in Int
        BY DEF MapTypes
      <4>2. keyCount' = keyCount - Len(tracked[c])
        BY <3>1
      <4> QED
        BY <3>2, <4>1, <4>2
    <3>4. MapTypes'
      BY <1>4, <3>1, <3>3 DEF UnindexStep, MapTypes
    <3>5. WorkTypes'
      BY <3>1, Update DEF WorkTypes
    <3>6. LocalTypes'
      BY <1>0, <3>1 DEF LocalTypes, PCs
    <3>7. CurOK' /\ WorkOK'
      BY <1>0, <3>1 DEF CurOK, WorkOK, Busy, LocalTypes
    <3> QED
      BY <1>0, <2>0, <3>4, <3>5, <3>6, <3>7
  <2> QED
    BY <2>1, <2>2
<1> QED
  BY <1>2, <1>3, <1>4

\* How many of the positions K come up to i.
Rank(K, i) == Cardinality({j \in K : j <= i})

\* The ranks of positions number them without a gap.
LEMMA Ranks ==
  ASSUME NEW N \in Nat, NEW K \in SUBSET (1..N)
  PROVE  /\ IsFiniteSet(K) /\ Cardinality(K) \in Nat /\ Cardinality(K) <= N
         /\ \A i \in K : Rank(K, i) \in 1..Cardinality(K)
         /\ \A i, j \in K : Rank(K, i) = Rank(K, j) => i = j
         /\ \A n \in 1..Cardinality(K) : \E i \in K : Rank(K, i) = n
<1> DEFINE Upto(i) == {j \in K : j <= i}
           r == Cardinality(K)
           f == [i \in K |-> Rank(K, i)]
<1>1. IsFiniteSet(K) /\ r \in Nat /\ r <= N
  <2>1. IsFiniteSet(1..N) /\ Cardinality(1..N) <= N
    BY FS_Interval
  <2>2. IsFiniteSet(K) /\ Cardinality(K) <= Cardinality(1..N)
    BY <2>1, FS_Subset
  <2> QED
    BY <2>1, <2>2, FS_CardinalityType
<1>2. ASSUME NEW i \in K PROVE /\ IsFiniteSet(Upto(i)) /\ Rank(K, i) = Cardinality(Upto(i))
                               /\ Rank(K, i) \in 1..r
  <2>1. IsFiniteSet(Upto(i)) /\ Cardinality(Upto(i)) <= r
    BY <1>1, FS_Subset
  <2>2. Upto(i) # {}
    OBVIOUS
  <2>3. Cardinality(Upto(i)) \in Nat /\ Cardinality(Upto(i)) # 0
    BY <2>1, <2>2, FS_CardinalityType, FS_EmptySet
  <2> QED
    BY <1>1, <2>1, <2>3 DEF Rank
<1>3. ASSUME NEW i \in K, NEW j \in K, i < j PROVE Rank(K, i) # Rank(K, j)
  <2>0. \A k \in K : k \in Nat
    OBVIOUS
  <2>5. \A k \in K : k <= i => k <= j
    BY <1>3, <2>0
  <2>6. j <= j /\ ~(j <= i)
    BY <1>3, <2>0
  <2>1. Upto(i) \in SUBSET Upto(j) /\ j \in Upto(j) /\ j \notin Upto(i)
    BY <2>5, <2>6
  <2>2. Upto(i) # Upto(j)
    BY <2>1
  <2>3. IsFiniteSet(Upto(j)) /\ Rank(K, j) = Cardinality(Upto(j)) /\ Rank(K, i) = Cardinality(Upto(i))
    BY <1>2
  <2> HIDE DEF Upto
  <2> QED
    BY <2>1, <2>2, <2>3, FS_Subset
<1>4. \A i, j \in K : Rank(K, i) = Rank(K, j) => i = j
  <2> SUFFICES ASSUME NEW i \in K, NEW j \in K, Rank(K, i) = Rank(K, j) PROVE i = j
    OBVIOUS
  <2>1. i < j \/ j < i \/ i = j
    OBVIOUS
  <2> QED
    BY <1>3, <2>1
<1>5. f \in Surjection(K, 1..r)
  <2>1. f \in Injection(K, 1..r)
    BY <1>2, <1>4 DEF Injection, IsInjective
  <2>2. IsFiniteSet(1..r) /\ Cardinality(1..r) = r
    BY <1>1, FS_Interval
  <2> HIDE DEF f, r
  <2>3. Cardinality(K) = Cardinality(1..r)
    BY <2>2 DEF r
  <2> QED
    BY <2>1, <2>2, <2>3, FS_Injection
<1>6. \A n \in 1..r : \E i \in K : Rank(K, i) = n
  BY <1>5 DEF Surjection
<1> QED
  BY <1>1, <1>2, <1>4, <1>6

\* Vec::retain returns the entries with another id, all of them and no other.
LEMMA RetainFacts ==
  ASSUME NEW S, NEW s \in Seq(S), NEW id
  PROVE  /\ Retain(s, id) \in Seq(S) /\ Len(Retain(s, id)) \in Nat /\ Len(Retain(s, id)) <= Len(s)
         /\ \A n \in DOMAIN Retain(s, id) :
               \E i \in DOMAIN s : Retain(s, id)[n] = s[i] /\ s[i].id # id
         /\ \A i \in DOMAIN s : s[i].id # id =>
               \E n \in DOMAIN Retain(s, id) : Retain(s, id)[n] = s[i]
<1> DEFINE K == {i \in DOMAIN s : s[i].id # id}
           r == Cardinality(K)
           Nth(n) == CHOOSE i \in K : Rank(K, i) = n
           t == [n \in 1..r |-> s[Nth(n)]]
<1>1. Retain(s, id) = t
  BY DEF Retain, Rank
<1>2. Len(s) \in Nat /\ DOMAIN s = 1..Len(s) /\ K \in SUBSET (1..Len(s))
  OBVIOUS
<1>3. /\ r \in Nat /\ r <= Len(s)
      /\ \A i \in K : Rank(K, i) \in 1..r
      /\ \A i, j \in K : Rank(K, i) = Rank(K, j) => i = j
      /\ \A n \in 1..r : \E i \in K : Rank(K, i) = n
  <2> HIDE DEF K
  <2> QED
    BY <1>2, Ranks
<1>4. ASSUME NEW n \in 1..r PROVE Nth(n) \in K /\ Rank(K, Nth(n)) = n
  <2>1. \E i \in K : Rank(K, i) = n
    BY <1>3
  <2> HIDE DEF K
  <2> QED
    BY <2>1
<1>5. \A i \in K : i \in DOMAIN s /\ s[i].id # id /\ s[i] \in S
  OBVIOUS
<1>10. \A i \in DOMAIN s : s[i].id # id => i \in K
  OBVIOUS
<1> HIDE DEF K, Nth
<1>6. t \in [1..r -> S]
  BY <1>4, <1>5
<1>7. t \in Seq(S) /\ Len(t) = r /\ DOMAIN t = 1..r
  BY <1>3, <1>6
<1>8. \A n \in 1..r : \E i \in DOMAIN s : t[n] = s[i] /\ s[i].id # id
  BY <1>4, <1>5
<1>9. ASSUME NEW i \in DOMAIN s, s[i].id # id PROVE \E n \in DOMAIN t : t[n] = s[i]
  <2>1. i \in K /\ Rank(K, i) \in 1..r
    BY <1>3, <1>10, <1>9
  <2>2. Nth(Rank(K, i)) = i
    BY <1>3, <1>4, <2>1
  <2> QED
    BY <2>1, <2>2, <1>7
<1> HIDE DEF t, r
<1> QED
  BY <1>1, <1>3, <1>7, <1>8, <1>9

\* What Detach does to the task that runs remove_subscription.
LEMMA DetachTypes ==
  ASSUME TypeInv, NEW c \in Conns, NEW entry \in Sub, Detach(c, entry),
         pc[c] \in {"idle", "next"}
  PROVE  /\ SlabTypes' /\ MapTypes' /\ LocalTypes' /\ WorkTypes' /\ CurOK' /\ WorkOK'
         /\ bySubId' \in [SubKey -> Sub \cup {NoSub}]
<1> USE DEF TypeInv, TypeOK
<1>0. KeyOf(entry) \in SubKey
  BY KeyType
<1>1. SlabTypes' /\ WorkTypes' /\ work' = work
  BY DEF Detach, SlabTypes, WorkTypes
<1>2. MapTypes'
  <2>1. slotBySub' \in [SubKey -> Nat]
    BY DEF Detach, MapTypes
  <2> QED
    BY <2>1 DEF Detach, MapTypes
<1>3. bySubId' \in [SubKey -> Sub \cup {NoSub}]
  BY DEF Detach, RegTypes
<1>4. slotBySub[KeyOf(entry)] \in Nat
  BY <1>0 DEF MapTypes
<1>5. \/ pc' = [pc EXCEPT ![c] = "next"] /\ cur' = cur /\ slot' = slot
      \/ /\ pc' = [pc EXCEPT ![c] = "clear"]
         /\ cur' = [cur EXCEPT ![c] = entry]
         /\ slot' = [slot EXCEPT ![c] = slotBySub[KeyOf(entry)]]
  BY DEF Detach
<1>6. LocalTypes'
  BY <1>4, <1>5 DEF LocalTypes, PCs
<1>7. CurOK'
  BY <1>5 DEF CurOK, Busy, LocalTypes
<1>8. WorkOK'
  BY <1>1, <1>5 DEF WorkOK, LocalTypes
<1> QED
  BY <1>1, <1>2, <1>3, <1>6, <1>7, <1>8

\* The registry's own operations keep the types.
LEMMA AddOpTypes ==
  ASSUME TypeInv, NEW c \in Conns, Subscribe(c) \/ Link(c)
  PROVE  TypeInv'
<1> USE DEF TypeInv, TypeOK
<1>1. CASE Subscribe(c)
  <2>1. PICK r \in SubsOf[c] :
           cur' = [cur EXCEPT ![c] = [conn |-> c, id |-> r.id, pat |-> r.pat, flt |-> r.flt]]
    BY <1>1 DEF Subscribe
  <2>2. [conn |-> c, id |-> r.id, pat |-> r.pat, flt |-> r.flt] \in Sub
    BY <2>1, RegistryAssumption DEF RegistryAssumption, Sub
  <2>3. SlabTypes' /\ MapTypes' /\ WorkTypes' /\ RegTypes' /\ RouterTypes'
    BY <1>1 DEF Subscribe, SlabTypes, MapTypes, WorkTypes, RegTypes, RouterTypes, indexVars, regVars
  <2>4. pc' = [pc EXCEPT ![c] = "alloc"] /\ slot' = slot /\ work' = work
    BY <1>1 DEF Subscribe
  <2>5. LocalTypes'
    BY <2>1, <2>2, <2>4 DEF LocalTypes, PCs
  <2>6. CurOK'
    BY <2>1, <2>2, <2>4 DEF CurOK, Busy, LocalTypes
  <2>7. WorkOK'
    BY <2>4 DEF WorkOK, LocalTypes
  <2> QED
    BY <2>3, <2>5, <2>6, <2>7
<1>2. CASE Link(c)
  <2>0. /\ cur[c] \in Sub /\ cur[c].pat \in Patterns /\ cur[c].id \in SubIds
        /\ KeyOf(cur[c]) \in SubKey /\ pc[c] = "index"
    BY <1>2, KeyType DEF Link, CurOK, Busy, Sub
  <2>1. SlabTypes' /\ RouterTypes'
    BY <1>2 DEF Link, SlabTypes, RouterTypes
  <2>2. MapTypes'
    <3>1. tracked[c] \in Seq(CompositeKeys)
      BY DEF WorkTypes
    <3>2. subKeys' \in [SubKey -> Seq(CompositeKeys)]
      BY <1>2, <3>1, Update DEF Link, MapTypes
    <3> QED
      BY <1>2, <3>2 DEF Link, MapTypes
  <2>3. RegTypes'
    <3>1. byConnection' \in [Conns -> Seq(Sub)]
      <4>1. byConnection' = [byConnection EXCEPT ![c] = Append(byConnection[c], cur[c])]
        BY <1>2 DEF Link
      <4>2. byConnection \in [Conns -> Seq(Sub)] /\ Append(byConnection[c], cur[c]) \in Seq(Sub)
        BY <2>0, AppendParts DEF RegTypes
      <4> QED
        BY <4>1, <4>2, Update
    <3>2. byTopic' \subseteq Patterns \X Conns \X SubIds
      BY <1>2, <2>0 DEF Link, RegTypes
    <3>3. bySubId' \in [SubKey -> Sub \cup {NoSub}]
      BY <1>2, <2>0 DEF Link, RegTypes
    <3> QED
      BY <1>2, <3>1, <3>2, <3>3 DEF Link, RegTypes
  <2>4. /\ pc' = [pc EXCEPT ![c] = "next"] /\ cur' = cur /\ slot' = slot /\ work' = work
        /\ tracked' = [tracked EXCEPT ![c] = <<>>]
    BY <1>2 DEF Link
  <2>5. LocalTypes'
    BY <2>4 DEF LocalTypes, PCs
  <2>6. WorkTypes'
    BY <2>4, Update, EmptySeq DEF WorkTypes
  <2>7. CurOK' /\ WorkOK'
    BY <2>4 DEF CurOK, WorkOK, Busy, LocalTypes
  <2> QED
    BY <2>1, <2>2, <2>3, <2>5, <2>6, <2>7
<1> QED
  BY <1>1, <1>2

\* unsubscribe and remove_connection keep the types.
LEMMA RemoveOpTypes ==
  ASSUME TypeInv, NEW c \in Conns,
         Unsubscribe(c) \/ RemoveConnection(c) \/ RemoveEntry(c) \/ Return(c)
  PROVE  TypeInv'
<1> USE DEF TypeInv, TypeOK
<1>1. CASE Unsubscribe(c)
  <2>1. PICK id \in SubIds :
          /\ bySubId[<<c, id>>] # NoSub
          /\ byConnection' = [byConnection EXCEPT ![c] = Retain(byConnection[c], id)]
          /\ byTopic' = byTopic \ {<<bySubId[<<c, id>>].pat, c, id>>}
          /\ Detach(c, bySubId[<<c, id>>])
    BY <1>1 DEF Unsubscribe
  <2>2. bySubId[<<c, id>>] \in Sub
    BY <2>1 DEF RegTypes, SubKey
  <2>3. /\ SlabTypes' /\ MapTypes' /\ LocalTypes' /\ WorkTypes' /\ CurOK' /\ WorkOK'
        /\ bySubId' \in [SubKey -> Sub \cup {NoSub}]
    BY <1>1, <2>1, <2>2, DetachTypes DEF Unsubscribe
  <2>4. byConnection' \in [Conns -> Seq(Sub)]
    <3>1. byConnection \in [Conns -> Seq(Sub)] /\ byConnection[c] \in Seq(Sub)
      BY DEF RegTypes
    <3>2. Retain(byConnection[c], id) \in Seq(Sub)
      BY <3>1, RetainFacts
    <3> QED
      BY <2>1, <3>1, <3>2, Update
  <2>5. byTopic' \subseteq Patterns \X Conns \X SubIds
    BY <2>1 DEF RegTypes
  <2>6. RegTypes' /\ RouterTypes'
    BY <1>1, <2>3, <2>4, <2>5 DEF Unsubscribe, RegTypes, RouterTypes
  <2> QED
    BY <2>3, <2>6
<1>2. CASE RemoveConnection(c)
  <2>1. SlabTypes' /\ MapTypes' /\ WorkTypes' /\ RouterTypes'
    BY <1>2 DEF RemoveConnection, SlabTypes, MapTypes, WorkTypes, RouterTypes, indexVars
  <2>2. /\ pc' = [pc EXCEPT ![c] = "next"] /\ cur' = cur /\ slot' = slot /\ work' = work
        /\ alive' = alive \ {c} /\ byTopic' = byTopic /\ bySubId' = bySubId
        /\ todo' = [todo EXCEPT ![c] = byConnection[c]]
        /\ byConnection' = [byConnection EXCEPT ![c] = <<>>]
    BY <1>2 DEF RemoveConnection
  <2>3. RegTypes'
    <3>1. /\ byConnection \in [Conns -> Seq(Sub)] /\ byConnection[c] \in Seq(Sub)
          /\ todo \in [Conns -> Seq(Sub)]
      BY DEF RegTypes
    <3>2. byConnection' \in [Conns -> Seq(Sub)] /\ todo' \in [Conns -> Seq(Sub)]
      BY <2>2, <3>1, Update, EmptySeq
    <3> QED
      BY <2>2, <3>2 DEF RegTypes
  <2>4. LocalTypes'
    BY <2>2 DEF LocalTypes, PCs
  <2>5. CurOK' /\ WorkOK'
    BY <2>2 DEF CurOK, WorkOK, Busy, LocalTypes
  <2> QED
    BY <2>1, <2>3, <2>4, <2>5
<1>3. CASE RemoveEntry(c)
  <2>1. /\ todo[c] \in Seq(Sub) /\ todo[c] # <<>> /\ Detach(c, Head(todo[c])) /\ pc[c] = "next"
        /\ todo' = [todo EXCEPT ![c] = Tail(todo[c])]
        /\ byTopic' \subseteq byTopic /\ byConnection' = byConnection /\ alive' = alive
    BY <1>3 DEF RemoveEntry, RegTypes
  <2>2. Head(todo[c]) \in Sub /\ Tail(todo[c]) \in Seq(Sub)
    BY <2>1, SeqParts
  <2>3. /\ SlabTypes' /\ MapTypes' /\ LocalTypes' /\ WorkTypes' /\ CurOK' /\ WorkOK'
        /\ bySubId' \in [SubKey -> Sub \cup {NoSub}]
    BY <2>1, <2>2, DetachTypes
  <2>4. RegTypes'
    BY <2>1, <2>2, <2>3 DEF RegTypes
  <2>5. RouterTypes'
    BY <1>3 DEF RemoveEntry, RouterTypes
  <2> QED
    BY <2>3, <2>4, <2>5
<1>4. CASE Return(c)
  <2>1. SlabTypes' /\ MapTypes' /\ WorkTypes' /\ RegTypes' /\ RouterTypes'
    BY <1>4 DEF Return, SlabTypes, MapTypes, WorkTypes, RegTypes, RouterTypes, indexVars, regVars
  <2>2. /\ pc' = [pc EXCEPT ![c] = "idle"] /\ cur' = [cur EXCEPT ![c] = NoSub] /\ work' = work
        /\ slot' = [slot EXCEPT ![c] = 0]
    BY <1>4 DEF Return
  <2>3. LocalTypes'
    BY <2>2 DEF LocalTypes, PCs
  <2>4. CurOK' /\ WorkOK'
    BY <2>2 DEF CurOK, WorkOK, Busy, LocalTypes
  <2> QED
    BY <2>1, <2>3, <2>4
<1> QED
  BY <1>1, <1>2, <1>3, <1>4

\* The unions of for_each_match are sets of slot ids.
LEMMA UnionTypes ==
  ASSUME MapTypes, NEW e
  PROVE  UnfilteredUnion(e) \subseteq Nat /\ FullUnion(e) \subseteq Nat
<1>1. MatchingPatterns(e) \subseteq Patterns
  BY DEF MatchingPatterns, MapTypes
<1>2. \A p \in MatchingPatterns(e) : unfiltered[p] \subseteq Nat
  BY <1>1 DEF MapTypes
<1>3. UnfilteredUnion(e) \subseteq Nat
  BY <1>2 DEF UnfilteredUnion
<1>4. \A p \in MatchingPatterns(e) : \A k \in LookedUp(p, e) : index[<<p, k>>] \subseteq Nat
  BY <1>1 DEF MapTypes, LookedUp, CompositeKeys
<1>5. \A p \in MatchingPatterns(e) : UNION {index[<<p, k>>] : k \in LookedUp(p, e)} \subseteq Nat
  BY <1>4
<1>6. UNION {UNION {index[<<p, k>>] : k \in LookedUp(p, e)} : p \in MatchingPatterns(e)} \subseteq Nat
  BY <1>5
<1> QED
  BY <1>3, <1>6, Zenon DEF FullUnion

\* The router's evaluation keeps the types.
LEMMA RouterStepTypes ==
  ASSUME TypeInv,
         (\E e \in Events, path \in {"full", "degraded"} : Evaluate(e, path)) \/ Dispatch
  PROVE  TypeInv'
<1> USE DEF TypeInv, TypeOK
<1>1. SlabTypes' /\ MapTypes' /\ LocalTypes' /\ WorkTypes' /\ RegTypes' /\ CurOK' /\ WorkOK'
  BY DEF Evaluate, Dispatch, SlabTypes, MapTypes, LocalTypes, WorkTypes, RegTypes, CurOK, WorkOK,
         Busy, indexVars, localVars, regVars
<1>2. RouterTypes'
  <2>1. CASE Dispatch
    BY <2>1 DEF Dispatch, RouterTypes
  <2>2. CASE \E e \in Events, path \in {"full", "degraded"} : Evaluate(e, path)
    <3>1. PICK e \in Events, path \in {"full", "degraded"} : Evaluate(e, path)
      BY <2>2
    <3>2. UnfilteredUnion(e) \subseteq Nat /\ FullUnion(e) \subseteq Nat
      BY UnionTypes
    <3> QED
      BY <3>1, <3>2 DEF Evaluate, RouterTypes
  <2> QED
    BY <2>1, <2>2
<1> QED
  BY <1>1, <1>2

\* Every step keeps the types.
LEMMA NextTypes == TypeInv /\ [Next]_vars => TypeInv'
<1> SUFFICES ASSUME TypeInv, [Next]_vars PROVE TypeInv'
  OBVIOUS
<1>1. CASE UNCHANGED vars
  <2>1. SlabTypes' /\ MapTypes'
    BY <1>1 DEF TypeInv, TypeOK, SlabTypes, MapTypes, vars, indexVars
  <2>2. LocalTypes' /\ WorkTypes' /\ CurOK' /\ WorkOK'
    BY <1>1 DEF TypeInv, TypeOK, LocalTypes, WorkTypes, CurOK, WorkOK, Busy, vars, localVars
  <2>3. RegTypes' /\ RouterTypes'
    BY <1>1 DEF TypeInv, TypeOK, RegTypes, RouterTypes, vars, regVars
  <2> QED
    BY <2>1, <2>2, <2>3 DEF TypeInv, TypeOK
<1>2. ASSUME NEW c \in Conns, ConnStep(c) PROVE TypeInv'
  <2>1. CASE Subscribe(c) \/ Link(c)
    BY <2>1, AddOpTypes
  <2>2. CASE Unsubscribe(c) \/ RemoveConnection(c) \/ RemoveEntry(c) \/ Return(c)
    BY <2>2, RemoveOpTypes
  <2>3. CASE IndexNext(c) /\ UNCHANGED <<regVars, router>>
    BY <2>3, AllocTypes, IndexTypes, RemoveTypes DEF IndexNext
  <2> QED
    BY <1>2, <2>1, <2>2, <2>3 DEF ConnStep
<1> QED
  BY <1>1, <1>2, RouterStepTypes DEF Next

\* The registry's state keeps its types along every behaviour: every map holds
\* what its Rust type says, and inside an operation the task's subscription is
\* one and its pending key updates are composite keys of the index.
THEOREM RegistryTypes == Spec => []TypeOK
<1>1. TypeInv => TypeOK
  BY DEF TypeInv
<1> QED
  BY <1>1, InitTypes, NextTypes, PTL DEF Spec

-----------------------------------------------------------------------------
\* While a subscribe is in progress its connection still has room: the guard
\* was read before, and only this task adds entries for this connection.
Adding(c) == pc[c] \in {"alloc", "write", "push", "register", "index"}

CapInv == \A c \in Conns : /\ Len(byConnection[c]) <= MaxPerConn
                           /\ Adding(c) => Len(byConnection[c]) < MaxPerConn

\* What a task's step does to its own entries and, as far as the cap goes, to
\* its progress.
LEMMA CapOwnStep ==
  ASSUME TypeInv, CapInv, NEW c \in Conns, ConnStep(c)
  PROVE  /\ Len(byConnection'[c]) <= MaxPerConn
         /\ Adding(c)' => Len(byConnection'[c]) < MaxPerConn
<1> USE DEF TypeInv, TypeOK
<1>0. /\ byConnection \in [Conns -> Seq(Sub)] /\ Len(byConnection[c]) \in Nat
      /\ MaxPerConn \in Nat
  BY RegistryAssumption DEF RegTypes, RegistryAssumption
<1>1. CASE Subscribe(c)
  BY <1>0, <1>1 DEF Subscribe, SubscriptionGuards, regVars
<1>2. CASE Link(c)
  <2>1. cur[c] \in Sub /\ byConnection[c] \in Seq(Sub) /\ Adding(c)
    BY <1>2 DEF Link, CurOK, Busy, RegTypes, Adding
  <2>2. byConnection'[c] = Append(byConnection[c], cur[c]) /\ pc'[c] = "next"
    BY <1>2 DEF Link, RegTypes, LocalTypes
  <2>3. Len(byConnection'[c]) = Len(byConnection[c]) + 1
    BY <2>1, <2>2, AppendParts
  <2> QED
    BY <1>0, <2>1, <2>2, <2>3 DEF CapInv, Adding
<1>3. CASE Unsubscribe(c)
  <2>1. PICK id \in SubIds : byConnection' = [byConnection EXCEPT ![c] = Retain(byConnection[c], id)]
    BY <1>3 DEF Unsubscribe
  <2> DEFINE kept == Retain(byConnection[c], id)
  <2>2. byConnection[c] \in Seq(Sub) /\ byConnection'[c] = kept
    BY <1>0, <2>1
  <2>3. Len(kept) <= Len(byConnection[c]) /\ Len(kept) \in Nat
    BY <2>2, RetainFacts
  <2> HIDE DEF kept
  <2>4. pc'[c] \in {"next", "clear"}
    BY <1>3 DEF Unsubscribe, Detach, LocalTypes
  <2> QED
    BY <1>0, <2>2, <2>3, <2>4 DEF CapInv, Adding
<1>4. CASE RemoveConnection(c)
  <2>1. byConnection'[c] = <<>> /\ pc'[c] = "next"
    BY <1>4 DEF RemoveConnection, RegTypes, LocalTypes
  <2> QED
    BY <1>0, <2>1 DEF Adding
<1>5. CASE RemoveEntry(c) \/ Return(c)
  <2>1. byConnection' = byConnection /\ pc'[c] \in {"next", "clear", "idle"}
    BY <1>5 DEF RemoveEntry, Return, Detach, LocalTypes, regVars
  <2> QED
    BY <2>1 DEF CapInv, Adding
<1>6. CASE IndexNext(c) /\ UNCHANGED <<regVars, router>>
  <2>1. byConnection' = byConnection
    BY <1>6 DEF regVars
  <2>2. Adding(c)' => Adding(c)
    BY <1>6 DEF IndexNext, AllocPop, AllocWrite, AllocPush, Register, IndexStep, FreeClear,
                FreeRelease, Unfilter, UnindexStep, Adding, LocalTypes
  <2> QED
    BY <2>1, <2>2 DEF CapInv
<1> QED
  BY <1>1, <1>2, <1>3, <1>4, <1>5, <1>6 DEF ConnStep

\* A task's step leaves the other connections' entries and progress alone.
LEMMA CapOtherStep ==
  ASSUME TypeInv, NEW c \in Conns, ConnStep(c), NEW d \in Conns, d # c
  PROVE  byConnection'[d] = byConnection[d] /\ pc'[d] = pc[d]
<1> USE DEF TypeInv, TypeOK, LocalTypes, RegTypes
<1>1. CASE Subscribe(c) \/ Link(c) \/ RemoveConnection(c) \/ RemoveEntry(c) \/ Return(c)
  BY <1>1 DEF Subscribe, Link, RemoveConnection, RemoveEntry, Return, Detach, regVars
<1>2. CASE Unsubscribe(c)
  BY <1>2 DEF Unsubscribe, Detach
<1>3. CASE IndexNext(c) /\ UNCHANGED <<regVars, router>>
  BY <1>3 DEF IndexNext, AllocPop, AllocWrite, AllocPush, Register, IndexStep, FreeClear,
              FreeRelease, Unfilter, UnindexStep, regVars
<1> QED
  BY <1>1, <1>2, <1>3 DEF ConnStep

\* No step of any task disturbs the cap.
LEMMA NextCap == TypeInv /\ CapInv /\ [Next]_vars => CapInv'
<1> SUFFICES ASSUME TypeInv, CapInv, [Next]_vars PROVE CapInv'
  OBVIOUS
<1>1. CASE UNCHANGED <<byConnection, pc>>
  BY <1>1 DEF CapInv, Adding
<1>2. ASSUME NEW c \in Conns, ConnStep(c) PROVE CapInv'
  BY <1>2, CapOwnStep, CapOtherStep DEF CapInv, Adding
<1>3. CASE (\E e \in Events, path \in {"full", "degraded"} : Evaluate(e, path)) \/ Dispatch
  BY <1>1, <1>3 DEF Evaluate, Dispatch, localVars, regVars
<1> QED
  BY <1>1, <1>2, <1>3 DEF Next, vars, localVars, regVars

\* The cap of check_subscription_guards holds exactly, for any number of
\* connections subscribing at the same time, although it is read long before
\* the entry is pushed.
THEOREM ConnectionCapIsExact == Spec => []PerConnectionCap
<1>1. Init => CapInv
  BY RegistryAssumption DEF Init, IndexInit, CapInv, Adding, RegistryAssumption
<1>2. CapInv => PerConnectionCap
  BY DEF CapInv, PerConnectionCap
<1> QED
  BY <1>1, <1>2, InitTypes, NextTypes, NextCap, PTL DEF Spec


-----------------------------------------------------------------------------
(***************************************************************************)
(* The slot discipline of the filter index: ids found in a bitmap stay     *)
(* inside the slab, a slot has at most one holder, and a registered slot   *)
(* holds its own subscription.                                             *)
(***************************************************************************)

\* The steps between which a task relies on its slot id.
UsesSlot(c) ==
    pc[c] \in {"write", "register", "index", "clear", "release", "unfilter", "unindex"}

SlotBounds == \A c \in Conns : UsesSlot(c) => slot[c] \in Ids

\* What a held slot contains: the subscription about to be registered, or
\* nothing before the write and after the clear.
SlotContents ==
    \A c \in Conns : /\ pc[c] = "register" => slots[slot[c]] = cur[c]
                     /\ pc[c] \in {"write", "release"} => slots[slot[c]] = NoSub

SlotInv == SlotBounds /\ BitmapInBounds /\ SlotExclusive /\ OwnerAgrees /\ SlotContents

-----------------------------------------------------------------------------
\* The slot ids are the positions of the slab.
LEMMA IdsType == ASSUME TypeInv PROVE Len(slots) \in Nat /\ Ids \subseteq Nat \ {0}
  BY DEF TypeInv, TypeOK, SlabTypes, Ids

\* The steps of one connection's task, told apart by what they do to the
\* slab, the free list, slot_by_sub and the slot the task holds.
Others(c) == \A d \in Conns \ {c} : pc'[d] = pc[d] /\ slot'[d] = slot[d] /\ cur'[d] = cur[d]

Quiet(c) == /\ UNCHANGED <<slots, freeSlots, slotBySub>>
            /\ ~Holding(c) /\ pc'[c] \notin {"write", "register", "clear", "release"}

Pop(c) == /\ UNCHANGED <<slots, slotBySub>>
          /\ freeSlots # <<>>
          /\ pc[c] = "alloc" /\ pc'[c] = "write"
          /\ slot'[c] = freeSlots[Len(freeSlots)]
          /\ freeSlots' = SubSeq(freeSlots, 1, Len(freeSlots) - 1)

Write(c) == /\ UNCHANGED <<freeSlots, slotBySub>>
            /\ pc[c] = "write" /\ pc'[c] = "register"
            /\ slot'[c] = slot[c] /\ cur'[c] = cur[c] /\ cur[c] \in Sub
            /\ slots' = [slots EXCEPT ![slot[c]] = cur[c]]

Push(c) == /\ UNCHANGED <<freeSlots, slotBySub>>
           /\ pc[c] = "push" /\ pc'[c] = "register"
           /\ slot'[c] = Len(slots) + 1 /\ cur'[c] = cur[c] /\ cur[c] \in Sub
           /\ slots' = Append(slots, cur[c])

Enter(c) == /\ UNCHANGED <<slots, freeSlots>>
            /\ pc[c] = "register" /\ pc'[c] = "index"
            /\ slot'[c] = slot[c] /\ cur[c] \in Sub
            /\ slotBySub' = [slotBySub EXCEPT ![KeyOf(cur[c])] = slot[c]]

Leave(c) == /\ UNCHANGED <<slots, freeSlots>>
            /\ ~Holding(c) /\ pc'[c] = "clear"
            /\ \E k \in SubKey : /\ slotBySub[k] # 0 /\ slot'[c] = slotBySub[k]
                                 /\ slotBySub' = [slotBySub EXCEPT ![k] = 0]

Clear(c) == /\ UNCHANGED <<freeSlots, slotBySub>>
            /\ pc[c] = "clear" /\ pc'[c] = "release"
            /\ slot'[c] = slot[c]
            /\ slots' = [slots EXCEPT ![slot[c]] = NoSub]

Release(c) == /\ UNCHANGED <<slots, slotBySub>>
              /\ pc[c] = "release" /\ pc'[c] = "unfilter"
              /\ slot'[c] = slot[c]
              /\ freeSlots' = Append(freeSlots, slot[c])

SlotStep(c) == /\ Others(c)
               /\ \/ Quiet(c) \/ Pop(c) \/ Write(c) \/ Push(c) \/ Enter(c) \/ Leave(c)
                  \/ Clear(c) \/ Release(c)

\* Detach takes the slot of the entry, or finds none.
LEMMA DetachSlot ==
  ASSUME TypeInv, NEW c \in Conns, NEW entry \in Sub, Detach(c, entry),
         pc[c] \in {"idle", "next"}
  PROVE  SlotStep(c)
<1>1. KeyOf(entry) \in SubKey /\ ~Holding(c)
  BY KeyType DEF Holding
<1>2. Others(c)
  BY DEF Detach, Others, TypeInv, TypeOK, LocalTypes
<1>3. CASE slotBySub[KeyOf(entry)] = 0
  <2>1. slotBySub' = slotBySub
    BY <1>1, <1>3 DEF Detach, TypeInv, TypeOK, MapTypes
  <2>2. Quiet(c)
    BY <1>1, <1>3, <2>1 DEF Detach, Quiet, TypeInv, TypeOK, LocalTypes
  <2> QED
    BY <1>2, <2>2 DEF SlotStep
<1>4. CASE slotBySub[KeyOf(entry)] # 0
  <2>1. Leave(c)
    BY <1>1, <1>4 DEF Detach, Leave, TypeInv, TypeOK, LocalTypes
  <2> QED
    BY <1>2, <2>1 DEF SlotStep
<1> QED
  BY <1>3, <1>4

\* Every step of a task is one of them.
LEMMA StepKinds == ASSUME TypeInv, NEW c \in Conns, ConnStep(c) PROVE SlotStep(c)
<1> USE DEF TypeInv, TypeOK, LocalTypes
<1>1. CASE Subscribe(c) \/ Link(c) \/ RemoveConnection(c) \/ Return(c)
  <2>1. Others(c)
    BY <1>1 DEF Subscribe, Link, RemoveConnection, Return, Others
  <2>2. Quiet(c)
    BY <1>1 DEF Subscribe, Link, RemoveConnection, Return, Quiet, Holding, indexVars
  <2> QED
    BY <2>1, <2>2 DEF SlotStep
<1>2. CASE Unsubscribe(c)
  <2>1. PICK id \in SubIds : bySubId[<<c, id>>] # NoSub /\ Detach(c, bySubId[<<c, id>>])
    BY <1>2 DEF Unsubscribe
  <2>2. bySubId[<<c, id>>] \in Sub
    BY <2>1 DEF RegTypes, SubKey
  <2> QED
    BY <1>2, <2>1, <2>2, DetachSlot DEF Unsubscribe
<1>3. CASE RemoveEntry(c)
  <2>1. Head(todo[c]) \in Sub
    BY <1>3, SeqParts DEF RemoveEntry, RegTypes
  <2> QED
    BY <1>3, <2>1, DetachSlot DEF RemoveEntry
<1>4. CASE IndexStep(c) \/ Unfilter(c) \/ UnindexStep(c)
  <2>1. Others(c)
    BY <1>4 DEF IndexStep, Unfilter, UnindexStep, Others
  <2>2. Quiet(c)
    BY <1>4 DEF IndexStep, Unfilter, UnindexStep, Quiet, Holding
  <2> QED
    BY <2>1, <2>2 DEF SlotStep
<1>5. CASE AllocPop(c)
  <2>1. Others(c)
    BY <1>5 DEF AllocPop, Others
  <2>2. Quiet(c) \/ Pop(c)
    BY <1>5 DEF AllocPop, Quiet, Pop, Holding
  <2> QED
    BY <2>1, <2>2 DEF SlotStep
<1>6. CASE AllocWrite(c) \/ AllocPush(c) \/ Register(c)
  <2>1. Others(c)
    BY <1>6 DEF AllocWrite, AllocPush, Register, Others
  <2>2. cur[c] \in Sub
    BY <1>6 DEF AllocWrite, AllocPush, Register, CurOK, Busy
  <2>3. Write(c) \/ Push(c) \/ Enter(c)
    BY <1>6, <2>2 DEF AllocWrite, AllocPush, Register, Write, Push, Enter
  <2> QED
    BY <2>1, <2>3 DEF SlotStep
<1>7. CASE FreeClear(c) \/ FreeRelease(c)
  <2>1. Others(c)
    BY <1>7 DEF FreeClear, FreeRelease, Others
  <2>2. Clear(c) \/ Release(c)
    BY <1>7 DEF FreeClear, FreeRelease, Clear, Release
  <2> QED
    BY <2>1, <2>2 DEF SlotStep
<1> QED
  BY <1>1, <1>2, <1>3, <1>4, <1>5, <1>6, <1>7 DEF ConnStep, IndexNext

-----------------------------------------------------------------------------
\* The slab never shrinks.
LEMMA SlabGrows ==
  ASSUME TypeInv, NEW c \in Conns, SlotStep(c)
  PROVE  Ids \subseteq Ids'
<1>1. slots \in Seq(Sub \cup {NoSub}) /\ Len(slots) \in Nat
  BY DEF TypeInv, TypeOK, SlabTypes
<1>2. Len(slots') = Len(slots) \/ Len(slots') = Len(slots) + 1
  <2>1. CASE slots' = slots
    BY <2>1
  <2>2. CASE Write(c)
    BY <1>1, <2>2, SeqUpdate DEF Write
  <2>3. CASE Push(c)
    BY <1>1, <2>3, AppendParts DEF Push
  <2>4. CASE Clear(c)
    BY <1>1, <2>4, SeqUpdate DEF Clear
  <2> QED
    BY <2>1, <2>2, <2>3, <2>4 DEF SlotStep, Quiet, Pop, Enter, Leave, Release
<1> QED
  BY <1>1, <1>2 DEF Ids

\* The slot id a task relies on stays inside the slab.
LEMMA SlotBoundsStep ==
  ASSUME TypeInv, SlotBounds, BitmapInBounds, NEW c \in Conns, ConnStep(c)
  PROVE  SlotBounds'
<1>1. SlotStep(c) /\ Ids \subseteq Ids'
  BY StepKinds, SlabGrows
<1>2. ASSUME UsesSlot(c)' PROVE slot'[c] \in Ids'
  <2> USE DEF TypeInv, TypeOK, LocalTypes
  <2>1. CASE UsesSlot(c) /\ slot'[c] = slot[c]
    BY <1>1, <2>1 DEF SlotBounds
  <2>2. CASE Pop(c)
    <3>1. Len(freeSlots) \in DOMAIN freeSlots
      BY <2>2 DEF Pop, SlabTypes
    <3> QED
      BY <1>1, <2>2, <3>1 DEF Pop, BitmapInBounds
  <2>3. CASE Push(c)
    <3>1. slots \in Seq(Sub \cup {NoSub}) /\ cur[c] \in Sub \cup {NoSub}
      BY <2>3 DEF Push, SlabTypes
    <3>2. Len(slots') = Len(slots) + 1 /\ Len(slots) \in Nat
      BY <2>3, <3>1, AppendParts DEF Push
    <3> QED
      BY <2>3, <3>2 DEF Push, Ids
  <2>4. CASE Leave(c)
    BY <1>1, <2>4 DEF Leave, BitmapInBounds
  <2>5. CASE Quiet(c)
    <3>1. CASE Subscribe(c) \/ Link(c) \/ RemoveConnection(c) \/ Return(c) \/ AllocPop(c)
      <4>1. ~UsesSlot(c)'
        BY <2>5, <3>1 DEF Subscribe, Link, RemoveConnection, Return, AllocPop, UsesSlot, Quiet
      <4> QED
        BY <1>2, <4>1
    <3>2. CASE IndexStep(c) \/ Unfilter(c) \/ UnindexStep(c)
      <4>1. UsesSlot(c) /\ slot'[c] = slot[c]
        BY <3>2 DEF IndexStep, Unfilter, UnindexStep, UsesSlot
      <4> QED
        BY <2>1, <4>1
    <3>3. CASE AllocWrite(c) \/ AllocPush(c) \/ Register(c) \/ FreeClear(c)
      <4>1. pc'[c] \in {"register", "index", "release"}
        BY <3>3 DEF AllocWrite, AllocPush, Register, FreeClear
      <4>2. pc[c] # "push" => Holding(c)
        BY <3>3 DEF AllocWrite, AllocPush, Register, FreeClear, Holding
      <4>3. pc[c] = "push" => pc'[c] = "register"
        BY <3>3 DEF AllocWrite, AllocPush, Register, FreeClear
      <4> QED
        BY <2>5, <4>1, <4>2, <4>3 DEF Quiet
    <3>4. CASE FreeRelease(c)
      BY <2>5, <3>4 DEF FreeRelease, Quiet, Holding
    <3>5. CASE Unsubscribe(c) \/ RemoveEntry(c)
      <4>1. pc'[c] \in {"next", "clear"}
        BY <3>5 DEF Unsubscribe, RemoveEntry, Detach
      <4> QED
        BY <1>2, <2>5, <4>1 DEF Quiet, UsesSlot
    <3> QED
      BY <3>1, <3>2, <3>3, <3>4, <3>5 DEF ConnStep, IndexNext
  <2>6. CASE Write(c) \/ Enter(c) \/ Clear(c) \/ Release(c)
    BY <2>1, <2>6 DEF Write, Enter, Clear, Release, UsesSlot
  <2> QED
    BY <1>1, <2>2, <2>3, <2>4, <2>5, <2>6 DEF SlotStep
<1>3. ASSUME NEW d \in Conns, d # c, UsesSlot(d)' PROVE slot'[d] \in Ids'
  <2>1. UsesSlot(d) /\ slot'[d] = slot[d]
    BY <1>1, <1>3 DEF SlotStep, Others, UsesSlot
  <2> QED
    BY <1>1, <2>1 DEF SlotBounds
<1> QED
  BY <1>2, <1>3 DEF SlotBounds

\* Every id in the free list, in slot_by_sub and in the bitmaps stays inside
\* the slab.
LEMMA BitmapStep ==
  ASSUME TypeInv, SlotBounds, BitmapInBounds, NEW c \in Conns, ConnStep(c)
  PROVE  BitmapInBounds'
<1> USE DEF TypeInv, TypeOK
<1>1. SlotStep(c) /\ Ids \subseteq Ids'
  BY StepKinds, SlabGrows
<1>2. \A i \in DOMAIN freeSlots' : freeSlots'[i] \in Ids'
  <2>1. CASE freeSlots' = freeSlots
    BY <1>1, <2>1 DEF BitmapInBounds
  <2>2. CASE Pop(c)
    <3>1. /\ Len(SubSeq(freeSlots, 1, Len(freeSlots) - 1)) = Len(freeSlots) - 1
          /\ SubSeq(freeSlots, 1, Len(freeSlots) - 1) \in Seq(Nat)
          /\ \A i \in 1..(Len(freeSlots) - 1) : SubSeq(freeSlots, 1, Len(freeSlots) - 1)[i] = freeSlots[i]
      BY <2>2, SeqParts DEF Pop, SlabTypes
    <3>2. \A i \in DOMAIN freeSlots' : i \in DOMAIN freeSlots /\ freeSlots'[i] = freeSlots[i]
      BY <2>2, <3>1 DEF Pop, SlabTypes
    <3> QED
      BY <1>1, <3>2 DEF BitmapInBounds
  <2>3. CASE Release(c)
    <3>1. slot[c] \in Ids /\ slot[c] \in Nat
      BY <2>3 DEF Release, SlotBounds, UsesSlot, LocalTypes
    <3>2. \A i \in DOMAIN freeSlots' : \/ i \in DOMAIN freeSlots /\ freeSlots'[i] = freeSlots[i]
                                       \/ freeSlots'[i] = slot[c]
      BY <2>3, <3>1 DEF Release, SlabTypes
    <3> QED
      BY <1>1, <3>1, <3>2 DEF BitmapInBounds
  <2> QED
    BY <1>1, <2>1, <2>2, <2>3 DEF SlotStep, Quiet, Write, Push, Enter, Leave, Clear
<1>3. \A k \in SubKey : slotBySub'[k] \in Ids' \cup {0}
  <2>1. CASE slotBySub' = slotBySub
    BY <1>1, <2>1 DEF BitmapInBounds
  <2>2. CASE Enter(c)
    <3>1. slot[c] \in Ids
      BY <2>2 DEF Enter, SlotBounds, UsesSlot
    <3> QED
      BY <1>1, <2>2, <3>1 DEF Enter, BitmapInBounds, MapTypes
  <2>3. CASE Leave(c)
    BY <1>1, <2>3 DEF Leave, BitmapInBounds, MapTypes
  <2> QED
    BY <1>1, <2>1, <2>2, <2>3 DEF SlotStep, Quiet, Pop, Write, Push, Clear, Release
<1>4. /\ \A p \in Patterns : unfiltered'[p] \subseteq Ids'
      /\ \A k \in CompositeKeys : index'[k] \subseteq Ids'
  <2>1. CASE index' = index /\ unfiltered' = unfiltered
    BY <1>1, <2>1 DEF BitmapInBounds
  <2>2. CASE IndexStep(c)
    <3>1. slot[c] \in Ids /\ slots' = slots
      BY <2>2 DEF IndexStep, SlotBounds, UsesSlot
    <3>2. CASE index' = [index EXCEPT ![Head(work[c])] = index[Head(work[c])] \cup {slot[c]}]
                 /\ unfiltered' = unfiltered
      BY <1>1, <3>1, <3>2 DEF BitmapInBounds, MapTypes
    <3>3. CASE unfiltered' = [unfiltered EXCEPT ![cur[c].pat] = unfiltered[cur[c].pat] \cup {slot[c]}]
                 /\ index' = index
      BY <1>1, <3>1, <3>3 DEF BitmapInBounds, MapTypes
    <3> QED
      BY <2>1, <2>2, <3>2, <3>3 DEF IndexStep
  <2>3. CASE Unfilter(c)
    BY <1>1, <2>3 DEF Unfilter, BitmapInBounds, MapTypes
  <2>4. CASE UnindexStep(c)
    BY <1>1, <2>4 DEF UnindexStep, BitmapInBounds, MapTypes
  <2> QED
    BY <2>1, <2>2, <2>3, <2>4
    DEF ConnStep, IndexNext, Subscribe, Link, Unsubscribe, RemoveConnection, RemoveEntry, Return,
        Detach, AllocPop, AllocWrite, AllocPush, Register, FreeClear, FreeRelease, indexVars
<1>5. router'.bitmap \subseteq Ids'
  <2>1. router' = router
    BY DEF ConnStep, Subscribe, Link, Unsubscribe, RemoveConnection, RemoveEntry, Return
  <2> QED
    BY <1>1, <2>1 DEF BitmapInBounds
<1> QED
  BY <1>2, <1>3, <1>4, <1>5 DEF BitmapInBounds

-----------------------------------------------------------------------------
\* What the other tasks hold does not change.
LEMMA OthersHold ==
  ASSUME NEW c \in Conns, Others(c), NEW d \in Conns, d # c
  PROVE  /\ Holding(d)' = Holding(d)
         /\ slot'[d] = slot[d] /\ pc'[d] = pc[d] /\ cur'[d] = cur[d]
  BY DEF Others, Holding

\* The free list after a pop ...
LEMMA FreeListPop ==
  ASSUME TypeInv, NEW c \in Conns, Pop(c)
  PROVE  /\ Len(freeSlots) \in DOMAIN freeSlots
         /\ \A i \in DOMAIN freeSlots' : /\ i \in DOMAIN freeSlots /\ i # Len(freeSlots)
                                          /\ freeSlots'[i] = freeSlots[i]
<1>1. freeSlots \in Seq(Nat) /\ freeSlots # <<>>
  BY DEF TypeInv, TypeOK, SlabTypes, Pop
<1>2. /\ Len(freeSlots) \in Nat /\ Len(freeSlots) > 0
      /\ freeSlots' \in Seq(Nat)
      /\ Len(freeSlots') = Len(freeSlots) - 1
      /\ \A i \in 1..(Len(freeSlots) - 1) : freeSlots'[i] = freeSlots[i]
  BY <1>1, SeqParts DEF Pop
<1>3. DOMAIN freeSlots = 1..Len(freeSlots) /\ DOMAIN freeSlots' = 1..(Len(freeSlots) - 1)
  BY <1>1, <1>2
<1>4. \A i \in 1..(Len(freeSlots) - 1) : i \in 1..Len(freeSlots) /\ i # Len(freeSlots)
  BY <1>2
<1> QED
  BY <1>2, <1>3, <1>4

\* ... and after a release.
LEMMA FreeListRelease ==
  ASSUME TypeInv, NEW c \in Conns, Release(c)
  PROVE  \A i \in DOMAIN freeSlots' :
            \/ i \in DOMAIN freeSlots /\ freeSlots'[i] = freeSlots[i]
            \/ i = Len(freeSlots) + 1 /\ i \notin DOMAIN freeSlots /\ freeSlots'[i] = slot[c]
<1>1. freeSlots \in Seq(Nat) /\ slot[c] \in Nat
  BY DEF TypeInv, TypeOK, SlabTypes, LocalTypes
<1>2. /\ freeSlots' \in Seq(Nat) /\ Len(freeSlots) \in Nat
      /\ Len(freeSlots') = Len(freeSlots) + 1
      /\ \A i \in 1..Len(freeSlots) : freeSlots'[i] = freeSlots[i]
      /\ freeSlots'[Len(freeSlots) + 1] = slot[c]
  BY <1>1, AppendParts DEF Release
<1>3. DOMAIN freeSlots = 1..Len(freeSlots) /\ DOMAIN freeSlots' = 1..Len(freeSlots')
  BY <1>1, <1>2
<1>4. DOMAIN freeSlots' = 1..(Len(freeSlots) + 1)
  BY <1>2, <1>3
<1>5. /\ \A i \in 1..(Len(freeSlots) + 1) : i \in 1..Len(freeSlots) \/ i = Len(freeSlots) + 1
      /\ Len(freeSlots) + 1 \notin 1..Len(freeSlots)
  BY <1>2
<1> QED
  BY <1>2, <1>3, <1>4, <1>5

\* No step gives a slot a second holder.
LEMMA ExclusiveStep ==
  ASSUME TypeInv, SlotBounds, BitmapInBounds, SlotExclusive, NEW c \in Conns, SlotStep(c)
  PROVE  SlotExclusive'
<1>0. /\ \A d \in Conns : d # c => /\ Holding(d)' = Holding(d) /\ slot'[d] = slot[d]
      /\ Holding(c)' <=> pc'[c] \in {"write", "register", "clear", "release"}
  BY OthersHold DEF SlotStep, Holding
<1>1. CASE Quiet(c)
  <2>1. ~Holding(c)' /\ slotBySub' = slotBySub /\ freeSlots' = freeSlots
    BY <1>0, <1>1 DEF Quiet
  <2> QED
    BY <1>0, <2>1 DEF SlotExclusive
<1>2. CASE Pop(c)
  <2>1. /\ Len(freeSlots) \in DOMAIN freeSlots /\ slot'[c] = freeSlots[Len(freeSlots)]
        /\ \A i \in DOMAIN freeSlots' : /\ i \in DOMAIN freeSlots /\ i # Len(freeSlots)
                                         /\ freeSlots'[i] = freeSlots[i]
        /\ slotBySub' = slotBySub
    BY <1>2, FreeListPop DEF Pop
  <2>2. \A i, j \in DOMAIN freeSlots' : freeSlots'[i] = freeSlots'[j] => i = j
    BY <2>1 DEF SlotExclusive
  <2>3. \A i \in DOMAIN freeSlots' : freeSlots'[i] # slot'[c]
    BY <2>1 DEF SlotExclusive
  <2>4. \A d \in Conns : d # c /\ Holding(d)' => slot'[d] # slot'[c]
    BY <1>0, <2>1 DEF SlotExclusive
  <2>5. \A k \in SubKey : slotBySub'[k] # slot'[c]
    BY <2>1 DEF SlotExclusive
  <2> QED
    BY <1>0, <2>1, <2>2, <2>3, <2>4, <2>5 DEF SlotExclusive
<1>3. CASE Write(c) \/ Clear(c)
  <2>1. slotBySub' = slotBySub /\ freeSlots' = freeSlots /\ slot'[c] = slot[c] /\ Holding(c)
    BY <1>3 DEF Write, Clear, Holding
  <2> QED
    BY <1>0, <2>1 DEF SlotExclusive
<1>4. CASE Push(c)
  <2>1. /\ slotBySub' = slotBySub /\ freeSlots' = freeSlots
        /\ slot'[c] \notin Ids /\ slot'[c] # 0
    BY <1>4, IdsType DEF Push, Ids
  <2>2. \A d \in Conns : d # c /\ Holding(d)' => slot'[d] # slot'[c]
    BY <1>0, <2>1 DEF SlotBounds, UsesSlot, Holding
  <2>3. /\ \A k \in SubKey : slotBySub'[k] # slot'[c]
        /\ \A i \in DOMAIN freeSlots' : freeSlots'[i] # slot'[c]
    BY <2>1 DEF BitmapInBounds
  <2> QED
    BY <1>0, <2>1, <2>2, <2>3 DEF SlotExclusive
<1>5. CASE Enter(c)
  <2> DEFINE key == KeyOf(cur[c])
  <2>1. /\ Holding(c) /\ ~Holding(c)' /\ freeSlots' = freeSlots /\ key \in SubKey
        /\ slotBySub' = [slotBySub EXCEPT ![key] = slot[c]]
    BY <1>0, <1>5, KeyType DEF Enter, Holding
  <2> HIDE DEF key
  <2>2. \A k \in SubKey : slotBySub'[k] = IF k = key THEN slot[c] ELSE slotBySub[k]
    BY <2>1 DEF TypeInv, TypeOK, MapTypes
  <2> QED
    BY <1>0, <2>1, <2>2 DEF SlotExclusive
<1>6. CASE Leave(c)
  <2>1. PICK key \in SubKey : /\ slotBySub[key] # 0 /\ slot'[c] = slotBySub[key]
                              /\ slotBySub' = [slotBySub EXCEPT ![key] = 0]
    BY <1>6 DEF Leave
  <2>2. freeSlots' = freeSlots /\ ~Holding(c)
    BY <1>6 DEF Leave
  <2>3. \A k \in SubKey : slotBySub'[k] = IF k = key THEN 0 ELSE slotBySub[k]
    BY <2>1 DEF TypeInv, TypeOK, MapTypes
  <2>4. /\ \A i \in DOMAIN freeSlots : freeSlots[i] # 0
        /\ \A d \in Conns : Holding(d) => slot[d] # 0
    BY IdsType DEF BitmapInBounds, SlotBounds, UsesSlot, Holding
  <2>5. \A k, l \in SubKey : slotBySub'[k] # 0 /\ slotBySub'[k] = slotBySub'[l] => k = l
    BY <2>3 DEF SlotExclusive
  <2>6. \A d \in Conns : d # c /\ Holding(d)' => slot'[d] # slot'[c]
    BY <1>0, <2>1 DEF SlotExclusive
  <2>7. /\ \A k \in SubKey : slotBySub'[k] # slot'[c]
        /\ \A i \in DOMAIN freeSlots' : freeSlots'[i] # slot'[c]
    BY <2>1, <2>2, <2>3 DEF SlotExclusive
  <2>8. \A k \in SubKey : \A i \in DOMAIN freeSlots' : slotBySub'[k] # freeSlots'[i]
    BY <2>2, <2>3, <2>4 DEF SlotExclusive
  <2>9. \A d \in Conns : d # c /\ Holding(d)' =>
            /\ \A i \in DOMAIN freeSlots' : slot'[d] # freeSlots'[i]
            /\ \A k \in SubKey : slot'[d] # slotBySub'[k]
    BY <1>0, <2>2, <2>3, <2>4 DEF SlotExclusive
  <2>10. \A i, j \in DOMAIN freeSlots' : freeSlots'[i] = freeSlots'[j] => i = j
    BY <2>2 DEF SlotExclusive
  <2> QED
    BY <1>0, <2>5, <2>6, <2>7, <2>8, <2>9, <2>10 DEF SlotExclusive
<1>7. CASE Release(c)
  <2>1. Holding(c) /\ ~Holding(c)' /\ slotBySub' = slotBySub
    BY <1>0, <1>7 DEF Release, Holding
  <2>2. \A i \in DOMAIN freeSlots' :
            \/ i \in DOMAIN freeSlots /\ freeSlots'[i] = freeSlots[i]
            \/ i = Len(freeSlots) + 1 /\ i \notin DOMAIN freeSlots /\ freeSlots'[i] = slot[c]
    BY <1>7, FreeListRelease
  <2>3. \A i, j \in DOMAIN freeSlots' : freeSlots'[i] = freeSlots'[j] => i = j
    BY <2>1, <2>2 DEF SlotExclusive
  <2> QED
    BY <1>0, <2>1, <2>2, <2>3 DEF SlotExclusive
<1> QED
  BY <1>1, <1>2, <1>3, <1>4, <1>5, <1>6, <1>7 DEF SlotStep

\* A step writes no slot but the one its own task holds.
LEMMA OwnerStep ==
  ASSUME TypeInv, SlotInv, NEW c \in Conns, SlotStep(c)
  PROVE  OwnerAgrees' /\ SlotContents'
<1> USE DEF SlotInv
<1>0. \A d \in Conns : d # c => /\ pc'[d] = pc[d] /\ slot'[d] = slot[d] /\ cur'[d] = cur[d]
  BY OthersHold DEF SlotStep
<1>1. CASE Quiet(c)
  BY <1>0, <1>1 DEF Quiet, OwnerAgrees, SlotContents
<1>2. CASE Pop(c)
  <2>1. /\ Len(freeSlots) \in DOMAIN freeSlots /\ slot'[c] = freeSlots[Len(freeSlots)]
        /\ \A i \in DOMAIN freeSlots' : i \in DOMAIN freeSlots /\ freeSlots'[i] = freeSlots[i]
        /\ slotBySub' = slotBySub /\ slots' = slots /\ pc'[c] = "write"
    BY <1>2, FreeListPop DEF Pop
  <2>2. OwnerAgrees'
    BY <2>1 DEF OwnerAgrees
  <2>3. SlotContents'
    BY <1>0, <2>1 DEF OwnerAgrees, SlotContents
  <2> QED
    BY <2>2, <2>3
<1>3. ASSUME NEW e \in Sub \cup {NoSub}, slots' = [slots EXCEPT ![slot[c]] = e],
             Holding(c), slotBySub' = slotBySub, freeSlots' = freeSlots
      PROVE  /\ OwnerAgrees'
             /\ \A d \in Conns : d # c /\ Holding(d) => slots'[slot[d]] = slots[slot[d]]
  <2>1. \A i \in Ids : i # slot[c] => slots'[i] = slots[i]
    BY <1>3 DEF Ids, TypeInv, TypeOK, SlabTypes
  <2>2. /\ \A k \in SubKey : slotBySub[k] # slot[c] /\ slotBySub[k] \in Ids \cup {0}
        /\ \A i \in DOMAIN freeSlots : freeSlots[i] # slot[c] /\ freeSlots[i] \in Ids
        /\ \A d \in Conns : d # c /\ Holding(d) => slot[d] # slot[c] /\ slot[d] \in Ids
    BY <1>3 DEF SlotExclusive, BitmapInBounds, SlotBounds, UsesSlot, Holding
  <2> QED
    BY <1>3, <2>1, <2>2 DEF OwnerAgrees
<1>4. CASE Write(c)
  <2>1. /\ OwnerAgrees'
        /\ \A d \in Conns : d # c /\ Holding(d) => slots'[slot[d]] = slots[slot[d]]
    BY <1>3, <1>4 DEF Write, Holding
  <2>2. slots'[slot[c]] = cur[c]
    <3>1. slot[c] \in DOMAIN slots
      BY <1>4 DEF Write, SlotBounds, UsesSlot, Ids, TypeInv, TypeOK, SlabTypes
    <3> QED
      BY <1>4, <3>1 DEF Write, TypeInv, TypeOK, SlabTypes
  <2>3. SlotContents'
    BY <1>0, <1>4, <2>1, <2>2 DEF Write, SlotContents, Holding
  <2> QED
    BY <2>1, <2>3
<1>5. CASE Clear(c)
  <2>1. /\ OwnerAgrees'
        /\ \A d \in Conns : d # c /\ Holding(d) => slots'[slot[d]] = slots[slot[d]]
    BY <1>3, <1>5 DEF Clear, Holding
  <2>2. slots'[slot[c]] = NoSub
    <3>1. slot[c] \in DOMAIN slots
      BY <1>5 DEF Clear, SlotBounds, UsesSlot, Ids, TypeInv, TypeOK, SlabTypes
    <3> QED
      BY <1>5, <3>1 DEF Clear, TypeInv, TypeOK, SlabTypes
  <2>3. SlotContents'
    BY <1>0, <1>5, <2>1, <2>2 DEF Clear, SlotContents, Holding
  <2> QED
    BY <2>1, <2>3
<1>6. CASE Push(c)
  <2>1. slots \in Seq(Sub \cup {NoSub}) /\ cur[c] \in Sub \cup {NoSub}
    BY <1>6 DEF Push, TypeInv, TypeOK, SlabTypes
  <2>2. /\ \A i \in Ids : slots'[i] = slots[i]
        /\ slots'[slot'[c]] = cur[c]
    BY <1>6, <2>1, AppendParts DEF Push, Ids
  <2>3. OwnerAgrees'
    BY <1>6, <2>2 DEF Push, OwnerAgrees, BitmapInBounds
  <2>4. \A d \in Conns : d # c /\ Holding(d) => slots'[slot[d]] = slots[slot[d]]
    BY <2>2 DEF SlotBounds, UsesSlot, Holding
  <2>5. SlotContents'
    <3> SUFFICES ASSUME NEW d \in Conns
                 PROVE  /\ pc'[d] = "register" => slots'[slot'[d]] = cur'[d]
                        /\ pc'[d] \in {"write", "release"} => slots'[slot'[d]] = NoSub
      BY DEF SlotContents
    <3>1. CASE d = c
      <4>1. pc'[d] = "register" /\ cur'[d] = cur[c] /\ slot'[d] = slot'[c]
        BY <1>6, <3>1 DEF Push
      <4> QED
        BY <2>2, <4>1
    <3>2. CASE d # c
      BY <1>0, <2>4, <3>2 DEF SlotContents, Holding
    <3> QED
      BY <3>1, <3>2
  <2> QED
    BY <2>3, <2>5
<1>7. CASE Enter(c)
  <2> DEFINE key == KeyOf(cur[c])
  <2>1. /\ key \in SubKey /\ slots' = slots /\ freeSlots' = freeSlots /\ pc'[c] = "index"
        /\ slots[slot[c]] = cur[c] /\ cur[c] # NoSub
        /\ slotBySub' = [slotBySub EXCEPT ![key] = slot[c]]
    BY <1>7, KeyType, IndexAssumption DEF Enter, SlotContents, IndexAssumption
  <2>2. \A k \in SubKey : slotBySub'[k] = IF k = key THEN slot[c] ELSE slotBySub[k]
    BY <2>1 DEF TypeInv, TypeOK, MapTypes
  <2>3. OwnerAgrees'
    BY <2>1, <2>2 DEF OwnerAgrees
  <2>4. SlotContents'
    BY <1>0, <2>1 DEF SlotContents
  <2> QED
    BY <2>3, <2>4
<1>8. CASE Leave(c)
  <2>1. PICK key \in SubKey : slotBySub' = [slotBySub EXCEPT ![key] = 0]
    BY <1>8 DEF Leave
  <2>2. \A k \in SubKey : slotBySub'[k] = IF k = key THEN 0 ELSE slotBySub[k]
    BY <2>1 DEF TypeInv, TypeOK, MapTypes
  <2>3. slots' = slots /\ freeSlots' = freeSlots /\ pc'[c] = "clear"
    BY <1>8 DEF Leave
  <2>4. OwnerAgrees'
    BY <2>2, <2>3 DEF OwnerAgrees
  <2>5. SlotContents'
    BY <1>0, <2>3 DEF SlotContents
  <2> QED
    BY <2>4, <2>5
<1>9. CASE Release(c)
  <2>1. \A i \in DOMAIN freeSlots' :
            \/ i \in DOMAIN freeSlots /\ freeSlots'[i] = freeSlots[i]
            \/ freeSlots'[i] = slot[c]
    BY <1>9, FreeListRelease
  <2>2. slots' = slots /\ slotBySub' = slotBySub /\ slots[slot[c]] = NoSub /\ pc'[c] = "unfilter"
    BY <1>9 DEF Release, SlotContents
  <2>3. OwnerAgrees'
    BY <2>1, <2>2 DEF OwnerAgrees
  <2>4. SlotContents'
    BY <1>0, <2>2 DEF SlotContents
  <2> QED
    BY <2>3, <2>4
<1> QED
  BY <1>1, <1>2, <1>4, <1>5, <1>6, <1>7, <1>8, <1>9 DEF SlotStep

-----------------------------------------------------------------------------
\* The slot invariant holds initially.
LEMMA InitSlots == Init => SlotInv
<1> SUFFICES ASSUME Init PROVE SlotInv
  OBVIOUS
<1> USE DEF Init, IndexInit
<1>1. SlotBounds /\ SlotContents
  BY DEF SlotBounds, SlotContents, UsesSlot
<1>2. BitmapInBounds
  BY DEF BitmapInBounds, NoJob
<1>3. SlotExclusive /\ OwnerAgrees
  BY DEF SlotExclusive, OwnerAgrees, Holding
<1> QED
  BY <1>1, <1>2, <1>3 DEF SlotInv

\* The router reads the bitmaps and writes nothing else.
LEMMA RouterSlots ==
  ASSUME TypeInv, SlotInv,
         (\E e \in Events, path \in {"full", "degraded"} : Evaluate(e, path)) \/ Dispatch
  PROVE  SlotInv'
<1>1. UNCHANGED <<indexVars, localVars>>
  BY DEF Evaluate, Dispatch
<1>2. SlotBounds' /\ SlotContents' /\ SlotExclusive' /\ OwnerAgrees'
  BY <1>1 DEF indexVars, localVars, SlotInv, SlotBounds, SlotContents, SlotExclusive, OwnerAgrees,
              UsesSlot, Holding, Ids
<1>3. router'.bitmap \subseteq Ids
  <2>1. CASE Dispatch
    BY <2>1 DEF Dispatch, NoJob
  <2>2. ASSUME NEW e \in Events, NEW path, Evaluate(e, path) PROVE router'.bitmap \subseteq Ids
    <3>1. MatchingPatterns(e) \subseteq Patterns
      BY DEF MatchingPatterns, TypeInv, TypeOK, MapTypes
    <3>2. UnfilteredUnion(e) \subseteq Ids
      BY <3>1 DEF UnfilteredUnion, SlotInv, BitmapInBounds
    <3>3. \A p \in MatchingPatterns(e) : \A k \in LookedUp(p, e) : index[<<p, k>>] \subseteq Ids
      BY <3>1 DEF LookedUp, CompositeKeys, SlotInv, BitmapInBounds
    <3>4. \A p \in MatchingPatterns(e) : UNION {index[<<p, k>>] : k \in LookedUp(p, e)} \subseteq Ids
      BY <3>3
    <3>5. UNION {UNION {index[<<p, k>>] : k \in LookedUp(p, e)} : p \in MatchingPatterns(e)} \subseteq Ids
      BY <3>4
    <3>6. FullUnion(e) \subseteq Ids
      BY <3>2, <3>5, Zenon DEF FullUnion
    <3> QED
      BY <2>2, <3>2, <3>6 DEF Evaluate
  <2> QED
    BY <2>1, <2>2
<1>4. BitmapInBounds'
  BY <1>1, <1>3 DEF indexVars, SlotInv, BitmapInBounds, Ids
<1> QED
  BY <1>2, <1>4 DEF SlotInv

\* Every step keeps the slot invariant.
LEMMA NextSlots == TypeInv /\ SlotInv /\ [Next]_vars => SlotInv'
<1> SUFFICES ASSUME TypeInv, SlotInv, [Next]_vars PROVE SlotInv'
  OBVIOUS
<1>1. CASE UNCHANGED vars
  <2>1. UNCHANGED <<indexVars, localVars, router>>
    BY <1>1 DEF vars
  <2>2. SlotBounds' /\ SlotContents' /\ SlotExclusive' /\ OwnerAgrees'
    BY <2>1 DEF indexVars, localVars, SlotInv, SlotBounds, SlotContents, SlotExclusive,
                OwnerAgrees, UsesSlot, Holding, Ids
  <2>3. BitmapInBounds'
    BY <2>1 DEF indexVars, SlotInv, BitmapInBounds, Ids
  <2> QED
    BY <2>2, <2>3 DEF SlotInv
<1>2. ASSUME NEW c \in Conns, ConnStep(c) PROVE SlotInv'
  <2>1. SlotStep(c)
    BY <1>2, StepKinds
  <2>2. SlotBounds' /\ BitmapInBounds'
    BY <1>2, SlotBoundsStep, BitmapStep DEF SlotInv
  <2>3. SlotExclusive'
    BY <2>1, ExclusiveStep DEF SlotInv
  <2>4. OwnerAgrees' /\ SlotContents'
    BY <2>1, OwnerStep
  <2> QED
    BY <2>2, <2>3, <2>4 DEF SlotInv
<1> QED
  BY <1>1, <1>2, RouterSlots DEF Next

\* Both parts together are inductive.
LEMMA SlotInvariant == Spec => [](TypeInv /\ SlotInv)
  BY InitTypes, NextTypes, InitSlots, NextSlots, PTL DEF Spec

\* However the alloc_slot and free_slot of any number of connections
\* interleave, a slot has at most one holder and a free slot has none.
THEOREM SlotsAreExclusive == Spec => []SlotExclusive
<1>1. TypeInv /\ SlotInv => SlotExclusive
  BY DEF SlotInv
<1> QED
  BY <1>1, SlotInvariant, PTL

\* The slot that slot_by_sub gives for a subscription holds that subscription,
\* and a slot on the free list is empty.
THEOREM SlotsHoldTheirOwner == Spec => []OwnerAgrees
<1>1. TypeInv /\ SlotInv => OwnerAgrees
  BY DEF SlotInv
<1> QED
  BY <1>1, SlotInvariant, PTL

\* The SAFETY comment of get_unchecked in evaluate.rs: every id in a bitmap,
\* also in one computed before the slab was locked, is inside the slab.
THEOREM UncheckedReadIsInBounds == Spec => []BitmapInBounds
<1>1. TypeInv /\ SlotInv => BitmapInBounds
  BY DEF SlotInv
<1> QED
  BY <1>1, SlotInvariant, PTL

-----------------------------------------------------------------------------
\* What the total limit counts, and the tasks that passed its check and have
\* not registered yet.
Registered == {k \in SubKey : slotBySub[k] # 0}
Pending == {c \in Conns : pc[c] \in {"alloc", "write", "push", "register"}}

OvershootInv == Cardinality(Registered) + Cardinality(Pending) <= MaxTotal + Cardinality(Conns) - 1

\* The sets that are counted are finite.
LEMMA CountsAreFinite ==
  /\ IsFiniteSet(SubKey) /\ IsFiniteSet(Conns) /\ Cardinality(Conns) \in Nat \ {0}
  /\ \A S \in SUBSET SubKey : IsFiniteSet(S) /\ Cardinality(S) \in Nat
  /\ \A S \in SUBSET Conns : IsFiniteSet(S) /\ Cardinality(S) \in Nat /\ Cardinality(S) <= Cardinality(Conns)
<1>1. IsFiniteSet(SubKey) /\ IsFiniteSet(Conns)
  BY ClientsAssumption, FS_Product DEF SubKey
<1>2. Cardinality(Conns) \in Nat \ {0}
  BY ClientsAssumption, FS_CardinalityType, FS_EmptySet
<1>3. \A S \in SUBSET SubKey : IsFiniteSet(S) /\ Cardinality(S) \in Nat
  BY <1>1, FS_Subset, FS_CardinalityType
<1>4. \A S \in SUBSET Conns : IsFiniteSet(S) /\ Cardinality(S) \in Nat /\ Cardinality(S) <= Cardinality(Conns)
  BY <1>1, FS_Subset, FS_CardinalityType
<1> QED
  BY <1>1, <1>2, <1>3, <1>4

\* subscribe: whoever starts saw room, and the other tasks are all there is.
LEMMA StartOvershoot ==
  ASSUME TypeInv, NEW c \in Conns, Subscribe(c)
  PROVE  OvershootInv'
<1>1. Registered' = Registered /\ Cardinality(Registered) < MaxTotal
  BY DEF Subscribe, CheckLimits, Registered, indexVars
<1>2. Registered \in SUBSET SubKey /\ Pending' \in SUBSET Conns
  BY DEF Registered, Pending
<1>3. Cardinality(Registered) \in Nat /\ Cardinality(Pending') <= Cardinality(Conns)
        /\ Cardinality(Pending') \in Nat /\ Cardinality(Conns) \in Nat
  BY <1>2, CountsAreFinite
<1> QED
  BY <1>1, <1>3, IndexAssumption DEF OvershootInv, IndexAssumption

\* add_subscription: a pending task becomes a registered entry.
LEMMA EnterOvershoot ==
  ASSUME TypeInv, OvershootInv, NEW c \in Conns, Register(c)
  PROVE  OvershootInv'
<1> USE DEF TypeInv, TypeOK
<1>1. cur[c] \in Sub /\ KeyOf(cur[c]) \in SubKey
  BY KeyType DEF Register, CurOK, Busy
<1>2. c \in Pending /\ Pending' = Pending \ {c}
  BY DEF Register, Pending, LocalTypes
<1>3. Registered' \subseteq Registered \cup {KeyOf(cur[c])}
  BY DEF Register, Registered, MapTypes
<1> DEFINE R == Registered \cup {KeyOf(cur[c])}
<1>4. /\ Registered \in SUBSET SubKey /\ R \in SUBSET SubKey /\ Pending \in SUBSET Conns
      /\ Registered' \in SUBSET R
  BY <1>1, <1>3 DEF Registered, Pending
<1>5. /\ IsFiniteSet(Registered) /\ Cardinality(Registered) \in Nat
      /\ IsFiniteSet(R) /\ Cardinality(R) \in Nat
      /\ IsFiniteSet(Pending) /\ Cardinality(Pending) \in Nat /\ Cardinality(Conns) \in Nat
  BY <1>4, CountsAreFinite
<1>6. Cardinality(R) <= Cardinality(Registered) + 1
  BY <1>5, FS_AddElement
<1>7. Cardinality(Registered') <= Cardinality(R) /\ Cardinality(Registered') \in Nat
  BY <1>4, <1>5, FS_Subset, FS_CardinalityType
<1>8. Cardinality(Pending') = Cardinality(Pending) - 1
  BY <1>2, <1>5, FS_RemoveElement
<1> HIDE DEF R
<1> QED
  BY <1>5, <1>6, <1>7, <1>8, IndexAssumption DEF OvershootInv, IndexAssumption

\* Everything else registers nobody and starts nobody.
LEMMA QuietOvershoot ==
  ASSUME OvershootInv, Registered' \subseteq Registered, Pending' \subseteq Pending
  PROVE  OvershootInv'
<1>1. Registered \in SUBSET SubKey /\ Pending \in SUBSET Conns
  BY DEF Registered, Pending
<1>2. /\ IsFiniteSet(Registered) /\ Cardinality(Registered) \in Nat
      /\ IsFiniteSet(Pending) /\ Cardinality(Pending) \in Nat /\ Cardinality(Conns) \in Nat
  BY <1>1, CountsAreFinite
<1>3. /\ Cardinality(Registered') <= Cardinality(Registered) /\ Cardinality(Registered') \in Nat
      /\ Cardinality(Pending') <= Cardinality(Pending) /\ Cardinality(Pending') \in Nat
  BY <1>2, FS_Subset, FS_CardinalityType
<1> QED
  BY <1>2, <1>3, IndexAssumption DEF OvershootInv, IndexAssumption

\* One step of a task or of the router.
LEMMA NextOvershoot == TypeInv /\ OvershootInv /\ [Next]_vars => OvershootInv'
<1> SUFFICES ASSUME TypeInv, OvershootInv, [Next]_vars PROVE OvershootInv'
  OBVIOUS
<1>1. CASE UNCHANGED <<slotBySub, pc>>
  BY <1>1, QuietOvershoot DEF Registered, Pending
<1>2. ASSUME NEW c \in Conns, ConnStep(c) PROVE OvershootInv'
  <2> USE DEF TypeInv, TypeOK, LocalTypes
  <2>1. CASE Subscribe(c)
    BY <2>1, StartOvershoot
  <2>2. CASE Register(c)
    BY <2>2, EnterOvershoot
  <2>3. CASE \/ Link(c) \/ RemoveConnection(c) \/ Return(c)
             \/ AllocPop(c) \/ AllocWrite(c) \/ AllocPush(c) \/ IndexStep(c)
             \/ FreeClear(c) \/ FreeRelease(c) \/ Unfilter(c) \/ UnindexStep(c)
    <3>1. slotBySub' = slotBySub
      BY <2>3 DEF Link, RemoveConnection, Return, AllocPop, AllocWrite, AllocPush, IndexStep,
                  FreeClear, FreeRelease, Unfilter, UnindexStep, indexVars
    <3>2. Pending' \subseteq Pending
      BY <2>3 DEF Link, RemoveConnection, Return, AllocPop, AllocWrite, AllocPush, IndexStep,
                  FreeClear, FreeRelease, Unfilter, UnindexStep, Pending
    <3> QED
      BY <3>1, <3>2, QuietOvershoot DEF Registered
  <2>4. CASE Unsubscribe(c) \/ RemoveEntry(c)
    <3>1. PICK entry : Detach(c, entry) /\ pc[c] \in {"idle", "next"}
      BY <2>4 DEF Unsubscribe, RemoveEntry
    <3>2. Registered' \subseteq Registered
      BY <3>1 DEF Detach, Registered, MapTypes
    <3>3. Pending' \subseteq Pending
      BY <3>1 DEF Detach, Pending
    <3> QED
      BY <3>2, <3>3, QuietOvershoot
  <2> QED
    BY <1>2, <2>1, <2>2, <2>3, <2>4 DEF ConnStep, IndexNext
<1>3. CASE (\E e \in Events, path \in {"full", "degraded"} : Evaluate(e, path)) \/ Dispatch
  BY <1>1, <1>3 DEF Evaluate, Dispatch, localVars, indexVars
<1> QED
  BY <1>1, <1>2, <1>3 DEF Next, vars, localVars, indexVars

\* limits.rs:19: however many clients subscribe at the same time, the total
\* limit is overshot by less than the number of their tasks.
THEOREM OvershootStaysBounded == Spec => []OvershootBounded
<1>1. Init => OvershootInv
  <2> SUFFICES ASSUME Init PROVE OvershootInv
    OBVIOUS
  <2>1. Registered = {} /\ Pending = {}
    BY DEF Init, IndexInit, Registered, Pending
  <2> QED
    BY <2>1, CountsAreFinite, FS_EmptySet, IndexAssumption DEF OvershootInv, IndexAssumption
<1>2. OvershootInv => OvershootBounded
  <2>1. Pending \in SUBSET Conns /\ Registered \in SUBSET SubKey
    BY DEF Pending, Registered
  <2>2. Cardinality(Pending) \in Nat /\ Cardinality(Registered) \in Nat /\ Cardinality(Conns) \in Nat
    BY <2>1, CountsAreFinite
  <2> QED
    BY <2>2, IndexAssumption DEF OvershootInv, OvershootBounded, Registered, IndexAssumption
<1> QED
  BY <1>1, <1>2, InitTypes, NextTypes, NextOvershoot, PTL DEF Spec

-----------------------------------------------------------------------------
(***************************************************************************)
(* What the registry and the index hold for each connection, when clients  *)
(* do not reuse an id that is still subscribed.                            *)
(***************************************************************************)

Mine(c, s) == s \in Sub /\ s.conn = c /\ s.pat \in PatsOf(c)
Listed(q, s) == \E i \in DOMAIN q : q[i] = s
Removing(c) == pc[c] \in {"clear", "release", "unfilter", "unindex"}
Keyed(c) == pc[c] \in {"clear", "release", "unfilter"}

\* The entries of a connection: by_connection, by_sub_id and what is left of
\* them while the connection is removed.
EntriesOf(c) ==
    /\ Busy(c) => Mine(c, cur[c])
    /\ \A i \in DOMAIN byConnection[c] :
          LET e == byConnection[c][i] IN Mine(c, e) /\ bySubId[KeyOf(e)] = e
    /\ \A i \in DOMAIN todo[c] :
          LET e == todo[c][i] IN Mine(c, e) /\ bySubId[KeyOf(e)] \in {NoSub, e}
    /\ \A id \in SubIds :
          LET s == bySubId[<<c, id>>]
          IN  s # NoSub => /\ Mine(c, s) /\ s.id = id
                           /\ Listed(byConnection[c], s) \/ Listed(todo[c], s)
    /\ c \notin alive => byConnection[c] = <<>> /\ ~Adding(c)
    /\ c \in alive \/ pc[c] = "idle" => todo[c] = <<>>
    /\ Adding(c) => bySubId[KeyOf(cur[c])] = NoSub

\* by_topic names these entries, and all of them while the connection lives.
Named(q, p, id) == \E i \in DOMAIN q : q[i].pat = p /\ q[i].id = id
TopicsOf(c) ==
    /\ \A p \in Patterns, id \in SubIds :
          <<p, c, id>> \in byTopic => Named(byConnection[c], p, id) \/ Named(todo[c], p, id)
    /\ \A id \in SubIds : c \in alive /\ bySubId[<<c, id>>] # NoSub =>
          <<bySubId[<<c, id>>].pat, c, id>> \in byTopic

\* slot_by_sub knows the entries and the one being indexed.
SlotsOf(c) ==
    /\ \A id \in SubIds : slotBySub[<<c, id>>] # 0 <=>
          bySubId[<<c, id>>] # NoSub \/ (pc[c] = "index" /\ cur[c].id = id)
    /\ pc[c] = "index" => slotBySub[KeyOf(cur[c])] = slot[c]
    /\ Removing(c) => /\ bySubId[KeyOf(cur[c])] = NoSub
                      /\ \A id \in SubIds : slotBySub[<<c, id>>] # slot[c]

\* The updates in q are updates of the plan of s; the keys in q are keys of it.
StepsFor(s, q) ==
    \A i \in DOMAIN q : \E j \in DOMAIN Plan[s.flt] : q[i] = <<s.pat, Plan[s.flt][j]>>
KeysFor(s, q) == StepsFor(s, q) /\ \A i \in DOMAIN q : IsKey(q[i][2])

\* sub_keys holds the keys of the entries and of the one being removed.
KeysOf(c) ==
    /\ \A id \in SubIds : subKeys[<<c, id>>] # <<>> =>
          bySubId[<<c, id>>] # NoSub \/ (Keyed(c) /\ cur[c].id = id)
    /\ tracked[c] # <<>> => pc[c] \in {"index", "unindex"}
    /\ \A id \in SubIds : bySubId[<<c, id>>] # NoSub => KeysFor(bySubId[<<c, id>>], subKeys[<<c, id>>])
    /\ Keyed(c) => KeysFor(cur[c], subKeys[KeyOf(cur[c])])
    /\ pc[c] = "index" => KeysFor(cur[c], tracked[c]) /\ StepsFor(cur[c], work[c])
    /\ pc[c] = "unindex" => KeysFor(cur[c], work[c])

\* What only c's own task writes.
Own(c) == EntriesOf(c) /\ TopicsOf(c) /\ SlotsOf(c) /\ KeysOf(c)

\* Step i of the plan of s has been made, for slot n, in the maps ix, uf, fs.
MadeIn(ix, uf, fs, s, n, i) ==
    LET p == Plan[s.flt][i]
    IN  /\ p.step = "key" => n \in ix[<<s.pat, p>>]
        /\ p.step = "unfiltered" => n \in uf[s.pat]
        /\ p.step = "field" => p.field \in fs[s.pat]
Made(s, n, i) == MadeIn(index, unfiltered, fields, s, n, i)

\* The bits of an entry are all set; those of the one being indexed are set or
\* still to be set.
BitsOf(c) ==
    /\ \A id \in SubIds : LET s == bySubId[<<c, id>>] IN s # NoSub =>
          /\ s.pat \in patterns
          /\ \A i \in DOMAIN Plan[s.flt] : Made(s, slotBySub[<<c, id>>], i)
    /\ pc[c] = "index" =>
          /\ cur[c].pat \in patterns
          /\ \A i \in DOMAIN Plan[cur[c].flt] :
                Made(cur[c], slot[c], i) \/ Listed(work[c], <<cur[c].pat, Plan[cur[c].flt][i]>>)

\* Who a bit in the unfiltered bitmap of p is for: an entry, the subscription
\* being indexed, or one being removed whose bit has not been cleared.
Unfiltered(f) == \E i \in DOMAIN Plan[f] : Plan[f][i].step = "unfiltered"
UnfilteredFor(c, p, n) ==
    \/ \E id \in SubIds : LET s == bySubId[<<c, id>>]
                          IN  s # NoSub /\ slotBySub[<<c, id>>] = n /\ s.pat = p /\ Unfiltered(s.flt)
    \/ pc[c] = "index" /\ slot[c] = n /\ cur[c].pat = p /\ Unfiltered(cur[c].flt)
    \/ Keyed(c) /\ slot[c] = n /\ cur[c].pat = p

\* Who a bit under the composite key k is for.
KeyFor(c, k, n) ==
    \/ \E id \in SubIds : /\ bySubId[<<c, id>>] # NoSub /\ slotBySub[<<c, id>>] = n
                          /\ Listed(subKeys[<<c, id>>], k)
    \/ pc[c] = "index" /\ slot[c] = n /\ Listed(tracked[c], k)
    \/ Keyed(c) /\ slot[c] = n /\ Listed(subKeys[KeyOf(cur[c])], k)
    \/ pc[c] = "unindex" /\ slot[c] = n /\ Listed(work[c], k)

\* No other bit is set.
Explained ==
    /\ \A p \in Patterns : \A n \in unfiltered[p] : \E c \in Conns : UnfilteredFor(c, p, n)
    /\ \A k \in CompositeKeys : \A n \in index[k] : \E c \in Conns : KeyFor(c, k, n)

-----------------------------------------------------------------------------
\* The state of c that only c's own task writes does not change.
SameEntries(c) ==
    /\ byConnection'[c] = byConnection[c] /\ todo'[c] = todo[c] /\ (c \in alive' <=> c \in alive)
    /\ \A id \in SubIds : bySubId'[<<c, id>>] = bySubId[<<c, id>>]
    /\ \A p \in Patterns, id \in SubIds : <<p, c, id>> \in byTopic' <=> <<p, c, id>> \in byTopic

SameOwn(c) ==
    /\ SameEntries(c)
    /\ pc'[c] = pc[c] /\ cur'[c] = cur[c] /\ slot'[c] = slot[c] /\ work'[c] = work[c]
    /\ tracked'[c] = tracked[c]
    /\ \A id \in SubIds : slotBySub'[<<c, id>>] = slotBySub[<<c, id>>]
    /\ \A id \in SubIds : subKeys'[<<c, id>>] = subKeys[<<c, id>>]

\* The key of a subscription of c.
LEMMA MineKey == ASSUME NEW c \in Conns, NEW s, Mine(c, s)
                 PROVE  KeyOf(s) = <<c, s.id>> /\ s.id \in SubIds /\ s.pat \in Patterns /\ s.flt \in Filters
  BY DEF Mine, KeyOf, Sub

\* A step that keeps the entries and does not begin anything.
LEMMA EntriesKept ==
  ASSUME NEW c \in Conns, EntriesOf(c), TopicsOf(c), SameEntries(c), cur'[c] = cur[c],
         Busy(c)' => Busy(c), Adding(c)' => Adding(c), pc'[c] = "idle" => pc[c] = "idle"
  PROVE  EntriesOf(c)' /\ TopicsOf(c)'
<1>1. \A s : Mine(c, s) => bySubId'[KeyOf(s)] = bySubId[KeyOf(s)]
  BY MineKey DEF SameEntries
<1>2. \A s : Mine(c, s)' <=> Mine(c, s)
  BY DEF Mine
<1>3. Busy(c)' => Mine(c, cur'[c])
  BY DEF EntriesOf
<1>4. ASSUME NEW i \in DOMAIN byConnection'[c]
      PROVE  Mine(c, byConnection'[c][i]) /\ bySubId'[KeyOf(byConnection'[c][i])] = byConnection'[c][i]
  BY <1>1 DEF EntriesOf, SameEntries
<1>5. ASSUME NEW i \in DOMAIN todo'[c]
      PROVE  Mine(c, todo'[c][i]) /\ bySubId'[KeyOf(todo'[c][i])] \in {NoSub, todo'[c][i]}
  BY <1>1 DEF EntriesOf, SameEntries
<1>6. ASSUME NEW id \in SubIds, bySubId'[<<c, id>>] # NoSub
      PROVE  LET s == bySubId'[<<c, id>>]
             IN  Mine(c, s) /\ s.id = id /\ (Listed(byConnection'[c], s) \/ Listed(todo'[c], s))
  BY <1>6 DEF EntriesOf, SameEntries
<1>7. c \notin alive' => byConnection'[c] = <<>> /\ ~Adding(c)'
  BY DEF EntriesOf, SameEntries
<1>8. c \in alive' \/ pc'[c] = "idle" => todo'[c] = <<>>
  BY DEF EntriesOf, SameEntries
<1>9. Adding(c)' => bySubId'[KeyOf(cur'[c])] = NoSub
  <2>1. Adding(c) => Busy(c)
    BY DEF Adding, Busy
  <2> QED
    BY <1>1, <2>1 DEF EntriesOf
<1>10. EntriesOf(c)'
  BY <1>3, <1>4, <1>5, <1>6, <1>7, <1>8, <1>9 DEF EntriesOf, Mine, KeyOf, Listed
<1>11. TopicsOf(c)'
  <2>1. \A id \in SubIds : bySubId[<<c, id>>] # NoSub => bySubId[<<c, id>>].pat \in Patterns
    BY MineKey DEF EntriesOf
  <2>2. ASSUME NEW p \in Patterns, NEW id \in SubIds, <<p, c, id>> \in byTopic'
        PROVE  Named(byConnection'[c], p, id) \/ Named(todo'[c], p, id)
    BY <2>2 DEF TopicsOf, SameEntries
  <2>3. ASSUME NEW id \in SubIds, c \in alive', bySubId'[<<c, id>>] # NoSub
        PROVE  <<bySubId'[<<c, id>>].pat, c, id>> \in byTopic'
    BY <2>1, <2>3 DEF TopicsOf, SameEntries
  <2> QED
    BY <2>2, <2>3 DEF TopicsOf, Named
<1> QED
  BY <1>10, <1>11

\* Nothing of c's own changes.
LEMMA OwnKept ==
  ASSUME NEW c \in Conns, Own(c), SameOwn(c)
  PROVE  Own(c)'
<1>1. EntriesOf(c)' /\ TopicsOf(c)'
  <2>1. (Busy(c)' => Busy(c)) /\ (Adding(c)' => Adding(c))
    BY DEF Busy, Adding, SameOwn
  <2> QED
    BY <2>1, EntriesKept DEF Own, SameOwn
<1>2. Removing(c) \/ pc[c] = "index" => KeyOf(cur[c]) = <<c, cur[c].id>> /\ cur[c].id \in SubIds
  BY MineKey DEF Own, EntriesOf, Removing, Busy
<1>3. SlotsOf(c)'
  BY <1>2 DEF Own, SlotsOf, SameOwn, SameEntries, Removing, KeyOf
<1>4. KeysOf(c)'
  <2>1. Keyed(c) => subKeys'[KeyOf(cur[c])] = subKeys[KeyOf(cur[c])]
    BY <1>2 DEF Keyed, Removing, SameOwn
  <2> QED
    BY <2>1 DEF Own, KeysOf, SameOwn, SameEntries, Keyed, KeyOf
<1> QED
  BY <1>1, <1>3, <1>4 DEF Own

\* The step of a task leaves alone what only other tasks write.
LEMMA OtherOwn ==
  ASSUME TypeInv, NEW d \in Conns, EntriesOf(d), ConnStep(d), NEW c \in Conns, c # d
  PROVE  SameOwn(c)
<1> USE DEF TypeInv, TypeOK
<1>0. /\ pc \in [Conns -> PCs] /\ cur \in [Conns -> Sub \cup {NoSub}] /\ slot \in [Conns -> Nat]
      /\ work \in [Conns -> Seq(Patterns \X Steps)] /\ tracked \in [Conns -> Seq(CompositeKeys)]
      /\ byConnection \in [Conns -> Seq(Sub)] /\ todo \in [Conns -> Seq(Sub)]
      /\ bySubId \in [SubKey -> Sub \cup {NoSub}] /\ slotBySub \in [SubKey -> Nat]
      /\ subKeys \in [SubKey -> Seq(CompositeKeys)]
  BY DEF LocalTypes, WorkTypes, RegTypes, MapTypes
<1>1. \A id \in SubIds : <<c, id>> \in SubKey /\ \A s : Mine(d, s) => <<c, id>> # KeyOf(s)
  BY MineKey DEF SubKey
<1>2. Busy(d) => Mine(d, cur[d])
  BY DEF EntriesOf
<1>3. CASE Subscribe(d) \/ RemoveConnection(d) \/ Return(d)
  BY <1>0, <1>3 DEF Subscribe, RemoveConnection, Return, indexVars, regVars, SameOwn, SameEntries
<1>4. CASE Link(d)
  <2>1. Mine(d, cur[d])
    BY <1>2, <1>4 DEF Link, Busy
  <2> QED
    BY <1>0, <1>1, <1>4, <2>1 DEF Link, SameOwn, SameEntries
<1>5. ASSUME NEW e, Mine(d, e), Detach(d, e)
      PROVE  /\ pc'[c] = pc[c] /\ cur'[c] = cur[c] /\ slot'[c] = slot[c] /\ work'[c] = work[c]
             /\ tracked'[c] = tracked[c]
             /\ \A id \in SubIds : /\ slotBySub'[<<c, id>>] = slotBySub[<<c, id>>]
                                   /\ bySubId'[<<c, id>>] = bySubId[<<c, id>>]
                                   /\ subKeys'[<<c, id>>] = subKeys[<<c, id>>]
  BY <1>0, <1>1, <1>5 DEF Detach
<1>6. CASE Unsubscribe(d)
  <2>1. PICK id \in SubIds :
          /\ bySubId[<<d, id>>] # NoSub
          /\ byConnection' = [byConnection EXCEPT ![d] = Retain(@, id)]
          /\ byTopic' = byTopic \ {<<bySubId[<<d, id>>].pat, d, id>>}
          /\ Detach(d, bySubId[<<d, id>>]) /\ UNCHANGED <<todo, alive>>
    BY <1>6 DEF Unsubscribe
  <2>2. Mine(d, bySubId[<<d, id>>])
    BY <2>1 DEF EntriesOf
  <2> QED
    BY <1>0, <1>5, <2>1, <2>2 DEF SameOwn, SameEntries
<1>7. CASE RemoveEntry(d)
  <2>1. /\ todo[d] # <<>> /\ Detach(d, Head(todo[d])) /\ todo' = [todo EXCEPT ![d] = Tail(@)]
        /\ byTopic' = {t \in byTopic : ~(t[1] = Head(todo[d]).pat /\ t[2] = d)}
        /\ UNCHANGED <<byConnection, alive>>
    BY <1>7 DEF RemoveEntry
  <2>2. Mine(d, Head(todo[d]))
    <3>1. todo[d] \in Seq(Sub)
      BY <1>0
    <3>2. 1 \in DOMAIN todo[d] /\ Head(todo[d]) = todo[d][1]
      BY <2>1, <3>1, SeqParts
    <3> QED
      BY <3>2 DEF EntriesOf
  <2> QED
    BY <1>0, <1>5, <2>1, <2>2 DEF SameOwn, SameEntries
<1>8. CASE IndexNext(d) /\ UNCHANGED <<regVars, router>>
  <2>1. SameEntries(c)
    BY <1>8 DEF regVars, SameEntries
  <2>2. CASE AllocPop(d) \/ AllocWrite(d) \/ AllocPush(d) \/ IndexStep(d) \/ FreeClear(d) \/ FreeRelease(d)
    BY <1>0, <2>1, <2>2 DEF AllocPop, AllocWrite, AllocPush, IndexStep, FreeClear, FreeRelease, SameOwn
  <2>3. CASE UnindexStep(d)
    BY <1>0, <2>1, <2>3 DEF UnindexStep, SameOwn
  <2>4. CASE Register(d) \/ Unfilter(d)
    <3>1. Mine(d, cur[d])
      BY <1>2, <2>4 DEF Register, Unfilter, Busy
    <3> QED
      BY <1>0, <1>1, <2>1, <2>4, <3>1 DEF Register, Unfilter, SameOwn
  <2> QED
    BY <1>8, <2>2, <2>3, <2>4 DEF IndexNext
<1> QED
  BY <1>3, <1>4, <1>6, <1>7, <1>8 DEF ConnStep

\* Elements of the tail of a sequence, and of a sequence with one more.
LEMMA TailKeys ==
  ASSUME NEW S, NEW q \in Seq(S), q # <<>>, NEW s
  PROVE  /\ StepsFor(s, q) => StepsFor(s, Tail(q))
         /\ KeysFor(s, q) => KeysFor(s, Tail(q))
<1>1. \A i \in DOMAIN Tail(q) : i + 1 \in DOMAIN q /\ Tail(q)[i] = q[i + 1]
  BY SeqParts
<1>2. StepsFor(s, q) => StepsFor(s, Tail(q))
  BY <1>1 DEF StepsFor
<1>3. (\A i \in DOMAIN q : IsKey(q[i][2])) => \A i \in DOMAIN Tail(q) : IsKey(Tail(q)[i][2])
  BY <1>1
<1> QED
  BY <1>2, <1>3 DEF KeysFor

\* One more key of the plan.
LEMMA AppendKeys ==
  ASSUME NEW S, NEW q \in Seq(S), NEW x \in S, NEW s, KeysFor(s, q), IsKey(x[2]),
         \E j \in DOMAIN Plan[s.flt] : x = <<s.pat, Plan[s.flt][j]>>
  PROVE  KeysFor(s, Append(q, x))
<1>1. \A i \in DOMAIN Append(q, x) : (i \in DOMAIN q /\ Append(q, x)[i] = q[i]) \/ Append(q, x)[i] = x
  OBVIOUS
<1>2. StepsFor(s, Append(q, x))
  BY <1>1 DEF KeysFor, StepsFor
<1>3. \A i \in DOMAIN Append(q, x) : IsKey(Append(q, x)[i][2])
  BY <1>1 DEF KeysFor
<1> QED
  BY <1>2, <1>3 DEF KeysFor

\* The empty sequence has no keys.
LEMMA NoKeys == \A s : StepsFor(s, <<>>) /\ KeysFor(s, <<>>)
  BY DEF StepsFor, KeysFor

\* alloc_slot and add_subscription's registration.
LEMMA AllocOwn ==
  ASSUME TypeInv, SlotInv, NEW c \in Conns, Own(c), UNCHANGED regVars,
         AllocPop(c) \/ AllocWrite(c) \/ AllocPush(c) \/ Register(c)
  PROVE  Own(c)'
<1> USE DEF TypeInv, TypeOK
<1>0. /\ pc \in [Conns -> PCs] /\ slot \in [Conns -> Nat] /\ slotBySub \in [SubKey -> Nat]
      /\ work \in [Conns -> Seq(Patterns \X Steps)] /\ tracked \in [Conns -> Seq(CompositeKeys)]
  BY DEF LocalTypes, WorkTypes, MapTypes
<1>1. EntriesOf(c) /\ TopicsOf(c) /\ SlotsOf(c) /\ KeysOf(c)
  BY DEF Own
<1>2. /\ pc[c] \in {"alloc", "write", "push", "register"} /\ cur' = cur /\ subKeys' = subKeys
      /\ bySubId' = bySubId
  BY DEF AllocPop, AllocWrite, AllocPush, Register, regVars
<1>3. pc'[c] \in {"write", "push", "register", "index"}
  BY <1>0 DEF AllocPop, AllocWrite, AllocPush, Register
<1>4. EntriesOf(c)' /\ TopicsOf(c)'
  <2>1. SameEntries(c)
    BY DEF regVars, SameEntries
  <2> QED
    BY <1>1, <1>2, <1>3, <2>1, EntriesKept DEF Busy, Adding
<1>5. tracked[c] = <<>> /\ ~Keyed(c) /\ ~Keyed(c)' /\ ~Removing(c)'
  BY <1>1, <1>2, <1>3 DEF KeysOf, Keyed, Removing
<1>6. CASE AllocPop(c) \/ AllocWrite(c) \/ AllocPush(c)
  <2>1. slotBySub' = slotBySub /\ pc'[c] # "index" /\ work' = work /\ tracked' = tracked
    BY <1>0, <1>6 DEF AllocPop, AllocWrite, AllocPush
  <2>2. SlotsOf(c)'
    BY <1>1, <1>2, <1>5, <2>1 DEF SlotsOf
  <2>3. KeysOf(c)'
    BY <1>1, <1>2, <1>3, <1>5, <2>1 DEF KeysOf
  <2> QED
    BY <1>4, <2>2, <2>3 DEF Own
<1>7. CASE Register(c)
  <2>1. /\ pc[c] = "register" /\ pc'[c] = "index" /\ slot' = slot
        /\ slotBySub' = [slotBySub EXCEPT ![KeyOf(cur[c])] = slot[c]]
        /\ work'[c] = PlanOf(cur[c]) /\ tracked'[c] = <<>>
    BY <1>0, <1>7 DEF Register
  <2>2. Mine(c, cur[c]) /\ KeyOf(cur[c]) = <<c, cur[c].id>> /\ cur[c].id \in SubIds
    BY <1>1, <2>1, MineKey DEF EntriesOf, Busy
  <2>3. slot[c] # 0
    BY <2>1, IdsType DEF SlotInv, SlotBounds, UsesSlot
  <2>4. SlotsOf(c)'
    <3>1. \A id \in SubIds : slotBySub'[<<c, id>>] = IF id = cur[c].id THEN slot[c] ELSE slotBySub[<<c, id>>]
      BY <1>0, <2>1, <2>2 DEF SubKey
    <3>2. \A id \in SubIds : slotBySub'[<<c, id>>] # 0 <=>
             bySubId'[<<c, id>>] # NoSub \/ (pc'[c] = "index" /\ cur'[c].id = id)
      BY <1>1, <1>2, <2>1, <2>3, <3>1 DEF SlotsOf
    <3>3. slotBySub'[KeyOf(cur'[c])] = slot'[c]
      BY <1>2, <2>1, <2>2, <3>1
    <3> QED
      BY <1>5, <3>2, <3>3 DEF SlotsOf, KeyOf
  <2>5. StepsFor(cur[c], PlanOf(cur[c]))
    <3>1. cur[c] \in Sub
      BY <2>2 DEF Mine
    <3> QED
      BY DEF StepsFor, PlanOf
  <2>6. KeysOf(c)'
    BY <1>1, <1>2, <1>5, <2>1, <2>5, NoKeys DEF KeysOf
  <2> QED
    BY <1>4, <2>4, <2>6 DEF Own
<1> QED
  BY <1>6, <1>7

\* index_filter: a key is set and tracked.
LEMMA IndexStepOwn ==
  ASSUME TypeInv, NEW c \in Conns, Own(c), UNCHANGED regVars, IndexStep(c)
  PROVE  Own(c)'
<1> USE DEF TypeInv, TypeOK
<1>0. /\ work \in [Conns -> Seq(Patterns \X Steps)] /\ tracked \in [Conns -> Seq(CompositeKeys)]
      /\ work[c] \in Seq(Patterns \X Steps) /\ tracked[c] \in Seq(CompositeKeys)
  BY DEF WorkTypes
<1>1. EntriesOf(c) /\ TopicsOf(c) /\ SlotsOf(c) /\ KeysOf(c)
  BY DEF Own
<1> DEFINE ck == Head(work[c])
<1>2. /\ pc[c] = "index" /\ work[c] # <<>> /\ work'[c] = Tail(work[c])
      /\ UNCHANGED <<slotBySub, subKeys, pc, cur, slot, bySubId>>
      /\ \/ ck[2].step = "key" /\ tracked'[c] = Append(tracked[c], ck)
         \/ tracked'[c] = tracked[c]
  BY <1>0 DEF IndexStep, regVars
<1>3. EntriesOf(c)' /\ TopicsOf(c)'
  <2>1. SameEntries(c)
    BY DEF regVars, SameEntries
  <2> QED
    BY <1>1, <1>2, <2>1, EntriesKept DEF Busy, Adding
<1>4. SlotsOf(c)'
  BY <1>1, <1>2 DEF SlotsOf, Removing, KeyOf
<1>5. StepsFor(cur[c], work'[c])
  BY <1>0, <1>1, <1>2, TailKeys DEF KeysOf
<1>6. KeysFor(cur[c], tracked'[c])
  <2>1. CASE tracked'[c] = tracked[c]
    BY <1>1, <1>2, <2>1 DEF KeysOf
  <2>2. CASE ck[2].step = "key" /\ tracked'[c] = Append(tracked[c], ck)
    <3>1. 1 \in DOMAIN work[c] /\ ck = work[c][1]
      BY <1>0, <1>2, SeqParts
    <3>2. ck \in CompositeKeys
      BY <1>2, <2>2, <3>1 DEF WorkOK
    <3>3. \E j \in DOMAIN Plan[cur[c].flt] : ck = <<cur[c].pat, Plan[cur[c].flt][j]>>
      BY <1>1, <1>2, <3>1 DEF KeysOf, StepsFor
    <3>4. KeysFor(cur[c], tracked[c]) /\ IsKey(ck[2])
      BY <1>1, <1>2, <2>2 DEF KeysOf, IsKey
    <3> HIDE DEF ck
    <3> QED
      BY <1>0, <2>2, <3>2, <3>3, <3>4, AppendKeys
  <2> QED
    BY <1>2, <2>1, <2>2
<1>7. KeysOf(c)'
  BY <1>1, <1>2, <1>5, <1>6 DEF KeysOf, Keyed
<1> QED
  BY <1>3, <1>4, <1>7 DEF Own

\* free_slot and the rest of remove_subscription.
LEMMA RemoveOwn ==
  ASSUME TypeInv, NEW c \in Conns, Own(c), UNCHANGED regVars,
         FreeClear(c) \/ FreeRelease(c) \/ Unfilter(c) \/ UnindexStep(c)
  PROVE  Own(c)'
<1> USE DEF TypeInv, TypeOK
<1>0. /\ work \in [Conns -> Seq(Patterns \X Steps)] /\ tracked \in [Conns -> Seq(CompositeKeys)]
      /\ work[c] \in Seq(Patterns \X Steps) /\ tracked[c] \in Seq(CompositeKeys)
      /\ subKeys \in [SubKey -> Seq(CompositeKeys)] /\ pc \in [Conns -> PCs]
  BY DEF WorkTypes, MapTypes, LocalTypes
<1>1. EntriesOf(c) /\ TopicsOf(c) /\ SlotsOf(c) /\ KeysOf(c)
  BY DEF Own
<1>2. /\ Removing(c) /\ UNCHANGED <<slotBySub, cur, slot, bySubId>>
      /\ pc'[c] \in {"release", "unfilter", "unindex", "next"}
  BY <1>0 DEF FreeClear, FreeRelease, Unfilter, UnindexStep, Removing, regVars
<1>3. EntriesOf(c)' /\ TopicsOf(c)'
  <2>1. SameEntries(c)
    BY DEF regVars, SameEntries
  <2>2. (Busy(c)' => Busy(c)) /\ ~Adding(c)' /\ pc'[c] # "idle"
    BY <1>2 DEF Busy, Removing, Adding
  <2> QED
    BY <1>1, <1>2, <2>1, <2>2, EntriesKept
<1>4. SlotsOf(c)'
  BY <1>1, <1>2 DEF SlotsOf, Removing, KeyOf
<1>5. Mine(c, cur[c]) /\ KeyOf(cur[c]) = <<c, cur[c].id>> /\ cur[c].id \in SubIds
  BY <1>1, <1>2, MineKey DEF EntriesOf, Busy, Removing
<1>6. CASE FreeClear(c) \/ FreeRelease(c)
  <2>1. UNCHANGED <<subKeys, work, tracked>> /\ Keyed(c) /\ Keyed(c)' /\ pc'[c] \in {"release", "unfilter"}
    BY <1>0, <1>6 DEF FreeClear, FreeRelease, Keyed
  <2>2. KeysOf(c)'
    BY <1>1, <1>2, <2>1 DEF KeysOf, KeyOf, Keyed
  <2> QED
    BY <1>3, <1>4, <2>2 DEF Own
<1>7. CASE Unfilter(c)
  <2>1. /\ Keyed(c) /\ pc'[c] = "unindex" /\ work'[c] = subKeys[KeyOf(cur[c])]
        /\ subKeys' = [subKeys EXCEPT ![KeyOf(cur[c])] = <<>>]
    BY <1>0, <1>7 DEF Unfilter, Keyed
  <2>2. \A id \in SubIds : subKeys'[<<c, id>>] = IF id = cur[c].id THEN <<>> ELSE subKeys[<<c, id>>]
    BY <1>0, <1>5, <2>1 DEF SubKey
  <2>3. KeysFor(cur[c], work'[c])
    BY <1>1, <2>1 DEF KeysOf
  <2>4. \A id \in SubIds : subKeys'[<<c, id>>] # <<>> => bySubId[<<c, id>>] # NoSub
    BY <1>1, <2>2 DEF KeysOf
  <2>5. \A id \in SubIds : bySubId[<<c, id>>] # NoSub => KeysFor(bySubId[<<c, id>>], subKeys'[<<c, id>>])
    BY <1>1, <2>2, NoKeys DEF KeysOf
  <2>6. KeysOf(c)'
    BY <1>2, <2>1, <2>3, <2>4, <2>5 DEF KeysOf, Keyed
  <2> QED
    BY <1>3, <1>4, <2>6 DEF Own
<1>8. CASE UnindexStep(c)
  <2>1. /\ pc[c] = "unindex" /\ subKeys' = subKeys
        /\ \/ pc'[c] = "unindex" /\ work[c] # <<>> /\ work'[c] = Tail(work[c]) /\ tracked'[c] = tracked[c]
           \/ pc'[c] = "next" /\ tracked'[c] = <<>>
    BY <1>0, <1>8 DEF UnindexStep
  <2>2. pc'[c] = "unindex" => KeysFor(cur[c], work'[c])
    BY <1>0, <1>1, <2>1, TailKeys DEF KeysOf
  <2>3. KeysOf(c)'
    BY <1>1, <1>2, <2>1, <2>2 DEF KeysOf, Keyed
  <2> QED
    BY <1>3, <1>4, <2>3 DEF Own
<1> QED
  BY <1>6, <1>7, <1>8

\* subscribe: a fresh id.
LEMMA SubscribeOwn ==
  ASSUME TypeInv, FreshIds, NEW c \in Conns, Own(c), Subscribe(c)
  PROVE  Own(c)'
<1> USE DEF TypeInv, TypeOK
<1>0. pc \in [Conns -> PCs] /\ cur \in [Conns -> Sub \cup {NoSub}]
  BY DEF LocalTypes
<1>1. EntriesOf(c) /\ TopicsOf(c) /\ SlotsOf(c) /\ KeysOf(c)
  BY DEF Own
<1>2. /\ pc[c] = "idle" /\ c \in alive /\ pc' = [pc EXCEPT ![c] = "alloc"]
      /\ UNCHANGED <<slotBySub, subKeys, slot, work, tracked, byConnection, byTopic, bySubId, todo, alive>>
  BY DEF Subscribe, indexVars, regVars
<1>3. PICK r \in SubsOf[c] :
        LET s == [conn |-> c, id |-> r.id, pat |-> r.pat, flt |-> r.flt]
        IN  (FreshIds => bySubId[KeyOf(s)] = NoSub) /\ cur' = [cur EXCEPT ![c] = s]
  BY DEF Subscribe
<1> DEFINE s == [conn |-> c, id |-> r.id, pat |-> r.pat, flt |-> r.flt]
<1>4. r \in [id : SubIds, pat : Patterns, flt : Filters]
  BY RegistryAssumption DEF RegistryAssumption
<1>5. Mine(c, s)
  BY <1>4 DEF Mine, Sub, PatsOf
<1>6. bySubId[KeyOf(s)] = NoSub /\ cur'[c] = s /\ pc'[c] = "alloc"
  BY <1>0, <1>2, <1>3
<1> HIDE DEF s
<1>7. EntriesOf(c)'
  BY <1>1, <1>2, <1>5, <1>6 DEF EntriesOf, Busy, Adding, Mine, KeyOf, Listed
<1>8. TopicsOf(c)'
  BY <1>1, <1>2 DEF TopicsOf, Named
<1>9. SlotsOf(c)'
  BY <1>1, <1>2, <1>6 DEF SlotsOf, Removing
<1>10. KeysOf(c)'
  BY <1>1, <1>2, <1>6 DEF KeysOf, Keyed
<1> QED
  BY <1>7, <1>8, <1>9, <1>10 DEF Own

\* The elements of a sequence with one more.
LEMMA AppendElems ==
  ASSUME NEW S, NEW q \in Seq(S), NEW x \in S
  PROVE  /\ \A i \in DOMAIN Append(q, x) :
               (i \in DOMAIN q /\ Append(q, x)[i] = q[i]) \/ Append(q, x)[i] = x
         /\ \A i \in DOMAIN q : i \in DOMAIN Append(q, x) /\ Append(q, x)[i] = q[i]
         /\ \E i \in DOMAIN Append(q, x) : Append(q, x)[i] = x
<1>1. Len(q) + 1 \in DOMAIN Append(q, x) /\ Append(q, x)[Len(q) + 1] = x
  OBVIOUS
<1> QED
  BY <1>1

\* subscribe's last step: the entry is linked.
LEMMA LinkOwn ==
  ASSUME TypeInv, NEW c \in Conns, Own(c), Link(c)
  PROVE  Own(c)'
<1> USE DEF TypeInv, TypeOK
<1>0. /\ pc \in [Conns -> PCs] /\ tracked \in [Conns -> Seq(CompositeKeys)]
      /\ byConnection \in [Conns -> Seq(Sub)] /\ byConnection[c] \in Seq(Sub)
      /\ bySubId \in [SubKey -> Sub \cup {NoSub}] /\ subKeys \in [SubKey -> Seq(CompositeKeys)]
  BY DEF LocalTypes, WorkTypes, RegTypes, MapTypes
<1>1. EntriesOf(c) /\ TopicsOf(c) /\ SlotsOf(c) /\ KeysOf(c)
  BY DEF Own
<1> DEFINE s == cur[c]
<1>2. /\ pc[c] = "index" /\ pc'[c] = "next"
      /\ subKeys' = [subKeys EXCEPT ![KeyOf(s)] = tracked[c]] /\ tracked'[c] = <<>>
      /\ byConnection'[c] = Append(byConnection[c], s)
      /\ byTopic' = byTopic \cup {<<s.pat, c, s.id>>}
      /\ bySubId' = [bySubId EXCEPT ![KeyOf(s)] = s]
      /\ UNCHANGED <<slotBySub, cur, slot, work, todo, alive>>
  BY <1>0 DEF Link
<1>3. Mine(c, s) /\ bySubId[KeyOf(s)] = NoSub /\ s # NoSub
  BY <1>1, <1>2, IndexAssumption DEF EntriesOf, Busy, Adding, IndexAssumption, Mine
<1>4. s \in Sub /\ KeyOf(s) = <<c, s.id>> /\ s.id \in SubIds /\ s.pat \in Patterns
  BY <1>3, MineKey DEF Mine
<1>5. c \in alive /\ todo[c] = <<>>
  BY <1>1, <1>2 DEF EntriesOf, Adding
<1>c. cur'[c] = s
  BY <1>2
<1> HIDE DEF s
<1>6. /\ \A id \in SubIds : bySubId'[<<c, id>>] = IF id = s.id THEN s ELSE bySubId[<<c, id>>]
      /\ \A id \in SubIds : subKeys'[<<c, id>>] = IF id = s.id THEN tracked[c] ELSE subKeys[<<c, id>>]
  BY <1>0, <1>2, <1>4 DEF SubKey
<1>7. /\ \A i \in DOMAIN byConnection'[c] :
           (i \in DOMAIN byConnection[c] /\ byConnection'[c][i] = byConnection[c][i]) \/ byConnection'[c][i] = s
      /\ \A i \in DOMAIN byConnection[c] : i \in DOMAIN byConnection'[c] /\ byConnection'[c][i] = byConnection[c][i]
      /\ \E i \in DOMAIN byConnection'[c] : byConnection'[c][i] = s
  <2> DEFINE q == byConnection[c]
  <2>1. q \in Seq(Sub) /\ byConnection'[c] = Append(q, s)
    BY <1>0, <1>2
  <2> HIDE DEF q
  <2>2. /\ \A i \in DOMAIN Append(q, s) :
              (i \in DOMAIN q /\ Append(q, s)[i] = q[i]) \/ Append(q, s)[i] = s
        /\ \A i \in DOMAIN q : i \in DOMAIN Append(q, s) /\ Append(q, s)[i] = q[i]
        /\ \E i \in DOMAIN Append(q, s) : Append(q, s)[i] = s
    BY <1>4, <2>1, AppendElems
  <2> QED
    BY <2>1, <2>2, Zenon DEF q
<1>8. EntriesOf(c)'
  <2>1. ASSUME NEW i \in DOMAIN byConnection'[c]
        PROVE  Mine(c, byConnection'[c][i]) /\ bySubId'[KeyOf(byConnection'[c][i])] = byConnection'[c][i]
    <3>1. CASE byConnection'[c][i] = s
      BY <1>3, <1>4, <1>6, <3>1
    <3>2. CASE i \in DOMAIN byConnection[c] /\ byConnection'[c][i] = byConnection[c][i]
      <4> DEFINE e == byConnection[c][i]
      <4>1. Mine(c, e) /\ bySubId[KeyOf(e)] = e
        BY <1>1, <3>2 DEF EntriesOf
      <4>2. e # NoSub /\ KeyOf(e) = <<c, e.id>> /\ e.id \in SubIds
        BY <4>1, MineKey, IndexAssumption DEF Mine, IndexAssumption
      <4> HIDE DEF e
      <4>3. bySubId'[KeyOf(e)] = e
        BY <1>3, <1>4, <1>6, <4>1, <4>2
      <4> QED
        BY <3>2, <4>1, <4>3 DEF e
    <3> QED
      BY <1>7, <3>1, <3>2
  <2>2. ASSUME NEW id \in SubIds, bySubId'[<<c, id>>] # NoSub
        PROVE  LET e == bySubId'[<<c, id>>] IN Mine(c, e) /\ e.id = id /\ Listed(byConnection'[c], e)
    <3>1. CASE id = s.id
      BY <1>3, <1>6, <1>7, <3>1 DEF Listed
    <3>2. CASE id # s.id
      <4>1. LET e == bySubId[<<c, id>>] IN Mine(c, e) /\ e.id = id /\ Listed(byConnection[c], e)
        BY <1>1, <1>5, <1>6, <2>2, <3>2 DEF EntriesOf, Listed
      <4> QED
        BY <1>6, <1>7, <3>2, <4>1 DEF Listed
    <3> QED
      BY <3>1, <3>2
  <2>3. ~Busy(c)' /\ ~Adding(c)' /\ c \in alive' /\ todo'[c] = <<>>
    BY <1>2, <1>5 DEF Busy, Adding
  <2> QED
    BY <2>1, <2>2, <2>3 DEF EntriesOf, Mine, KeyOf, Listed
<1>9. TopicsOf(c)'
  <2>1. ASSUME NEW p \in Patterns, NEW id \in SubIds, <<p, c, id>> \in byTopic'
        PROVE  Named(byConnection'[c], p, id)
    <3>1. CASE <<p, c, id>> \in byTopic
      <4>1. Named(byConnection[c], p, id)
        BY <1>1, <1>5, <3>1 DEF TopicsOf, Named
      <4> QED
        BY <1>7, <4>1 DEF Named
    <3>2. CASE p = s.pat /\ id = s.id
      BY <1>7, <3>2 DEF Named
    <3> QED
      BY <1>2, <2>1, <3>1, <3>2
  <2>2. ASSUME NEW id \in SubIds, bySubId'[<<c, id>>] # NoSub
        PROVE  <<bySubId'[<<c, id>>].pat, c, id>> \in byTopic'
    BY <1>1, <1>2, <1>5, <1>6, <2>2 DEF TopicsOf
  <2> QED
    BY <2>1, <2>2 DEF TopicsOf, Named
<1>10. SlotsOf(c)'
  BY <1>1, <1>2, <1>c, <1>3, <1>6 DEF SlotsOf, Removing, s
<1>11. KeysOf(c)'
  <2>1. KeysFor(s, tracked[c])
    BY <1>1, <1>2 DEF KeysOf, s
  <2>2. \A id \in SubIds : bySubId'[<<c, id>>] # NoSub => KeysFor(bySubId'[<<c, id>>], subKeys'[<<c, id>>])
    BY <1>1, <1>6, <2>1 DEF KeysOf
  <2>3. \A id \in SubIds : subKeys'[<<c, id>>] # <<>> => bySubId'[<<c, id>>] # NoSub
    BY <1>1, <1>2, <1>3, <1>6 DEF KeysOf, Keyed
  <2> QED
    BY <1>2, <2>2, <2>3 DEF KeysOf, Keyed
<1> QED
  BY <1>8, <1>9, <1>10, <1>11 DEF Own

\* The entry loses its slot; the keys go with it.
LEMMA DetachOwn ==
  ASSUME TypeInv, SlotInv, NEW c \in Conns, Own(c), pc[c] \in {"idle", "next"},
         NEW e, Mine(c, e), bySubId[KeyOf(e)] \in {NoSub, e}, Detach(c, e)
  PROVE  /\ SlotsOf(c)' /\ KeysOf(c)' /\ ~Adding(c)' /\ pc'[c] # "idle" /\ (Busy(c)' => Mine(c, cur'[c]))
         /\ \A id \in SubIds : bySubId'[<<c, id>>] = IF id = e.id THEN NoSub ELSE bySubId[<<c, id>>]
<1> USE DEF TypeInv, TypeOK
<1>0. /\ pc \in [Conns -> PCs] /\ bySubId \in [SubKey -> Sub \cup {NoSub}] /\ slotBySub \in [SubKey -> Nat]
      /\ cur \in [Conns -> Sub \cup {NoSub}] /\ slot \in [Conns -> Nat]
  BY DEF LocalTypes, RegTypes, MapTypes
<1>1. SlotsOf(c) /\ KeysOf(c)
  BY DEF Own
<1>2. e \in Sub /\ e # NoSub /\ KeyOf(e) = <<c, e.id>> /\ e.id \in SubIds /\ <<c, e.id>> \in SubKey
  BY MineKey, IndexAssumption DEF Mine, IndexAssumption, SubKey
<1>3. /\ \A id \in SubIds : bySubId'[<<c, id>>] = IF id = e.id THEN NoSub ELSE bySubId[<<c, id>>]
      /\ \A id \in SubIds : slotBySub'[<<c, id>>] = IF id = e.id THEN 0 ELSE slotBySub[<<c, id>>]
      /\ UNCHANGED <<subKeys, work, tracked>>
  BY <1>0, <1>2 DEF Detach, SubKey
<1>4. \A id \in SubIds : slotBySub[<<c, id>>] # 0 <=> bySubId[<<c, id>>] # NoSub
  BY <1>1 DEF SlotsOf
<1>5. tracked[c] = <<>> /\ ~Keyed(c)
  BY <1>1 DEF KeysOf, Keyed
<1>6. \A id \in SubIds : slotBySub'[<<c, id>>] # 0 <=> bySubId'[<<c, id>>] # NoSub
  BY <1>3, <1>4
<1>7. CASE slotBySub[KeyOf(e)] = 0
  <2>1. pc'[c] = "next"
    BY <1>0, <1>7 DEF Detach
  <2>2. bySubId[<<c, e.id>>] = NoSub
    BY <1>2, <1>4, <1>7
  <2>3. SlotsOf(c)'
    BY <1>6, <2>1 DEF SlotsOf, Removing
  <2>4. KeysOf(c)'
    BY <1>1, <1>3, <1>5, <2>1, <2>2 DEF KeysOf, Keyed
  <2> QED
    BY <1>3, <2>1, <2>3, <2>4 DEF Adding, Busy
<1>8. CASE slotBySub[KeyOf(e)] # 0
  <2>1. pc'[c] = "clear" /\ cur'[c] = e /\ slot'[c] = slotBySub[<<c, e.id>>]
    BY <1>0, <1>2, <1>8 DEF Detach
  <2>2. bySubId[<<c, e.id>>] = e
    BY <1>2, <1>4, <1>8
  <2>3. \A id \in SubIds : slotBySub'[<<c, id>>] # slot'[c]
    <3> SUFFICES ASSUME NEW id \in SubIds, id # e.id, slotBySub[<<c, id>>] = slotBySub[<<c, e.id>>] PROVE FALSE
      BY <1>2, <1>3, <1>8, <2>1
    <3>1. <<c, id>> \in SubKey /\ <<c, id>> # <<c, e.id>>
      BY DEF SubKey
    <3> QED
      BY <1>2, <1>8, <3>1 DEF SlotInv, SlotExclusive
  <2>4. SlotsOf(c)'
    BY <1>2, <1>3, <1>6, <2>1, <2>3 DEF SlotsOf, KeyOf
  <2>5. KeysFor(e, subKeys'[KeyOf(e)])
    BY <1>1, <1>2, <1>3, <2>2 DEF KeysOf
  <2>6. KeysOf(c)'
    BY <1>1, <1>3, <1>5, <2>1, <2>2, <2>5 DEF KeysOf, Keyed, KeyOf
  <2> QED
    BY <1>3, <2>1, <2>4, <2>6 DEF Adding, Busy
<1> QED
  BY <1>7, <1>8

\* unsubscribe: the entry goes from all three maps.
LEMMA UnsubscribeOwn ==
  ASSUME TypeInv, SlotInv, NEW c \in Conns, Own(c), Unsubscribe(c)
  PROVE  Own(c)'
<1> USE DEF TypeInv, TypeOK
<1>0. byConnection \in [Conns -> Seq(Sub)] /\ byConnection[c] \in Seq(Sub)
  BY DEF RegTypes
<1>1. EntriesOf(c) /\ TopicsOf(c) /\ SlotsOf(c) /\ KeysOf(c)
  BY DEF Own
<1>2. PICK id \in SubIds :
        /\ bySubId[<<c, id>>] # NoSub
        /\ byConnection' = [byConnection EXCEPT ![c] = Retain(@, id)]
        /\ byTopic' = byTopic \ {<<bySubId[<<c, id>>].pat, c, id>>}
        /\ Detach(c, bySubId[<<c, id>>])
  BY DEF Unsubscribe
<1> DEFINE e == bySubId[<<c, id>>]
<1>3. pc[c] = "idle" /\ c \in alive /\ UNCHANGED <<todo, alive>>
  BY DEF Unsubscribe
<1>4. Mine(c, e) /\ e.id = id /\ bySubId[KeyOf(e)] = e
  BY <1>1, <1>2, MineKey DEF EntriesOf
<1>5. todo[c] = <<>> /\ byConnection'[c] = Retain(byConnection[c], id)
  BY <1>0, <1>1, <1>2, <1>3 DEF EntriesOf
<1>d. Detach(c, e) /\ byTopic' = byTopic \ {<<e.pat, c, id>>} /\ e = bySubId[<<c, id>>]
  BY <1>2
<1> HIDE DEF e
<1>6. /\ SlotsOf(c)' /\ KeysOf(c)' /\ ~Adding(c)' /\ pc'[c] # "idle" /\ (Busy(c)' => Mine(c, cur'[c]))
      /\ \A j \in SubIds : bySubId'[<<c, j>>] = IF j = id THEN NoSub ELSE bySubId[<<c, j>>]
  BY <1>3, <1>4, <1>d, DetachOwn
<1>7. /\ \A n \in DOMAIN byConnection'[c] :
            \E i \in DOMAIN byConnection[c] :
              byConnection'[c][n] = byConnection[c][i] /\ byConnection[c][i].id # id
      /\ \A i \in DOMAIN byConnection[c] : byConnection[c][i].id # id =>
            \E n \in DOMAIN byConnection'[c] : byConnection'[c][n] = byConnection[c][i]
  BY <1>0, <1>5, RetainFacts
<1>8. EntriesOf(c)'
  <2>1. ASSUME NEW n \in DOMAIN byConnection'[c]
        PROVE  Mine(c, byConnection'[c][n]) /\ bySubId'[KeyOf(byConnection'[c][n])] = byConnection'[c][n]
    <3>1. PICK i \in DOMAIN byConnection[c] :
            byConnection'[c][n] = byConnection[c][i] /\ byConnection[c][i].id # id
      BY <1>7
    <3>2. Mine(c, byConnection[c][i]) /\ bySubId[KeyOf(byConnection[c][i])] = byConnection[c][i]
      BY <1>1 DEF EntriesOf
    <3> QED
      BY <1>6, <3>1, <3>2, MineKey
  <2>2. ASSUME NEW j \in SubIds, bySubId'[<<c, j>>] # NoSub
        PROVE  LET s == bySubId'[<<c, j>>] IN Mine(c, s) /\ s.id = j /\ Listed(byConnection'[c], s)
    <3>1. j # id /\ bySubId'[<<c, j>>] = bySubId[<<c, j>>]
      BY <1>6, <2>2
    <3>2. LET s == bySubId[<<c, j>>] IN Mine(c, s) /\ s.id = j /\ Listed(byConnection[c], s)
      BY <1>1, <1>5, <2>2, <3>1 DEF EntriesOf, Listed
    <3> QED
      BY <1>7, <3>1, <3>2 DEF Listed
  <2> QED
    BY <1>3, <1>5, <1>6, <2>1, <2>2 DEF EntriesOf, Mine, KeyOf, Listed
<1>9. TopicsOf(c)'
  <2>1. ASSUME NEW p \in Patterns, NEW j \in SubIds, <<p, c, j>> \in byTopic'
        PROVE  Named(byConnection'[c], p, j)
    <3>1. <<p, c, j>> \in byTopic /\ ~(p = e.pat /\ j = id)
      BY <1>d, <2>1
    <3>2. PICK i \in DOMAIN byConnection[c] : byConnection[c][i].pat = p /\ byConnection[c][i].id = j
      BY <1>1, <1>5, <3>1 DEF TopicsOf, Named
    <3>3. byConnection[c][i] = bySubId[<<c, j>>]
      BY <1>1, <3>2, MineKey DEF EntriesOf
    <3>4. j # id
      BY <1>d, <3>1, <3>2, <3>3
    <3> QED
      BY <1>7, <3>2, <3>4 DEF Named
  <2>2. ASSUME NEW j \in SubIds, bySubId'[<<c, j>>] # NoSub
        PROVE  <<bySubId'[<<c, j>>].pat, c, j>> \in byTopic'
    BY <1>1, <1>3, <1>d, <1>6, <2>2 DEF TopicsOf
  <2> QED
    BY <2>1, <2>2 DEF TopicsOf, Named
<1> QED
  BY <1>6, <1>8, <1>9 DEF Own

\* remove_connection takes the entries out as a whole.
LEMMA RemoveConnectionOwn ==
  ASSUME TypeInv, NEW c \in Conns, Own(c), RemoveConnection(c)
  PROVE  Own(c)'
<1> USE DEF TypeInv, TypeOK
<1>0. pc \in [Conns -> PCs] /\ byConnection \in [Conns -> Seq(Sub)] /\ todo \in [Conns -> Seq(Sub)]
  BY DEF LocalTypes, RegTypes
<1>1. EntriesOf(c) /\ TopicsOf(c) /\ SlotsOf(c) /\ KeysOf(c)
  BY DEF Own
<1>2. /\ pc[c] = "idle" /\ pc'[c] = "next" /\ c \in alive /\ c \notin alive'
      /\ todo'[c] = byConnection[c] /\ byConnection'[c] = <<>>
      /\ UNCHANGED <<slotBySub, subKeys, cur, slot, work, tracked, byTopic, bySubId>>
  BY <1>0 DEF RemoveConnection, indexVars
<1>3. todo[c] = <<>>
  BY <1>1, <1>2 DEF EntriesOf
<1>4. EntriesOf(c)'
  BY <1>1, <1>2, <1>3 DEF EntriesOf, Busy, Adding, Mine, KeyOf, Listed
<1>5. TopicsOf(c)'
  BY <1>1, <1>2, <1>3 DEF TopicsOf, Named
<1>6. SlotsOf(c)'
  BY <1>1, <1>2 DEF SlotsOf, Removing
<1>7. KeysOf(c)'
  BY <1>1, <1>2 DEF KeysOf, Keyed
<1> QED
  BY <1>4, <1>5, <1>6, <1>7 DEF Own

\* The other elements of a sequence are in its tail.
LEMMA TailRest ==
  ASSUME NEW S, NEW q \in Seq(S), q # <<>>
  PROVE  \A j \in DOMAIN q : j = 1 \/ \E i \in DOMAIN Tail(q) : Tail(q)[i] = q[j]
<1> SUFFICES ASSUME NEW j \in DOMAIN q, j # 1 PROVE \E i \in DOMAIN Tail(q) : Tail(q)[i] = q[j]
  OBVIOUS
<1>1. j \in Nat /\ j - 1 \in 1..(Len(q) - 1) /\ Len(Tail(q)) = Len(q) - 1
  OBVIOUS
<1>2. j - 1 \in DOMAIN Tail(q) /\ Tail(q)[j - 1] = q[j]
  BY <1>1
<1> QED
  BY <1>2

\* remove_connection removes one entry.
LEMMA RemoveEntryOwn ==
  ASSUME TypeInv, SlotInv, NEW c \in Conns, Own(c), RemoveEntry(c)
  PROVE  Own(c)'
<1> USE DEF TypeInv, TypeOK
<1>0. todo \in [Conns -> Seq(Sub)] /\ todo[c] \in Seq(Sub)
  BY DEF RegTypes
<1>1. EntriesOf(c) /\ TopicsOf(c) /\ SlotsOf(c) /\ KeysOf(c)
  BY DEF Own
<1> DEFINE e == Head(todo[c])
<1>2. /\ pc[c] = "next" /\ todo[c] # <<>> /\ Detach(c, e) /\ todo'[c] = Tail(todo[c])
      /\ byTopic' = {t \in byTopic : ~(t[1] = e.pat /\ t[2] = c)}
      /\ UNCHANGED <<byConnection, alive>>
  BY <1>0 DEF RemoveEntry
<1>3. c \notin alive /\ byConnection[c] = <<>>
  BY <1>1, <1>2 DEF EntriesOf
<1>4. /\ 1 \in DOMAIN todo[c] /\ e = todo[c][1]
      /\ \A i \in DOMAIN todo'[c] : \E j \in DOMAIN todo[c] : todo'[c][i] = todo[c][j]
      /\ \A j \in DOMAIN todo[c] : todo[c][j] = e \/ \E i \in DOMAIN todo'[c] : todo'[c][i] = todo[c][j]
  BY <1>0, <1>2, SeqParts, TailRest
<1> HIDE DEF e
<1>5. Mine(c, e) /\ bySubId[KeyOf(e)] \in {NoSub, e}
  BY <1>1, <1>4 DEF EntriesOf
<1>6. /\ SlotsOf(c)' /\ KeysOf(c)' /\ ~Adding(c)' /\ pc'[c] # "idle" /\ (Busy(c)' => Mine(c, cur'[c]))
      /\ \A j \in SubIds : bySubId'[<<c, j>>] = IF j = e.id THEN NoSub ELSE bySubId[<<c, j>>]
  BY <1>2, <1>5, DetachOwn
<1>7. EntriesOf(c)'
  <2>1. ASSUME NEW i \in DOMAIN todo'[c]
        PROVE  Mine(c, todo'[c][i]) /\ bySubId'[KeyOf(todo'[c][i])] \in {NoSub, todo'[c][i]}
    <3>1. PICK j \in DOMAIN todo[c] : todo'[c][i] = todo[c][j]
      BY <1>4
    <3>2. Mine(c, todo[c][j]) /\ bySubId[KeyOf(todo[c][j])] \in {NoSub, todo[c][j]}
      BY <1>1 DEF EntriesOf
    <3> QED
      BY <1>6, <3>1, <3>2, MineKey
  <2>2. ASSUME NEW j \in SubIds, bySubId'[<<c, j>>] # NoSub
        PROVE  LET s == bySubId'[<<c, j>>] IN Mine(c, s) /\ s.id = j /\ Listed(todo'[c], s)
    <3>1. j # e.id /\ bySubId'[<<c, j>>] = bySubId[<<c, j>>]
      BY <1>6, <2>2
    <3>2. LET s == bySubId[<<c, j>>] IN Mine(c, s) /\ s.id = j /\ Listed(todo[c], s)
      BY <1>1, <1>3, <2>2, <3>1 DEF EntriesOf, Listed
    <3> QED
      BY <1>4, <3>1, <3>2 DEF Listed
  <2> QED
    BY <1>2, <1>3, <1>6, <2>1, <2>2 DEF EntriesOf, Mine, KeyOf, Listed
<1>8. TopicsOf(c)'
  <2>1. ASSUME NEW p \in Patterns, NEW j \in SubIds, <<p, c, j>> \in byTopic'
        PROVE  Named(todo'[c], p, j)
    <3>1. <<p, c, j>> \in byTopic /\ p # e.pat
      BY <1>2, <2>1
    <3>2. PICK i \in DOMAIN todo[c] : todo[c][i].pat = p /\ todo[c][i].id = j
      BY <1>1, <1>3, <3>1 DEF TopicsOf, Named
    <3> QED
      BY <1>4, <3>1, <3>2 DEF Named
  <2> QED
    BY <1>2, <1>3, <2>1 DEF TopicsOf, Named
<1> QED
  BY <1>6, <1>7, <1>8 DEF Own

\* The operation returns.
LEMMA ReturnOwn ==
  ASSUME TypeInv, NEW c \in Conns, Own(c), Return(c)
  PROVE  Own(c)'
<1> USE DEF TypeInv, TypeOK
<1>0. pc \in [Conns -> PCs]
  BY DEF LocalTypes
<1>1. EntriesOf(c) /\ TopicsOf(c) /\ SlotsOf(c) /\ KeysOf(c)
  BY DEF Own
<1>2. /\ pc[c] = "next" /\ pc'[c] = "idle" /\ todo[c] = <<>>
      /\ UNCHANGED <<slotBySub, subKeys, work, tracked, byConnection, byTopic, bySubId, todo, alive>>
  BY <1>0 DEF Return, indexVars, regVars
<1>3. EntriesOf(c)'
  BY <1>1, <1>2 DEF EntriesOf, Busy, Adding, Mine, KeyOf, Listed
<1>4. TopicsOf(c)'
  BY <1>1, <1>2 DEF TopicsOf, Named
<1>5. SlotsOf(c)'
  BY <1>1, <1>2 DEF SlotsOf, Removing
<1>6. KeysOf(c)'
  BY <1>1, <1>2 DEF KeysOf, Keyed
<1> QED
  BY <1>3, <1>4, <1>5, <1>6 DEF Own

\* Every step keeps what each task's own state says.
LEMMA NextOwn ==
  ASSUME FreshIds, TypeInv, SlotInv, \A c \in Conns : Own(c), [Next]_vars
  PROVE  \A c \in Conns : Own(c)'
<1> SUFFICES ASSUME NEW c \in Conns PROVE Own(c)'
  OBVIOUS
<1>1. ASSUME UNCHANGED <<indexVars, localVars, regVars>> PROVE Own(c)'
  <2>1. SameOwn(c)
    BY <1>1 DEF SameOwn, SameEntries, indexVars, localVars, regVars
  <2> QED
    BY <2>1, OwnKept
<1>2. ASSUME NEW d \in Conns, ConnStep(d) PROVE Own(c)'
  <2>1. CASE c # d
    BY <1>2, <2>1, OtherOwn, OwnKept DEF Own
  <2>2. CASE c = d
    <3>1. CASE IndexNext(c) /\ UNCHANGED <<regVars, router>>
      <4>1. UNCHANGED regVars
        BY <3>1
      <4> QED
        BY <3>1, <4>1, AllocOwn, IndexStepOwn, RemoveOwn DEF IndexNext
    <3> QED
      BY <1>2, <2>2, <3>1, SubscribeOwn, LinkOwn, UnsubscribeOwn, RemoveConnectionOwn,
         RemoveEntryOwn, ReturnOwn DEF ConnStep
  <2> QED
    BY <2>1, <2>2
<1> QED
  BY <1>1, <1>2 DEF Next, Evaluate, Dispatch, vars

\* It holds initially.
LEMMA InitOwn == Init => \A c \in Conns : Own(c)
<1> SUFFICES ASSUME Init, NEW c \in Conns PROVE Own(c)
  OBVIOUS
<1> USE DEF Init, IndexInit
<1>0. \A id \in SubIds : <<c, id>> \in SubKey
  BY DEF SubKey
<1>1. EntriesOf(c)
  BY <1>0 DEF EntriesOf, Busy, Adding
<1>2. TopicsOf(c)
  BY <1>0 DEF TopicsOf
<1>3. SlotsOf(c)
  BY <1>0 DEF SlotsOf, Removing
<1>4. KeysOf(c)
  BY <1>0 DEF KeysOf, Keyed
<1> QED
  BY <1>1, <1>2, <1>3, <1>4 DEF Own

\* The subscription that slot_by_sub's entry k is for.
SubOf(k) == IF bySubId[k] # NoSub THEN bySubId[k] ELSE cur[k[1]]

\* A step changes a registered slot only when it registers it.
LEMMA RegisteredSlots ==
  ASSUME TypeInv, SlotInv, NEW d \in Conns, ConnStep(d), NEW k \in SubKey, slotBySub'[k] # 0
  PROVE  \/ /\ slotBySub'[k] = slotBySub[k] /\ slots'[slotBySub[k]] = slots[slotBySub[k]]
         \/ /\ pc[d] = "register" /\ k = KeyOf(cur[d]) /\ slotBySub'[k] = slot[d]
            /\ slots' = slots
<1> USE DEF TypeInv, TypeOK
<1>0. /\ slotBySub \in [SubKey -> Nat] /\ slots \in Seq(Sub \cup {NoSub})
  BY DEF MapTypes, SlabTypes
<1>1. SlotStep(d)
  BY StepKinds
<1>2. slotBySub[k] # 0 => slotBySub[k] \in Ids
  BY DEF SlotInv, BitmapInBounds
<1>3. Holding(d) => slot[d] # slotBySub[k]
  BY DEF SlotInv, SlotExclusive
<1>4. CASE Quiet(d) \/ Pop(d) \/ Release(d)
  BY <1>4 DEF Quiet, Pop, Release
<1>5. CASE Write(d) \/ Clear(d)
  <2>1. slotBySub' = slotBySub /\ slotBySub[k] \in 1..Len(slots) /\ slot[d] # slotBySub[k]
    BY <1>2, <1>3, <1>5 DEF Write, Clear, Holding, Ids
  <2>2. \E e : slots' = [slots EXCEPT ![slot[d]] = e]
    BY <1>5 DEF Write, Clear
  <2>3. slots'[slotBySub[k]] = slots[slotBySub[k]]
    BY <1>0, <2>1, <2>2
  <2> QED
    BY <2>1, <2>3
<1>6. CASE Push(d)
  <2>1. cur[d] \in Sub \cup {NoSub} /\ slots' = Append(slots, cur[d]) /\ slotBySub' = slotBySub
    BY <1>6 DEF Push
  <2> QED
    BY <1>0, <1>2, <2>1, AppendParts DEF Ids
<1>7. CASE Enter(d)
  BY <1>0, <1>7 DEF Enter
<1>8. CASE Leave(d)
  BY <1>0, <1>8 DEF Leave
<1> QED
  BY <1>1, <1>4, <1>5, <1>6, <1>7, <1>8 DEF SlotStep

\* Registered slots hold the entry, or the subscription that becomes one.
SlabHolds == \A k \in SubKey : slotBySub[k] # 0 => slots[slotBySub[k]] = SubOf(k)

\* Every step of a task keeps that.
LEMMA SlabHoldsStep ==
  ASSUME TypeInv, SlotInv, \A c \in Conns : Own(c), SlabHolds, NEW d \in Conns, ConnStep(d)
  PROVE  SlabHolds'
<1> USE DEF TypeInv, TypeOK
<1>0. /\ pc \in [Conns -> PCs] /\ cur \in [Conns -> Sub \cup {NoSub}] /\ slotBySub \in [SubKey -> Nat]
      /\ bySubId \in [SubKey -> Sub \cup {NoSub}]
  BY DEF LocalTypes, MapTypes, RegTypes
<1> SUFFICES ASSUME NEW c \in Conns, NEW id \in SubIds, slotBySub'[<<c, id>>] # 0
             PROVE  slots'[slotBySub'[<<c, id>>]] = SubOf(<<c, id>>)'
  BY DEF SlabHolds, SubKey
<1> DEFINE k == <<c, id>>
<1>1. k \in SubKey /\ k[1] = c
  BY DEF SubKey
<1>2. SubOf(k) = (IF bySubId[k] # NoSub THEN bySubId[k] ELSE cur[c])
  BY DEF SubOf
<1>3. SubOf(k)' = (IF bySubId'[k] # NoSub THEN bySubId'[k] ELSE cur'[c])
  BY DEF SubOf
<1>4. slotBySub[k] # 0 => slots[slotBySub[k]] = SubOf(k)
  BY <1>1 DEF SlabHolds
<1>5. /\ slotBySub[k] # 0 <=> bySubId[k] # NoSub \/ (pc[c] = "index" /\ cur[c].id = id)
      /\ Busy(c) => Mine(c, cur[c])
      /\ Adding(c) => bySubId[KeyOf(cur[c])] = NoSub
  BY DEF Own, SlotsOf, EntriesOf
<1>6. \/ slotBySub'[k] = slotBySub[k] /\ slots'[slotBySub[k]] = slots[slotBySub[k]]
      \/ /\ pc[d] = "register" /\ k = KeyOf(cur[d]) /\ slotBySub'[k] = slot[d]
         /\ slots' = slots
  BY <1>1, RegisteredSlots
<1>k. slotBySub'[k] # 0
  OBVIOUS
<1> HIDE DEF k
<1>7. SUFFICES SubOf(k)' = slots'[slotBySub'[k]]
  BY DEF k
<1>8. CASE pc[d] = "register" /\ k = KeyOf(cur[d]) /\ slotBySub'[k] = slot[d] /\ slots' = slots
  <2>1. Mine(d, cur[d])
    BY <1>8 DEF Own, EntriesOf, Busy
  <2>2. c = d
    BY <1>1, <1>8, <2>1, MineKey
  <2>3. bySubId[k] = NoSub
    BY <1>5, <1>8, <2>2 DEF Adding
  <2>4. slots[slot[d]] = cur[d]
    BY <1>8 DEF SlotInv, SlotContents
  <2>5. cur' = cur /\ bySubId' = bySubId
    BY <1>8 DEF ConnStep, Subscribe, Link, Unsubscribe, RemoveConnection, RemoveEntry, Return,
                IndexNext, AllocPop, AllocWrite, AllocPush, Register, IndexStep, FreeClear,
                FreeRelease, Unfilter, UnindexStep, regVars
  <2> QED
    BY <1>3, <1>8, <2>2, <2>3, <2>4, <2>5
<1>9. CASE slotBySub'[k] = slotBySub[k] /\ slots'[slotBySub[k]] = slots[slotBySub[k]]
  <2>0. SUFFICES SubOf(k)' = SubOf(k)
    BY <1>4, <1>9, <1>k
  <2>1. CASE c # d
    <3>1. SameOwn(c)
      BY <2>1, OtherOwn DEF Own
    <3> QED
      BY <1>2, <1>3, <3>1 DEF SameOwn, SameEntries, k
  <2>2. CASE c = d
    <3>0. pc[c] # "index" => bySubId[k] # NoSub
      BY <1>5, <1>9, <1>k
    <3>1. CASE IndexNext(c) /\ UNCHANGED <<regVars, router>>
      <4>1. cur' = cur /\ bySubId' = bySubId
        BY <3>1 DEF IndexNext, AllocPop, AllocWrite, AllocPush, Register, IndexStep, FreeClear,
                    FreeRelease, Unfilter, UnindexStep, regVars
      <4> QED
        BY <1>2, <1>3, <4>1
    <3>2. CASE Subscribe(c) \/ RemoveConnection(c) \/ Return(c)
      <4>1. bySubId' = bySubId /\ pc[c] # "index"
        BY <3>2 DEF Subscribe, RemoveConnection, Return, regVars
      <4> QED
        BY <1>2, <1>3, <3>0, <4>1
    <3>3. CASE Link(c)
      <4>1. /\ pc[c] = "index" /\ bySubId' = [bySubId EXCEPT ![KeyOf(cur[c])] = cur[c]] /\ cur' = cur
        BY <3>3 DEF Link
      <4>2. Mine(c, cur[c]) /\ bySubId[KeyOf(cur[c])] = NoSub /\ cur[c] # NoSub
        BY <1>5, <4>1, IndexAssumption DEF Busy, Adding, Mine, IndexAssumption
      <4>3. bySubId'[k] = IF k = KeyOf(cur[c]) THEN cur[c] ELSE bySubId[k]
        BY <1>0, <1>1, <4>1
      <4> QED
        BY <1>2, <1>3, <4>1, <4>2, <4>3
    <3>4. ASSUME NEW e, Detach(c, e), pc[c] # "index" PROVE SubOf(k)' = SubOf(k)
      <4>1. /\ bySubId' = [bySubId EXCEPT ![KeyOf(e)] = NoSub]
            /\ slotBySub' = [slotBySub EXCEPT ![KeyOf(e)] = 0]
        BY <3>4 DEF Detach
      <4>2. k # KeyOf(e)
        BY <1>0, <1>1, <1>k, <4>1
      <4>3. bySubId'[k] = bySubId[k]
        BY <1>0, <4>1, <4>2
      <4> QED
        BY <1>2, <1>3, <3>0, <3>4, <4>3
    <3>5. CASE Unsubscribe(c)
      BY <3>4, <3>5 DEF Unsubscribe
    <3>6. CASE RemoveEntry(c)
      BY <3>4, <3>6 DEF RemoveEntry
    <3> QED
      BY <2>2, <3>1, <3>2, <3>3, <3>5, <3>6 DEF ConnStep
  <2> QED
    BY <2>1, <2>2
<1> QED
  BY <1>6, <1>8, <1>9

\* A slot that is not empty is registered for what it holds, or its task is
\* about to register or to clear it.
SlabOwned ==
    \A i \in Ids : slots[i] # NoSub =>
        \/ slotBySub[KeyOf(slots[i])] = i
        \/ pc[slots[i].conn] \in {"register", "clear"} /\ slot[slots[i].conn] = i

\* Every step of a task keeps that, too.
LEMMA SlabOwnedStep ==
  ASSUME TypeInv, SlotInv, \A c \in Conns : Own(c), SlabOwned, NEW d \in Conns, ConnStep(d)
  PROVE  SlabOwned'
<1> USE DEF TypeInv, TypeOK
<1>0. /\ slotBySub \in [SubKey -> Nat] /\ slots \in Seq(Sub \cup {NoSub}) /\ Len(slots) \in Nat
  BY IdsType DEF MapTypes, SlabTypes
<1>1. SlotStep(d)
  BY StepKinds
<1>s. slot \in [Conns -> Nat] /\ pc \in [Conns -> PCs]
  BY DEF LocalTypes
<1>2. \A c \in Conns : c # d => pc'[c] = pc[c] /\ slot'[c] = slot[c]
  BY <1>1 DEF SlotStep, Others
<1>3. \A i \in Ids : slots[i] # NoSub => /\ slots[i] \in Sub /\ slots[i].conn \in Conns
                                         /\ KeyOf(slots[i]) \in SubKey
  BY <1>0, KeyType DEF Ids, Sub
<1>o. \A i \in Ids : slots[i] # NoSub =>
        \/ slotBySub[KeyOf(slots[i])] = i
        \/ pc[slots[i].conn] \in {"register", "clear"} /\ slot[slots[i].conn] = i
  BY DEF SlabOwned
<1>4. CASE Quiet(d) \/ Pop(d) \/ Release(d)
  <2>1. slots' = slots /\ slotBySub' = slotBySub /\ pc[d] \notin {"register", "clear"}
    BY <1>4 DEF Quiet, Pop, Release, Holding
  <2> QED
    BY <1>2, <1>3, <1>o, <2>1 DEF SlabOwned, Ids, KeyOf
<1>5. CASE Write(d)
  <2>1. /\ pc[d] = "write" /\ pc'[d] = "register" /\ slot'[d] = slot[d] /\ slotBySub' = slotBySub
        /\ slots' = [slots EXCEPT ![slot[d]] = cur[d]]
    BY <1>5 DEF Write
  <2>2. Mine(d, cur[d])
    BY <2>1 DEF Own, EntriesOf, Busy
  <2>3. Len(slots') = Len(slots) /\ slot[d] \in Ids
    BY <1>0, <2>1, <2>2, SeqUpdate DEF SlotInv, SlotBounds, UsesSlot, Mine
  <2>4. \A i \in Ids : slots'[i] = IF i = slot[d] THEN cur[d] ELSE slots[i]
    BY <1>0, <2>1 DEF Ids
  <2> QED
    BY <1>2, <1>3, <1>o, <2>1, <2>2, <2>3, <2>4 DEF SlabOwned, Ids, KeyOf, Mine
<1>6. CASE Push(d)
  <2>1. /\ pc[d] = "push" /\ pc'[d] = "register" /\ slot'[d] = Len(slots) + 1 /\ slotBySub' = slotBySub
        /\ slots' = Append(slots, cur[d])
    BY <1>6 DEF Push
  <2>2. Mine(d, cur[d]) /\ cur[d] \in Sub \cup {NoSub}
    BY <2>1 DEF Own, EntriesOf, Busy, Mine
  <2>3. /\ Len(slots') = Len(slots) + 1 /\ slots'[Len(slots) + 1] = cur[d]
        /\ \A i \in 1..Len(slots) : slots'[i] = slots[i]
    BY <1>0, <2>1, <2>2, AppendParts
  <2>4. SUFFICES ASSUME NEW i \in 1..Len(slots'), slots'[i] # NoSub
                 PROVE  \/ slotBySub'[KeyOf(slots'[i])] = i
                        \/ pc'[slots'[i].conn] \in {"register", "clear"} /\ slot'[slots'[i].conn] = i
    BY DEF SlabOwned, Ids, KeyOf
  <2>5. CASE i = Len(slots) + 1
    BY <2>1, <2>2, <2>3, <2>5 DEF Mine
  <2>6. CASE i # Len(slots) + 1
    <3>1. i \in Ids /\ slots'[i] = slots[i]
      BY <1>0, <2>3, <2>6 DEF Ids
    <3> QED
      BY <1>2, <1>3, <1>o, <2>1, <2>4, <3>1
  <2> QED
    BY <2>5, <2>6
<1>7. CASE Enter(d)
  <2>1. /\ pc[d] = "register" /\ slots' = slots
        /\ slotBySub' = [slotBySub EXCEPT ![KeyOf(cur[d])] = slot[d]]
    BY <1>7 DEF Enter
  <2>2. Mine(d, cur[d]) /\ bySubId[KeyOf(cur[d])] = NoSub /\ slots[slot[d]] = cur[d]
    BY <2>1 DEF Own, EntriesOf, Busy, Adding, SlotInv, SlotContents
  <2>3. KeyOf(cur[d]) \in SubKey /\ slotBySub[KeyOf(cur[d])] = 0
    <3>1. KeyOf(cur[d]) = <<d, cur[d].id>> /\ cur[d].id \in SubIds
      BY <2>2, MineKey
    <3> QED
      BY <2>1, <2>2, <3>1 DEF Own, SlotsOf, SubKey
  <2>4. \A k \in SubKey : slotBySub'[k] = IF k = KeyOf(cur[d]) THEN slot[d] ELSE slotBySub[k]
    BY <1>0, <2>1
  <2>5. SUFFICES ASSUME NEW i \in Ids, slots[i] # NoSub
                 PROVE  \/ slotBySub'[KeyOf(slots[i])] = i
                        \/ pc'[slots[i].conn] \in {"register", "clear"} /\ slot'[slots[i].conn] = i
    BY <2>1 DEF SlabOwned, Ids, KeyOf
  <2>6. CASE slotBySub[KeyOf(slots[i])] = i
    <3>1. i # 0
      BY <2>5, IdsType
    <3> QED
      BY <1>3, <2>3, <2>4, <2>5, <2>6, <3>1
  <2>7. CASE pc[slots[i].conn] \in {"register", "clear"} /\ slot[slots[i].conn] = i
    <3>1. CASE slots[i].conn # d
      BY <1>2, <1>3, <2>5, <2>7, <3>1
    <3>2. CASE slots[i].conn = d
      BY <2>2, <2>3, <2>4, <2>7, <3>2
    <3> QED
      BY <3>1, <3>2
  <2> QED
    BY <1>o, <2>5, <2>6, <2>7
<1>8. CASE Leave(d)
  <2>1. PICK k \in SubKey : /\ slotBySub[k] # 0 /\ slot'[d] = slotBySub[k]
                            /\ slotBySub' = [slotBySub EXCEPT ![k] = 0]
    BY <1>8 DEF Leave
  <2>2. slots' = slots /\ pc'[d] = "clear" /\ pc[d] \notin {"register", "clear"}
    BY <1>8 DEF Leave, Holding
  <2>3. k[1] = d
    <3>1. ASSUME k[1] # d PROVE FALSE
      <4>1. k[1] \in Conns /\ k[2] \in SubIds /\ k = <<k[1], k[2]>>
        BY DEF SubKey
      <4>2. SameOwn(k[1])
        BY <3>1, <4>1, OtherOwn DEF Own
      <4>3. slotBySub'[k] = slotBySub[k]
        BY <4>1, <4>2 DEF SameOwn
      <4> QED
        BY <1>0, <2>1, <4>3
    <3> QED
      BY <3>1
  <2>4. \A l \in SubKey : slotBySub'[l] = IF l = k THEN 0 ELSE slotBySub[l]
    BY <1>0, <2>1
  <2>5. SUFFICES ASSUME NEW i \in Ids, slots[i] # NoSub
                 PROVE  \/ slotBySub'[KeyOf(slots[i])] = i
                        \/ pc'[slots[i].conn] \in {"register", "clear"} /\ slot'[slots[i].conn] = i
    BY <2>2 DEF SlabOwned, Ids, KeyOf
  <2>6. CASE slotBySub[KeyOf(slots[i])] = i
    <3>1. CASE KeyOf(slots[i]) = k
      <4>1. slots[i].conn = d
        BY <2>3, <3>1 DEF KeyOf
      <4> QED
        BY <2>1, <2>2, <2>6, <3>1, <4>1
    <3>2. CASE KeyOf(slots[i]) # k
      BY <1>3, <2>4, <2>5, <2>6, <3>2
    <3> QED
      BY <3>1, <3>2
  <2>7. CASE pc[slots[i].conn] \in {"register", "clear"} /\ slot[slots[i].conn] = i
    BY <1>2, <1>3, <2>2, <2>5, <2>7
  <2> QED
    BY <1>o, <2>5, <2>6, <2>7
<1>9. CASE Clear(d)
  <2>1. /\ pc[d] = "clear" /\ slotBySub' = slotBySub
        /\ slots' = [slots EXCEPT ![slot[d]] = NoSub]
    BY <1>9 DEF Clear
  <2>3. Len(slots') = Len(slots)
    BY <1>0, <2>1, SeqUpdate
  <2>4. \A i \in Ids : slots'[i] = IF i = slot[d] THEN NoSub ELSE slots[i]
    BY <1>0, <2>1 DEF Ids
  <2> QED
    BY <1>2, <1>3, <1>o, <2>1, <2>3, <2>4 DEF SlabOwned, Ids, KeyOf
<1> QED
  BY <1>1, <1>4, <1>5, <1>6, <1>7, <1>8, <1>9 DEF SlotStep

\* With them, a removed connection has left nothing.
LEMMA RemovedHasNothing ==
  ASSUME TypeInv, \A c \in Conns : Own(c), SlabOwned
  PROVE  RemovedLeavesNothing
<1> SUFFICES ASSUME NEW c \in Conns, c \notin alive, pc[c] = "idle"
             PROVE  /\ \A i \in Ids : slots[i] = NoSub \/ slots[i].conn # c
                    /\ \A id \in SubIds : bySubId[<<c, id>>] = NoSub /\ slotBySub[<<c, id>>] = 0
                    /\ \A t \in byTopic : t[2] # c
  BY DEF RemovedLeavesNothing
<1>1. byConnection[c] = <<>> /\ todo[c] = <<>>
  BY DEF Own, EntriesOf
<1>2. \A id \in SubIds : bySubId[<<c, id>>] = NoSub
  BY <1>1 DEF Own, EntriesOf, Listed
<1>3. \A id \in SubIds : slotBySub[<<c, id>>] = 0
  BY <1>2 DEF Own, SlotsOf
<1>4. \A t \in byTopic : t[2] # c
  <2> SUFFICES ASSUME NEW t \in byTopic, t[2] = c PROVE FALSE
    OBVIOUS
  <2>1. t \in Patterns \X Conns \X SubIds
    BY DEF TypeInv, TypeOK, RegTypes
  <2>2. t = <<t[1], c, t[3]>> /\ t[1] \in Patterns /\ t[3] \in SubIds
    BY <2>1
  <2> QED
    BY <1>1, <2>2 DEF Own, TopicsOf, Named
<1>5. \A i \in Ids : slots[i] = NoSub \/ slots[i].conn # c
  <2> SUFFICES ASSUME NEW i \in Ids, slots[i] # NoSub, slots[i].conn = c PROVE FALSE
    OBVIOUS
  <2>1. slots[i] \in Sub
    BY DEF TypeInv, TypeOK, SlabTypes, Ids
  <2>2. KeyOf(slots[i]) = <<c, slots[i].id>> /\ slots[i].id \in SubIds /\ i # 0
    BY <2>1, IdsType DEF Sub, KeyOf
  <2> QED
    BY <1>3, <2>2 DEF SlabOwned
<1> QED
  BY <1>2, <1>3, <1>4, <1>5

\* Changing one sequence changes the number of positions by the difference of
\* the lengths.
LEMMA PositionsOf ==
  ASSUME NEW S, IsFiniteSet(S), NEW T, NEW f \in [S -> Seq(T)], NEW x \in S
  PROVE  LET R == UNION {{y} \X DOMAIN f[y] : y \in S \ {x}}
         IN  /\ IsFiniteSet(Positions(f, S)) /\ IsFiniteSet(R)
             /\ Cardinality(Positions(f, S)) = Cardinality(R) + Len(f[x])
<1> DEFINE R == UNION {{y} \X DOMAIN f[y] : y \in S \ {x}}
           X == {x} \X DOMAIN f[x]
<1>1. Positions(f, S) = R \cup X
  BY DEF Positions
<1>2. R \cap X = {}
  OBVIOUS
<1>3. ASSUME NEW y \in S PROVE IsFiniteSet({y} \X DOMAIN f[y]) /\ Cardinality({y} \X DOMAIN f[y]) = Len(f[y])
  <2>1. f[y] \in Seq(T) /\ Len(f[y]) \in Nat /\ DOMAIN f[y] = 1..Len(f[y])
    OBVIOUS
  <2> DEFINE n == Len(f[y])
  <2>2. n \in Nat /\ DOMAIN f[y] = 1..n
    BY <2>1
  <2> HIDE DEF n
  <2>3. IsFiniteSet(1..n) /\ Cardinality(1..n) = n
    BY <2>2, FS_Interval
  <2>4. IsFiniteSet({y}) /\ Cardinality({y}) = 1
    BY FS_Singleton
  <2>5. /\ IsFiniteSet({y} \X (1..n))
        /\ Cardinality({y} \X (1..n)) = Cardinality({y}) * Cardinality(1..n)
    BY <2>3, <2>4, FS_Product, Zenon
  <2>6. Cardinality({y}) * Cardinality(1..n) = n
    BY <2>2, <2>3, <2>4
  <2>7. IsFiniteSet({y} \X (DOMAIN f[y])) /\ Cardinality({y} \X (DOMAIN f[y])) = n
    BY <2>2, <2>5, <2>6, Zenon
  <2> QED
    BY <2>7 DEF n
<1>4. IsFiniteSet(R)
  <2> DEFINE F(y) == {y} \X DOMAIN f[y]
             Q == {F(y) : y \in S \ {x}}
  <2>1. IsFiniteSet(S \ {x})
    BY FS_RemoveElement
  <2>2. IsFiniteSet(Q)
    <3> DEFINE h == [y \in S \ {x} |-> F(y)]
    <3>1. h \in Surjection(S \ {x}, Q)
      BY DEF Surjection
    <3> HIDE DEF h, Q
    <3> QED
      BY <2>1, <3>1, FS_Surjection
  <2>3. \A q \in Q : IsFiniteSet(q)
    BY <1>3
  <2> HIDE DEF Q
  <2>4. IsFiniteSet(UNION Q)
    BY <2>2, <2>3, FS_UNION
  <2> QED
    BY <2>4 DEF Q
<1>5. IsFiniteSet(X) /\ Cardinality(X) = Len(f[x])
  BY <1>3
<1> HIDE DEF R, X
<1>6. IsFiniteSet(R \cup X) /\ Cardinality(R \cup X) = Cardinality(R) + Cardinality(X)
  <2>1. Cardinality({}) = 0 /\ Cardinality(R) \in Nat /\ Cardinality(X) \in Nat
    BY <1>4, <1>5, FS_EmptySet, FS_CardinalityType
  <2>2. /\ IsFiniteSet(R \cup X)
        /\ Cardinality(R \cup X) = Cardinality(R) + Cardinality(X) - Cardinality(R \cap X)
    BY <1>4, <1>5, FS_Union, Zenon
  <2>3. Cardinality(R \cap X) = 0
    BY <1>2, <2>1
  <2> QED
    BY <2>1, <2>2, <2>3
<1> QED
  BY <1>1, <1>4, <1>5, <1>6 DEF R

\* The number of positions of functions that differ at x only.
LEMMA PositionsUpdate ==
  ASSUME NEW S, IsFiniteSet(S), NEW T, NEW f \in [S -> Seq(T)], NEW g \in [S -> Seq(T)], NEW x \in S,
         \A y \in S \ {x} : g[y] = f[y]
  PROVE  /\ Cardinality(Positions(f, S)) \in Nat
         /\ Cardinality(Positions(g, S)) = Cardinality(Positions(f, S)) - Len(f[x]) + Len(g[x])
<1> DEFINE R == UNION {{y} \X DOMAIN f[y] : y \in S \ {x}}
           Rg == UNION {{y} \X DOMAIN g[y] : y \in S \ {x}}
<1>1. Rg = R
  OBVIOUS
<1>2. /\ IsFiniteSet(Positions(f, S)) /\ IsFiniteSet(R)
      /\ Cardinality(Positions(f, S)) = Cardinality(R) + Len(f[x])
  BY PositionsOf
<1>3. /\ IsFiniteSet(Positions(g, S)) /\ IsFiniteSet(Rg)
      /\ Cardinality(Positions(g, S)) = Cardinality(Rg) + Len(g[x])
  BY PositionsOf
<1>4. Len(f[x]) \in Nat /\ Len(g[x]) \in Nat
  OBVIOUS
<1> HIDE DEF R, Rg
<1>5. Cardinality(R) \in Nat /\ Cardinality(Positions(f, S)) \in Nat
  BY <1>2, FS_CardinalityType
<1> QED
  BY <1>1, <1>2, <1>3, <1>4, <1>5

\* The counter moves with the keys.
LEMMA KeyCountStep ==
  ASSUME TypeInv, KeyCountExact, NEW c \in Conns, Own(c), ConnStep(c)
  PROVE  KeyCountExact'
<1> USE DEF TypeInv, TypeOK
<1>0. /\ tracked \in [Conns -> Seq(CompositeKeys)] /\ tracked[c] \in Seq(CompositeKeys)
      /\ subKeys \in [SubKey -> Seq(CompositeKeys)] /\ keyCount \in Int
  BY DEF WorkTypes, MapTypes
<1>1. IsFiniteSet(Conns) /\ IsFiniteSet(SubKey)
  BY ClientsAssumption, FS_Product DEF ClientsAssumption, SubKey
<1> DEFINE TT(t) == Cardinality(Positions(t, Conns))
           SS(s) == Cardinality(Positions(s, SubKey))
<1>2. ASSUME NEW q \in Seq(CompositeKeys), tracked' = [tracked EXCEPT ![c] = q]
      PROVE  TT(tracked') = TT(tracked) - Len(tracked[c]) + Len(q)
  <2>1. /\ tracked' \in [Conns -> Seq(CompositeKeys)] /\ tracked'[c] = q
        /\ \A d \in Conns \ {c} : tracked'[d] = tracked[d]
    BY <1>0, <1>2
  <2>2. TT(tracked') = TT(tracked) - Len(tracked[c]) + Len(tracked'[c])
    <3>1. ASSUME NEW f \in [Conns -> Seq(CompositeKeys)], NEW g \in [Conns -> Seq(CompositeKeys)],
                 \A d \in Conns \ {c} : g[d] = f[d]
          PROVE  TT(g) = TT(f) - Len(f[c]) + Len(g[c])
      BY <1>1, <3>1, PositionsUpdate
    <3> HIDE DEF TT
    <3> QED
      BY <1>0, <2>1, <3>1
  <2> QED
    BY <2>1, <2>2, Zenon
<1>3. ASSUME NEW k \in SubKey, NEW q \in Seq(CompositeKeys), subKeys' = [subKeys EXCEPT ![k] = q]
      PROVE  SS(subKeys') = SS(subKeys) - Len(subKeys[k]) + Len(q)
  <2>1. /\ subKeys' \in [SubKey -> Seq(CompositeKeys)] /\ subKeys'[k] = q
        /\ \A l \in SubKey \ {k} : subKeys'[l] = subKeys[l]
    BY <1>0, <1>3
  <2>2. SS(subKeys') = SS(subKeys) - Len(subKeys[k]) + Len(subKeys'[k])
    <3>1. ASSUME NEW f \in [SubKey -> Seq(CompositeKeys)], NEW g \in [SubKey -> Seq(CompositeKeys)],
                 \A l \in SubKey \ {k} : g[l] = f[l]
          PROVE  SS(g) = SS(f) - Len(f[k]) + Len(g[k])
      BY <1>1, <3>1, PositionsUpdate
    <3> HIDE DEF SS
    <3> QED
      BY <1>0, <2>1, <3>1
  <2> QED
    BY <2>1, <2>2, Zenon
<1>4. \A k \in SubKey : SS(subKeys) \in Nat
  BY <1>0, <1>1, PositionsUpdate
<1>5. TT(tracked) \in Nat
  BY <1>0, <1>1, PositionsUpdate
<1>6. keyCount = SS(subKeys) + TT(tracked)
  BY DEF KeyCountExact
<1>7. SUFFICES keyCount' = SS(subKeys') + TT(tracked')
  BY DEF KeyCountExact, Positions
<1>e. <<>> \in Seq(CompositeKeys) /\ Len(<<>>) = 0 /\ \A k \in SubKey : subKeys[k] \in Seq(CompositeKeys)
  BY <1>0
<1>k. Busy(c) => KeyOf(cur[c]) = <<c, cur[c].id>> /\ cur[c].id \in SubIds /\ KeyOf(cur[c]) \in SubKey
  BY MineKey DEF Own, EntriesOf, SubKey
<1> HIDE DEF TT, SS
<1>8. CASE UNCHANGED <<keyCount, subKeys, tracked>>
  BY <1>6, <1>8
<1>9. CASE Register(c)
  <2>1. tracked[c] = <<>> /\ tracked' = [tracked EXCEPT ![c] = <<>>] /\ UNCHANGED <<keyCount, subKeys>>
    BY <1>9 DEF Register, Own, KeysOf
  <2>2. tracked' = tracked
    BY <1>0, <2>1
  <2> QED
    BY <1>6, <2>1, <2>2
<1>10. CASE IndexStep(c)
  <2>1. CASE /\ Head(work[c])[2].step = "key" /\ keyCount' = keyCount + 1
             /\ tracked' = [tracked EXCEPT ![c] = Append(@, Head(work[c]))]
    <3>1. pc[c] = "index" /\ work[c] # <<>> /\ work[c] \in Seq(Patterns \X Steps) /\ subKeys' = subKeys
      BY <1>10 DEF IndexStep, WorkTypes
    <3>2. Head(work[c]) \in CompositeKeys
      <4>1. 1 \in DOMAIN work[c] /\ Head(work[c]) = work[c][1]
        BY <3>1, SeqParts
      <4> QED
        BY <2>1, <3>1, <4>1 DEF WorkOK
    <3> DEFINE q == Append(tracked[c], Head(work[c]))
    <3>3. q \in Seq(CompositeKeys) /\ Len(q) = Len(tracked[c]) + 1 /\ Len(tracked[c]) \in Nat
      BY <1>0, <3>2, AppendParts
    <3>4. tracked' = [tracked EXCEPT ![c] = q]
      BY <2>1
    <3> HIDE DEF q
    <3>5. TT(tracked') = TT(tracked) - Len(tracked[c]) + Len(q)
      BY <1>2, <3>3, <3>4
    <3>6. SS(subKeys') = SS(subKeys) /\ SS(subKeys) \in Nat
      BY <1>4, <1>k, <3>1 DEF Busy
    <3> QED
      BY <1>0, <1>5, <1>6, <2>1, <3>3, <3>5, <3>6
  <2>2. CASE UNCHANGED <<keyCount, tracked>>
    BY <1>6, <1>10, <2>2 DEF IndexStep
  <2> QED
    BY <1>10, <2>1, <2>2 DEF IndexStep
<1>11. CASE Link(c)
  <2>1. /\ pc[c] = "index" /\ keyCount' = keyCount /\ tracked' = [tracked EXCEPT ![c] = <<>>]
        /\ subKeys' = [subKeys EXCEPT ![KeyOf(cur[c])] = tracked[c]]
    BY <1>11 DEF Link
  <2>2. KeyOf(cur[c]) \in SubKey /\ subKeys[KeyOf(cur[c])] = <<>>
    BY <1>k, <2>1 DEF Own, KeysOf, EntriesOf, Adding, Keyed, Busy
  <2>3. TT(tracked') = TT(tracked) - Len(tracked[c]) + 0
    BY <1>2, <1>e, <2>1
  <2>4. SS(subKeys') = SS(subKeys) - 0 + Len(tracked[c]) /\ SS(subKeys) \in Nat
    BY <1>0, <1>3, <1>4, <1>e, <2>1, <2>2
  <2>5. Len(tracked[c]) \in Nat
    BY <1>0
  <2> QED
    BY <1>5, <1>6, <2>1, <2>3, <2>4, <2>5
<1>12. CASE Unfilter(c)
  <2> DEFINE q == subKeys[KeyOf(cur[c])]
  <2>1. /\ pc[c] = "unfilter" /\ keyCount' = keyCount /\ tracked' = [tracked EXCEPT ![c] = q]
        /\ subKeys' = [subKeys EXCEPT ![KeyOf(cur[c])] = <<>>]
    BY <1>12 DEF Unfilter
  <2>2. KeyOf(cur[c]) \in SubKey /\ tracked[c] = <<>>
    BY <1>k, <2>1 DEF Own, KeysOf, Busy
  <2>3. q \in Seq(CompositeKeys) /\ Len(q) \in Nat
    BY <1>e, <2>2
  <2>4. SS(subKeys') = SS(subKeys) - Len(q) + 0 /\ SS(subKeys) \in Nat
    BY <1>3, <1>4, <1>e, <2>1, <2>2
  <2> HIDE DEF q
  <2>5. TT(tracked') = TT(tracked) - 0 + Len(q)
    BY <1>2, <1>e, <2>1, <2>2, <2>3
  <2> QED
    BY <1>5, <1>6, <2>1, <2>3, <2>4, <2>5
<1>13. CASE UnindexStep(c)
  <2>1. CASE keyCount' = keyCount - Len(tracked[c]) /\ tracked' = [tracked EXCEPT ![c] = <<>>]
    <3>1. TT(tracked') = TT(tracked) - Len(tracked[c]) + 0
      BY <1>2, <1>e, <2>1
    <3>0. Len(tracked[c]) \in Nat
      BY <1>0
    <3>2. SS(subKeys') = SS(subKeys) /\ SS(subKeys) \in Nat
      BY <1>4, <1>k, <1>13 DEF UnindexStep, Busy
    <3> QED
      BY <1>5, <1>6, <2>1, <3>0, <3>1, <3>2
  <2>2. CASE UNCHANGED <<keyCount, tracked>>
    BY <1>6, <1>13, <2>2 DEF UnindexStep
  <2> QED
    BY <1>13, <2>1, <2>2 DEF UnindexStep
<1>14. CASE \/ Subscribe(c) \/ Unsubscribe(c) \/ RemoveConnection(c) \/ RemoveEntry(c) \/ Return(c)
            \/ AllocPop(c) \/ AllocWrite(c) \/ AllocPush(c) \/ FreeClear(c) \/ FreeRelease(c)
  BY <1>8, <1>14 DEF Subscribe, Unsubscribe, RemoveConnection, RemoveEntry, Return, AllocPop,
                     AllocWrite, AllocPush, FreeClear, FreeRelease, Detach, indexVars
<1> QED
  BY <1>9, <1>10, <1>11, <1>12, <1>13, <1>14 DEF ConnStep, IndexNext

\* The functional invariant of the registry with fresh ids.
OwnInv == (\A c \in Conns : Own(c)) /\ SlabHolds /\ SlabOwned /\ KeyCountExact

\* It is inductive.
LEMMA NextOwnInv ==
  ASSUME FreshIds, TypeInv, SlotInv, OwnInv, [Next]_vars
  PROVE  OwnInv'
<1>1. \A c \in Conns : Own(c)'
  BY NextOwn DEF OwnInv
<1>2. ASSUME UNCHANGED <<indexVars, localVars, regVars>> PROVE (SlabHolds /\ SlabOwned /\ KeyCountExact)'
  BY <1>2 DEF OwnInv, SlabHolds, SubOf, SlabOwned, KeyCountExact, Positions, Ids, KeyOf, indexVars, localVars, regVars
<1>3. ASSUME NEW d \in Conns, ConnStep(d) PROVE (SlabHolds /\ SlabOwned /\ KeyCountExact)'
  BY <1>3, SlabHoldsStep, SlabOwnedStep, KeyCountStep DEF OwnInv
<1>4. (SlabHolds /\ SlabOwned /\ KeyCountExact)'
  BY <1>2, <1>3 DEF Next, Evaluate, Dispatch, vars
<1> QED
  BY <1>1, <1>4 DEF OwnInv

\* It holds initially.
LEMMA InitOwnInv == Init => OwnInv
<1> SUFFICES ASSUME Init PROVE OwnInv
  OBVIOUS
<1>1. \A c \in Conns : Own(c)
  BY InitOwn
<1>2. SlabHolds
  BY DEF SlabHolds, Init, IndexInit
<1>3. SlabOwned
  BY DEF SlabOwned, Init, IndexInit, Ids
<1>4. KeyCountExact
  <2>1. Positions(subKeys, SubKey) = {} /\ Positions(tracked, Conns) = {}
    BY DEF Positions, Init, IndexInit
  <2>2. keyCount = 0 /\ Cardinality({}) = 0
    BY FS_EmptySet DEF Init, IndexInit
  <2> QED
    BY <2>1, <2>2 DEF KeyCountExact
<1> QED
  BY <1>1, <1>2, <1>3, <1>4 DEF OwnInv

\* NothingLeaks, conditionally: when clients do not reuse a live subscription id
\* (nothing in add_subscription stops them, README, deviations), a connection
\* that remove_connection has finished with is named by no slot, no slot_by_sub,
\* by_sub_id or by_topic entry, and the composite key counter that check_limits
\* reads counts exactly the tracked keys, in every interleaving of the tasks.
LEMMA RemovalReturnsEverything == FreshIds => (Spec => []NothingLeaks)
<1> SUFFICES ASSUME FreshIds PROVE Spec => []NothingLeaks
  OBVIOUS
<1>1. Init => OwnInv
  BY InitOwnInv
<1>2. TypeInv /\ SlotInv /\ OwnInv /\ [Next]_vars => OwnInv'
  BY NextOwnInv
<1>3. TypeInv /\ OwnInv => NothingLeaks
  BY RemovedHasNothing DEF OwnInv, NothingLeaks
<1> QED
  BY <1>1, <1>2, <1>3, SlotInvariant, PTL DEF Spec

\* The bits for pattern p of slot n survive the step.
Grows(p, n) ==
    /\ patterns \subseteq patterns' /\ fields[p] \subseteq fields'[p]
    /\ n \in unfiltered[p] => n \in unfiltered'[p]
    /\ \A k \in CompositeKeys : k[1] = p /\ n \in index[k] => n \in index'[k]

\* A task clears only the bits of the slot it removes, for the pattern of the
\* subscription it removes.
LEMMA BitsGrow ==
  ASSUME TypeInv, NEW d \in Conns, Own(d), ConnStep(d), NEW p \in Patterns, NEW n,
         ~(Removing(d) /\ p = cur[d].pat /\ n = slot[d])
  PROVE  Grows(p, n)
<1> USE DEF TypeInv, TypeOK
<1>0. /\ index \in [CompositeKeys -> SUBSET Nat] /\ unfiltered \in [Patterns -> SUBSET Nat]
      /\ fields \in [Patterns -> SUBSET (Fields \cup {""})]
      /\ work \in [Conns -> Seq(Patterns \X Steps)] /\ work[d] \in Seq(Patterns \X Steps)
  BY DEF MapTypes, WorkTypes
<1>1. CASE UNCHANGED <<index, unfiltered, patterns, fields>>
  BY <1>1 DEF Grows
<1>2. CASE Register(d)
  BY <1>2 DEF Register, Grows
<1>3. CASE IndexStep(d)
  <2>1. CASE index' = [index EXCEPT ![Head(work[d])] = @ \cup {slot[d]}] /\ UNCHANGED <<unfiltered, fields>>
    BY <1>0, <1>3, <2>1 DEF IndexStep, Grows
  <2>2. CASE \E x : fields' = [fields EXCEPT ![cur[d].pat] = @ \cup {x}] /\ UNCHANGED <<index, unfiltered>>
    BY <1>0, <1>3, <2>2 DEF IndexStep, Grows
  <2>3. CASE unfiltered' = [unfiltered EXCEPT ![cur[d].pat] = @ \cup {slot[d]}] /\ UNCHANGED <<index, fields>>
    BY <1>0, <1>3, <2>3 DEF IndexStep, Grows
  <2> QED
    BY <1>3, <2>1, <2>2, <2>3 DEF IndexStep
<1>4. CASE Unfilter(d)
  <2>1. Removing(d)
    BY <1>4 DEF Unfilter, Removing
  <2> QED
    BY <1>0, <1>4, <2>1 DEF Unfilter, Grows
<1>5. CASE UnindexStep(d)
  <2>1. Removing(d) /\ UNCHANGED <<unfiltered, patterns, fields>>
    BY <1>5 DEF UnindexStep, Removing
  <2>2. CASE work[d] = <<>>
    BY <1>1, <1>5, <2>1, <2>2 DEF UnindexStep
  <2>3. CASE work[d] # <<>>
    <3>1. index' = [index EXCEPT ![Head(work[d])] = @ \ {slot[d]}] /\ pc[d] = "unindex"
      BY <1>5, <2>3 DEF UnindexStep
    <3>0. work[d] \in Seq(Patterns \X Steps)
      BY <1>0
    <3>2. 1 \in DOMAIN work[d] /\ Head(work[d]) = work[d][1]
      BY <2>3, <3>0, SeqParts
    <3>3. Head(work[d])[1] = cur[d].pat
      BY <3>1, <3>2 DEF Own, KeysOf, KeysFor, StepsFor
    <3>4. ASSUME NEW k \in CompositeKeys, k[1] = p, n \in index[k] PROVE n \in index'[k]
      BY <1>0, <2>1, <3>1, <3>3, <3>4
    <3> QED
      BY <2>1, <3>4 DEF Grows
  <2> QED
    BY <2>2, <2>3
<1>6. CASE \/ Subscribe(d) \/ Link(d) \/ Unsubscribe(d) \/ RemoveConnection(d) \/ RemoveEntry(d)
           \/ Return(d) \/ AllocPop(d) \/ AllocWrite(d) \/ AllocPush(d) \/ FreeClear(d) \/ FreeRelease(d)
  BY <1>1, <1>6 DEF Subscribe, Link, Unsubscribe, RemoveConnection, RemoveEntry, Return, AllocPop,
                    AllocWrite, AllocPush, FreeClear, FreeRelease, Detach, indexVars
<1> QED
  BY <1>2, <1>3, <1>4, <1>5, <1>6 DEF ConnStep, IndexNext

\* A key of the plan of a subscription is a composite key.
LEMMA PlanKeys ==
  ASSUME NEW s \in Sub, NEW i \in DOMAIN Plan[s.flt]
  PROVE  Plan[s.flt][i].step = "key" => <<s.pat, Plan[s.flt][i]>> \in CompositeKeys /\ Plan[s.flt][i] \in AllKeys
  BY DEF Sub, CompositeKeys, AllKeys, IsKey

\* After the step.
MadeNext(s, n, i) == MadeIn(index', unfiltered', fields', s, n, i)

\* What has been made stays made.
LEMMA MadeKept ==
  ASSUME NEW s \in Sub, NEW n, Grows(s.pat, n), NEW i \in DOMAIN Plan[s.flt], Made(s, n, i)
  PROVE  MadeNext(s, n, i)
<1>1. Plan[s.flt][i].step = "key" => <<s.pat, Plan[s.flt][i]>> \in CompositeKeys /\ <<s.pat, Plan[s.flt][i]>>[1] = s.pat
  BY PlanKeys
<1> QED
  BY <1>1 DEF Made, MadeNext, MadeIn, Grows

\* An entry after a step was one before, or has just been linked.
LEMMA EntrySteps ==
  ASSUME TypeInv, NEW d \in Conns, Own(d), ConnStep(d), NEW c \in Conns, Own(c), NEW id \in SubIds,
         bySubId'[<<c, id>>] # NoSub
  PROVE  \/ /\ bySubId'[<<c, id>>] = bySubId[<<c, id>>] /\ slotBySub'[<<c, id>>] = slotBySub[<<c, id>>]
         \/ /\ c = d /\ Link(d) /\ bySubId'[<<c, id>>] = cur[d] /\ slotBySub'[<<c, id>>] = slot[d]
<1> USE DEF TypeInv, TypeOK
<1>0. bySubId \in [SubKey -> Sub \cup {NoSub}] /\ slotBySub \in [SubKey -> Nat] /\ <<c, id>> \in SubKey
  BY DEF RegTypes, MapTypes, SubKey
<1>1. CASE c # d
  BY <1>1, OtherOwn DEF Own, SameOwn, SameEntries
<1>2. CASE c = d
  <2>1. CASE Register(c) /\ UNCHANGED regVars
    <3>1. /\ pc[c] = "register" /\ bySubId' = bySubId
          /\ slotBySub' = [slotBySub EXCEPT ![KeyOf(cur[c])] = slot[c]]
      BY <2>1 DEF Register, regVars
    <3>2. bySubId[KeyOf(cur[c])] = NoSub
      BY <3>1 DEF Own, EntriesOf, Adding
    <3> QED
      BY <1>0, <3>1, <3>2
  <2>2. CASE Link(c)
    <3>1. /\ pc[c] = "index" /\ bySubId' = [bySubId EXCEPT ![KeyOf(cur[c])] = cur[c]]
          /\ slotBySub' = slotBySub
      BY <2>2 DEF Link
    <3>2. slotBySub[KeyOf(cur[c])] = slot[c]
      BY <3>1 DEF Own, SlotsOf
    <3>3. CASE <<c, id>> = KeyOf(cur[c])
      BY <1>0, <1>2, <2>2, <3>1, <3>2, <3>3
    <3>4. CASE <<c, id>> # KeyOf(cur[c])
      BY <1>0, <3>1, <3>4
    <3> QED
      BY <3>3, <3>4
  <2>3. ASSUME NEW e, Detach(c, e)
        PROVE  bySubId'[<<c, id>>] = bySubId[<<c, id>>] /\ slotBySub'[<<c, id>>] = slotBySub[<<c, id>>]
    <3>1. /\ bySubId' = [bySubId EXCEPT ![KeyOf(e)] = NoSub]
          /\ slotBySub' = [slotBySub EXCEPT ![KeyOf(e)] = 0]
      BY <2>3 DEF Detach
    <3> QED
      BY <1>0, <3>1
  <2>4. CASE Unsubscribe(c) \/ RemoveEntry(c)
    BY <2>3, <2>4 DEF Unsubscribe, RemoveEntry
  <2>5. CASE \/ Subscribe(c) \/ RemoveConnection(c) \/ Return(c)
             \/ /\ AllocPop(c) \/ AllocWrite(c) \/ AllocPush(c) \/ IndexStep(c) \/ FreeClear(c)
                   \/ FreeRelease(c) \/ Unfilter(c) \/ UnindexStep(c)
                /\ UNCHANGED regVars
    BY <2>5 DEF Subscribe, RemoveConnection, Return, AllocPop, AllocWrite, AllocPush, IndexStep,
                FreeClear, FreeRelease, Unfilter, UnindexStep, regVars, indexVars
  <2> QED
    BY <1>2, <2>1, <2>2, <2>4, <2>5 DEF ConnStep, IndexNext
<1> QED
  BY <1>1, <1>2

\* Where each step of a plan in progress comes from.
LEMMA PlanSteps ==
  ASSUME TypeInv, NEW c \in Conns, Own(c), BitsOf(c), IndexStep(c),
         NEW i \in DOMAIN Plan[cur[c].flt]
  PROVE  MadeNext(cur[c], slot[c], i) \/ Listed(work'[c], <<cur[c].pat, Plan[cur[c].flt][i]>>)
<1> USE DEF TypeInv, TypeOK
<1> DEFINE s == cur[c]
           p == Plan[s.flt][i]
           ck == Head(work[c])
<1>0. /\ index \in [CompositeKeys -> SUBSET Nat] /\ unfiltered \in [Patterns -> SUBSET Nat]
      /\ fields \in [Patterns -> SUBSET (Fields \cup {""})]
      /\ work \in [Conns -> Seq(Patterns \X Steps)] /\ work[c] \in Seq(Patterns \X Steps)
  BY DEF MapTypes, WorkTypes
<1>1. pc[c] = "index" /\ work[c] # <<>> /\ work'[c] = Tail(work[c])
  BY <1>0 DEF IndexStep
<1>2. Mine(c, s) /\ s \in Sub /\ s.pat \in Patterns
  BY <1>1, MineKey DEF Own, EntriesOf, Busy, Mine
<1>3. CASE Made(s, slot[c], i)
  <2>1. Grows(s.pat, slot[c])
    <3>1. CASE index' = [index EXCEPT ![ck] = @ \cup {slot[c]}] /\ UNCHANGED <<unfiltered, fields, patterns>>
      BY <1>0, <3>1 DEF Grows
    <3>2. CASE \E x : fields' = [fields EXCEPT ![s.pat] = @ \cup {x}] /\ UNCHANGED <<index, unfiltered, patterns>>
      BY <1>0, <3>2 DEF Grows
    <3>3. CASE unfiltered' = [unfiltered EXCEPT ![s.pat] = @ \cup {slot[c]}] /\ UNCHANGED <<index, fields, patterns>>
      BY <1>0, <3>3 DEF Grows
    <3> QED
      BY <3>1, <3>2, <3>3 DEF IndexStep
  <2> QED
    BY <1>2, <1>3, <2>1, MadeKept
<1>4. CASE Listed(work[c], <<s.pat, p>>)
  <2>1. PICK j \in DOMAIN work[c] : work[c][j] = <<s.pat, p>>
    BY <1>4 DEF Listed
  <2>2. CASE j = 1
    <3>0. work[c] \in Seq(Patterns \X Steps) /\ work[c] # <<>>
      BY <1>0, <1>1
    <3>a. ck = work[c][1]
      BY <3>0, SeqParts
    <3>1. ck = <<s.pat, p>> /\ ck[2] = p
      BY <2>1, <2>2, <3>a
    <3>2. p.step = "key" => ck \in CompositeKeys
      BY <1>2, <3>1, PlanKeys
    <3>3. ASSUME p.step = "key" /\ index' = [index EXCEPT ![ck] = @ \cup {slot[c]}]
          PROVE  MadeNext(s, slot[c], i)
      BY <1>0, <3>1, <3>2, <3>3 DEF MadeNext, MadeIn
    <3>4. ASSUME p.step = "field" /\ fields' = [fields EXCEPT ![s.pat] = @ \cup {p.field}]
          PROVE  MadeNext(s, slot[c], i)
      BY <1>0, <1>2, <3>4 DEF MadeNext, MadeIn
    <3>5. ASSUME p.step = "unfiltered" /\ unfiltered' = [unfiltered EXCEPT ![s.pat] = @ \cup {slot[c]}]
          PROVE  MadeNext(s, slot[c], i)
      BY <1>0, <1>2, <3>5 DEF MadeNext, MadeIn
    <3>6. \/ ck[2].step = "key" /\ index' = [index EXCEPT ![ck] = @ \cup {slot[c]}]
          \/ ck[2].step = "field" /\ fields' = [fields EXCEPT ![s.pat] = @ \cup {ck[2].field}]
          \/ ck[2].step = "unfiltered" /\ unfiltered' = [unfiltered EXCEPT ![s.pat] = @ \cup {slot[c]}]
      BY DEF IndexStep
    <3>7. MadeNext(s, slot[c], i)
      <4> HIDE DEF ck, p, s
      <4> QED
        BY <3>1, <3>3, <3>4, <3>5, <3>6
    <3> QED
      BY <3>7
  <2>3. CASE j # 1
    <3>0. work[c] \in Seq(Patterns \X Steps) /\ work[c] # <<>> /\ work'[c] = Tail(work[c])
      BY <1>0, <1>1
    <3>1. \E m \in DOMAIN Tail(work[c]) : Tail(work[c])[m] = work[c][j]
      BY <2>3, <3>0, TailRest
    <3> QED
      BY <2>1, <3>0, <3>1 DEF Listed
  <2> QED
    BY <2>2, <2>3
<1> QED
  BY <1>1, <1>3, <1>4 DEF BitsOf

\* The bits of an entry stay set, whatever another connection does: its
\* patterns are its own.
LEMMA NextBits ==
  ASSUME OwnPatterns, TypeInv, \A c \in Conns : Own(c), \A c \in Conns : Own(c)',
         \A c \in Conns : BitsOf(c), NEW d \in Conns, ConnStep(d), NEW c \in Conns
  PROVE  BitsOf(c)'
<1> USE DEF TypeInv, TypeOK
<1>0. pc \in [Conns -> PCs]
  BY DEF LocalTypes
<1>1. ASSUME NEW s, Mine(c, s), NEW n, c # d \/ ~Removing(d) \/ n # slot[d] PROVE Grows(s.pat, n)
  <2>1. s.pat \in Patterns /\ s.pat \in PatsOf(c)
    BY <1>1, MineKey DEF Mine
  <2>2. ASSUME Removing(d), c # d PROVE s.pat # cur[d].pat
    <3>1. Mine(d, cur[d])
      BY <2>2 DEF Own, EntriesOf, Removing, Busy
    <3> QED
      BY <2>1, <2>2, <3>1 DEF OwnPatterns, Mine
  <2> QED
    BY <1>1, <2>1, <2>2, BitsGrow
<1>2. ASSUME NEW id \in SubIds, bySubId'[<<c, id>>] # NoSub
      PROVE  LET s == bySubId'[<<c, id>>]
             IN  s.pat \in patterns' /\ \A i \in DOMAIN Plan[s.flt] : MadeNext(s, slotBySub'[<<c, id>>], i)
  <2> DEFINE s == bySubId'[<<c, id>>]
             n == slotBySub'[<<c, id>>]
  <2>1. Mine(c, s) /\ s \in Sub
    <3>1. Mine(c, bySubId[<<c, id>>])'
      BY <1>2 DEF Own, EntriesOf
    <3> QED
      BY <3>1 DEF Mine
  <2>2. CASE bySubId'[<<c, id>>] = bySubId[<<c, id>>] /\ slotBySub'[<<c, id>>] = slotBySub[<<c, id>>]
    <3>1. s.pat \in patterns /\ \A i \in DOMAIN Plan[s.flt] : Made(s, n, i)
      BY <1>2, <2>2 DEF BitsOf
    <3>2. c # d \/ ~Removing(d) \/ n # slot[d]
      BY <2>2 DEF Own, SlotsOf
    <3> HIDE DEF s, n
    <3>3. Grows(s.pat, n)
      BY <1>1, <2>1, <3>2
    <3>4. s.pat \in patterns'
      BY <3>1, <3>3 DEF Grows
    <3>5. \A i \in DOMAIN Plan[s.flt] : MadeNext(s, n, i)
      BY <2>1, <3>1, <3>3, MadeKept
    <3> QED
      BY <3>4, <3>5 DEF s, n
  <2>3. CASE c = d /\ Link(d) /\ s = cur[d] /\ n = slot[d]
    <3>1. pc[c] = "index" /\ work[c] = <<>> /\ UNCHANGED <<index, unfiltered, patterns, fields>>
      BY <2>3 DEF Link
    <3>2. cur[c].pat \in patterns /\ \A i \in DOMAIN Plan[cur[c].flt] : Made(cur[c], slot[c], i)
      BY <3>1 DEF BitsOf, Listed
    <3> HIDE DEF s, n
    <3>3. s.pat \in patterns' /\ \A i \in DOMAIN Plan[s.flt] : Made(s, n, i)
      BY <2>3, <3>1, <3>2
    <3>4. Grows(s.pat, n)
      BY <3>1 DEF Grows
    <3>5. \A i \in DOMAIN Plan[s.flt] : MadeNext(s, n, i)
      BY <2>1, <3>3, <3>4, MadeKept
    <3> QED
      BY <3>3, <3>5 DEF s, n
  <2> QED
    BY <1>2, <2>2, <2>3, EntrySteps
<1>3. ASSUME pc'[c] = "index"
      PROVE  /\ cur'[c].pat \in patterns'
             /\ \A i \in DOMAIN Plan[cur'[c].flt] : \/ MadeNext(cur'[c], slot'[c], i)
                                                    \/ Listed(work'[c], <<cur'[c].pat, Plan[cur'[c].flt][i]>>)
  <2>1. CASE c # d
    <3>1. UNCHANGED <<pc[c], cur[c], slot[c], work[c]>>
      BY <2>1, OtherOwn DEF Own, SameOwn
    <3>2. Mine(c, cur[c]) /\ cur[c] \in Sub
      BY <1>3, <3>1 DEF Own, EntriesOf, Busy, Mine
    <3>3. Grows(cur[c].pat, slot[c])
      BY <1>1, <2>1, <3>2
    <3>4. /\ cur[c].pat \in patterns
          /\ \A i \in DOMAIN Plan[cur[c].flt] :
                Made(cur[c], slot[c], i) \/ Listed(work[c], <<cur[c].pat, Plan[cur[c].flt][i]>>)
      BY <1>3, <3>1 DEF BitsOf
    <3> DEFINE s == cur[c]
               n == slot[c]
    <3>5. cur'[c] = s /\ slot'[c] = n /\ s \in Sub
      BY <3>1, <3>2
    <3>6. ASSUME NEW i \in DOMAIN Plan[s.flt], Made(s, n, i) PROVE MadeNext(s, n, i)
      BY <3>2, <3>3, <3>5, <3>6, MadeKept
    <3>7. cur'[c].pat \in patterns'
      BY <3>1, <3>3, <3>4 DEF Grows
    <3> QED
      BY <3>1, <3>4, <3>5, <3>6, <3>7
  <2>2. CASE c = d
    <3>1. Register(c) \/ IndexStep(c)
      BY <1>0, <1>3, <2>2
         DEF ConnStep, Subscribe, Link, Unsubscribe, Detach, RemoveConnection, RemoveEntry, Return, IndexNext,
             AllocPop, AllocWrite, AllocPush, FreeClear, FreeRelease, Unfilter, UnindexStep
    <3>2. CASE Register(c)
      <4>1. cur' = cur /\ work'[c] = PlanOf(cur[c]) /\ patterns' = patterns \cup {cur[c].pat}
        BY <3>2 DEF Register, WorkTypes
      <4>2. \A i \in DOMAIN Plan[cur[c].flt] : Listed(PlanOf(cur[c]), <<cur[c].pat, Plan[cur[c].flt][i]>>)
        BY DEF Listed, PlanOf
      <4> QED
        BY <4>1, <4>2
    <3>3. CASE IndexStep(c)
      <4>1. pc[c] = "index" /\ cur' = cur /\ slot' = slot /\ patterns' = patterns
        BY <3>3 DEF IndexStep
      <4>2. cur[c].pat \in patterns
        BY <4>1 DEF BitsOf
      <4>3. \A i \in DOMAIN Plan[cur[c].flt] :
               MadeNext(cur[c], slot[c], i) \/ Listed(work'[c], <<cur[c].pat, Plan[cur[c].flt][i]>>)
        BY <3>3, PlanSteps
      <4> QED
        BY <4>1, <4>2, <4>3
    <3> QED
      BY <3>1, <3>2, <3>3
  <2> QED
    BY <2>1, <2>2
<1>4. \A id \in SubIds : bySubId'[<<c, id>>] # NoSub =>
         /\ bySubId'[<<c, id>>].pat \in patterns'
         /\ \A i \in DOMAIN Plan[bySubId'[<<c, id>>].flt] : MadeNext(bySubId'[<<c, id>>], slotBySub'[<<c, id>>], i)
  BY <1>2
<1> QED
  BY <1>3, <1>4 DEF BitsOf, Made, MadeNext, MadeIn, Listed

\* With patterns of their own, connections keep all their bits.
BitsInv == \A c \in Conns : BitsOf(c)

\* Every step keeps them.
LEMMA NextBitsInv ==
  ASSUME FreshIds, OwnPatterns, TypeInv, SlotInv, OwnInv, BitsInv, [Next]_vars
  PROVE  BitsInv'
<1>1. \A c \in Conns : Own(c)'
  BY NextOwn DEF OwnInv
<1>2. ASSUME UNCHANGED <<indexVars, localVars, regVars>> PROVE BitsInv'
  BY <1>2 DEF BitsInv, BitsOf, Made, Listed, indexVars, localVars, regVars
<1>3. ASSUME NEW d \in Conns, ConnStep(d) PROVE BitsInv'
  <2> SUFFICES ASSUME NEW c \in Conns PROVE BitsOf(c)'
    BY DEF BitsInv
  <2> QED
    BY <1>1, <1>3, NextBits DEF OwnInv, BitsInv
<1> QED
  BY <1>2, <1>3 DEF Next, Evaluate, Dispatch, vars

\* No entries, no bits.
LEMMA InitBits == Init => BitsInv
  BY DEF Init, IndexInit, BitsInv, BitsOf, SubKey

\* All bits of a registered subscription.
LEMMA EntryIndexed ==
  ASSUME TypeInv, OwnInv, BitsInv
  PROVE  RegisteredIsIndexed
<1> SUFFICES ASSUME NEW k \in Total PROVE FullyIndexed(bySubId[k])
  BY DEF RegisteredIsIndexed
<1>1. PICK c \in Conns, id \in SubIds : k = <<c, id>>
  BY DEF Total, SubKey
<1> DEFINE s == bySubId[<<c, id>>]
<1>2. s # NoSub
  BY <1>1 DEF Total
<1>3. Mine(c, s) /\ s.id = id /\ KeyOf(s) = <<c, id>>
  <2>1. Mine(c, s) /\ s.id = id
    BY <1>2 DEF OwnInv, Own, EntriesOf
  <2> QED
    BY <2>1, MineKey
<1>4. \A i \in DOMAIN Plan[s.flt] : Made(s, slotBySub[<<c, id>>], i)
  BY <1>2 DEF BitsInv, BitsOf
<1>5. s = bySubId[k]
  BY <1>1
<1> HIDE DEF s
<1> QED
  BY <1>3, <1>4, <1>5 DEF FullyIndexed, Made, MadeIn

\* RegisteredIsIndexed, conditionally: when moreover different clients use
\* different patterns (RegistryLostSub is what happens when they share one),
\* a registered subscription whose task is idle has every bit of its plan, so
\* no remove_subscription of another connection silences it, although free_slot
\* gives slot ids back before their bits are cleared.
LEMMA RegisteredStaysIndexed == FreshIds /\ OwnPatterns => (Spec => []RegisteredIsIndexed)
<1> SUFFICES ASSUME FreshIds, OwnPatterns PROVE Spec => []RegisteredIsIndexed
  OBVIOUS
<1>1. Init => OwnInv /\ BitsInv
  BY InitOwnInv, InitBits
<1>2. TypeInv /\ SlotInv /\ OwnInv /\ BitsInv /\ [Next]_vars => OwnInv' /\ BitsInv'
  BY NextOwnInv, NextBitsInv
<1>3. TypeInv /\ OwnInv /\ BitsInv => RegisteredIsIndexed
  BY EntryIndexed
<1> QED
  BY <1>1, <1>2, <1>3, SlotInvariant, PTL DEF Spec

-----------------------------------------------------------------------------
\* The steps that set a bit.
LEMMA SetBits ==
  ASSUME TypeInv, NEW d \in Conns, Own(d), ConnStep(d)
  PROVE  /\ \A p \in Patterns : \A n \in unfiltered'[p] : n \in unfiltered[p] \/
              /\ IndexStep(d) /\ p = cur[d].pat /\ n = slot[d] /\ Unfiltered(cur[d].flt)
         /\ \A k \in CompositeKeys : \A n \in index'[k] : n \in index[k] \/
              /\ IndexStep(d) /\ n = slot[d] /\ tracked'[d] = Append(tracked[d], k)
<1> USE DEF TypeInv, TypeOK
<1>0. /\ index \in [CompositeKeys -> SUBSET Nat] /\ unfiltered \in [Patterns -> SUBSET Nat]
      /\ work[d] \in Seq(Patterns \X Steps) /\ tracked \in [Conns -> Seq(CompositeKeys)]
  BY DEF MapTypes, WorkTypes
<1>1. CASE UNCHANGED <<index, unfiltered>>
  BY <1>1
<1>2. CASE IndexStep(d)
  <2> DEFINE ck == Head(work[d])
  <2>1. pc[d] = "index" /\ work[d] # <<>>
    BY <1>2 DEF IndexStep
  <2>2. ck = work[d][1] /\ 1 \in DOMAIN work[d]
    BY <1>0, <2>1, SeqParts
  <2>3. \E j \in DOMAIN Plan[cur[d].flt] : ck = <<cur[d].pat, Plan[cur[d].flt][j]>>
    BY <2>1, <2>2 DEF Own, KeysOf, StepsFor
  <2>4. ck[2].step = "unfiltered" => Unfiltered(cur[d].flt)
    BY <2>3 DEF Unfiltered
  <2>5. \/ /\ index' = [index EXCEPT ![ck] = @ \cup {slot[d]}] /\ unfiltered' = unfiltered
           /\ tracked' = [tracked EXCEPT ![d] = Append(@, ck)]
        \/ UNCHANGED <<index, unfiltered>>
        \/ /\ ck[2].step = "unfiltered" /\ index' = index
           /\ unfiltered' = [unfiltered EXCEPT ![cur[d].pat] = @ \cup {slot[d]}]
    BY <1>2 DEF IndexStep
  <2> HIDE DEF ck
  <2> QED
    BY <1>0, <1>1, <1>2, <2>4, <2>5
<1>3. CASE Unfilter(d)
  BY <1>0, <1>3 DEF Unfilter
<1>4. CASE UnindexStep(d)
  BY <1>0, <1>4 DEF UnindexStep
<1>5. CASE \/ Subscribe(d) \/ Link(d) \/ Unsubscribe(d) \/ RemoveConnection(d) \/ RemoveEntry(d) \/ Return(d)
           \/ AllocPop(d) \/ AllocWrite(d) \/ AllocPush(d) \/ Register(d) \/ FreeClear(d) \/ FreeRelease(d)
  BY <1>1, <1>5 DEF Subscribe, Link, Unsubscribe, RemoveConnection, RemoveEntry, Return, AllocPop,
                    AllocWrite, AllocPush, Register, FreeClear, FreeRelease, Detach, indexVars
<1> QED
  BY <1>2, <1>3, <1>4, <1>5 DEF ConnStep, IndexNext

\* An entry before the step is one after it, or is being removed.
LEMMA EntryGoes ==
  ASSUME TypeInv, NEW c \in Conns, Own(c), ConnStep(c), NEW id \in SubIds, bySubId[<<c, id>>] # NoSub
  PROVE  LET k == <<c, id>>
         IN  \/ /\ bySubId'[k] = bySubId[k] /\ slotBySub'[k] = slotBySub[k] /\ subKeys'[k] = subKeys[k]
             \/ /\ pc'[c] = "clear" /\ cur'[c] = bySubId[k] /\ slot'[c] = slotBySub[k]
                /\ subKeys' = subKeys
<1> USE DEF TypeInv, TypeOK
<1> DEFINE k == <<c, id>>
<1>0. /\ bySubId \in [SubKey -> Sub \cup {NoSub}] /\ slotBySub \in [SubKey -> Nat] /\ k \in SubKey
      /\ subKeys \in [SubKey -> Seq(CompositeKeys)] /\ pc \in [Conns -> PCs]
      /\ cur \in [Conns -> Sub \cup {NoSub}] /\ slot \in [Conns -> Nat]
  BY DEF RegTypes, MapTypes, LocalTypes, SubKey
<1>1. CASE UNCHANGED <<bySubId, slotBySub, subKeys>>
  BY <1>1
<1>2. CASE pc[c] \in {"register", "index", "unfilter"}
  <2>1. bySubId[KeyOf(cur[c])] = NoSub
    BY <1>2 DEF Own, EntriesOf, SlotsOf, Adding, Removing
  <2>2. k # KeyOf(cur[c])
    BY <2>1
  <2>3. CASE Register(c) /\ UNCHANGED regVars
    BY <1>0, <2>2, <2>3 DEF Register, regVars
  <2>4. CASE Link(c)
    BY <1>0, <2>2, <2>4 DEF Link
  <2>5. CASE Unfilter(c) /\ UNCHANGED regVars
    BY <1>0, <2>2, <2>5 DEF Unfilter, regVars
  <2>6. CASE IndexStep(c) /\ UNCHANGED regVars
    BY <1>1, <2>6 DEF IndexStep, regVars
  <2> QED
    BY <1>2, <2>3, <2>4, <2>5, <2>6
       DEF ConnStep, Subscribe, Unsubscribe, RemoveConnection, RemoveEntry, Return, IndexNext, AllocPop,
           AllocWrite, AllocPush, FreeClear, FreeRelease, UnindexStep
<1>3. ASSUME NEW e, Mine(c, e), bySubId[KeyOf(e)] \in {NoSub, e}, Detach(c, e), pc[c] \in {"idle", "next"}
      PROVE  \/ /\ bySubId'[k] = bySubId[k] /\ slotBySub'[k] = slotBySub[k] /\ subKeys'[k] = subKeys[k]
             \/ /\ pc'[c] = "clear" /\ cur'[c] = bySubId[k] /\ slot'[c] = slotBySub[k]
                /\ subKeys' = subKeys
  <2>1. CASE k # KeyOf(e)
    BY <1>0, <1>3, <2>1 DEF Detach
  <2>2. CASE k = KeyOf(e)
    <3>1. bySubId[k] = e /\ slotBySub[k] # 0
      BY <1>3, <2>2 DEF Own, SlotsOf
    <3> QED
      BY <1>0, <1>3, <2>2, <3>1 DEF Detach
  <2> QED
    BY <2>1, <2>2
<1>4. CASE Unsubscribe(c)
  <2>1. PICK j \in SubIds : bySubId[<<c, j>>] # NoSub /\ Detach(c, bySubId[<<c, j>>]) /\ pc[c] = "idle"
    BY <1>4 DEF Unsubscribe
  <2>2. Mine(c, bySubId[<<c, j>>]) /\ KeyOf(bySubId[<<c, j>>]) = <<c, j>>
    BY <2>1, MineKey DEF Own, EntriesOf
  <2> QED
    BY <1>3, <2>1, <2>2
<1>5. CASE RemoveEntry(c)
  <2>1. Detach(c, Head(todo[c])) /\ pc[c] = "next" /\ todo[c] # <<>> /\ todo[c] \in Seq(Sub)
    BY <1>5 DEF RemoveEntry, RegTypes
  <2>2. 1 \in DOMAIN todo[c] /\ Head(todo[c]) = todo[c][1]
    BY <2>1, SeqParts
  <2>3. Mine(c, Head(todo[c])) /\ bySubId[KeyOf(Head(todo[c]))] \in {NoSub, Head(todo[c])}
    BY <2>2 DEF Own, EntriesOf
  <2> QED
    BY <1>3, <2>1, <2>3
<1>6. CASE \/ Subscribe(c) \/ RemoveConnection(c) \/ Return(c)
           \/ /\ AllocPop(c) \/ AllocWrite(c) \/ AllocPush(c) \/ FreeClear(c) \/ FreeRelease(c)
                 \/ UnindexStep(c)
              /\ UNCHANGED regVars
  BY <1>1, <1>6 DEF Subscribe, RemoveConnection, Return, AllocPop, AllocWrite, AllocPush, FreeClear,
                    FreeRelease, UnindexStep, indexVars, regVars
<1>7. CASE \/ Link(c)
           \/ (Register(c) \/ IndexStep(c) \/ Unfilter(c)) /\ UNCHANGED regVars
  BY <1>2, <1>7 DEF Link, Register, IndexStep, Unfilter
<1> QED
  BY <1>4, <1>5, <1>6, <1>7 DEF ConnStep, IndexNext

\* What the task of c can do next, by its pc.
LEMMA IndexingSteps ==
  ASSUME NEW c \in Conns, ConnStep(c)
  PROVE  /\ pc[c] = "index" => IndexStep(c) \/ Link(c)
         /\ Keyed(c) => FreeClear(c) \/ FreeRelease(c) \/ Unfilter(c)
         /\ pc[c] = "unindex" => UnindexStep(c)
  BY DEF ConnStep, Subscribe, Link, Unsubscribe, RemoveConnection, RemoveEntry, Return, IndexNext,
         AllocPop, AllocWrite, AllocPush, Register, IndexStep, FreeClear, FreeRelease, Unfilter,
         UnindexStep, Keyed

\* What Link makes of the subscription.
LEMMA LinkedEntry ==
  ASSUME TypeInv, NEW c \in Conns, Own(c), Link(c)
  PROVE  /\ cur[c] # NoSub /\ cur[c].id \in SubIds /\ pc[c] = "index"
         /\ bySubId'[<<c, cur[c].id>>] = cur[c] /\ slotBySub'[<<c, cur[c].id>>] = slot[c]
         /\ subKeys'[<<c, cur[c].id>>] = tracked[c]
<1> USE DEF TypeInv, TypeOK
<1>0. bySubId \in [SubKey -> Sub \cup {NoSub}] /\ subKeys \in [SubKey -> Seq(CompositeKeys)]
  BY DEF RegTypes, MapTypes
<1>1. /\ pc[c] = "index" /\ slotBySub' = slotBySub
      /\ bySubId' = [bySubId EXCEPT ![KeyOf(cur[c])] = cur[c]]
      /\ subKeys' = [subKeys EXCEPT ![KeyOf(cur[c])] = tracked[c]]
  BY DEF Link
<1>2. Mine(c, cur[c]) /\ slotBySub[KeyOf(cur[c])] = slot[c]
  BY <1>1 DEF Own, EntriesOf, SlotsOf, Busy
<1>3. KeyOf(cur[c]) = <<c, cur[c].id>> /\ cur[c].id \in SubIds /\ cur[c] # NoSub /\ KeyOf(cur[c]) \in SubKey
  BY <1>2, MineKey, IndexAssumption DEF Mine, IndexAssumption, SubKey
<1> QED
  BY <1>0, <1>1, <1>2, <1>3

\* The bit of an unfiltered subscription stays explained by its own task.
LEMMA UnfilteredStep ==
  ASSUME TypeInv, NEW c \in Conns, Own(c), ConnStep(c), NEW p \in Patterns, NEW n \in unfiltered'[p],
         UnfilteredFor(c, p, n)
  PROVE  UnfilteredFor(c, p, n)'
<1> USE DEF TypeInv, TypeOK
<1>0. pc \in [Conns -> PCs] /\ unfiltered \in [Patterns -> SUBSET Nat]
  BY DEF LocalTypes, MapTypes
<1>1. ASSUME NEW id \in SubIds, bySubId[<<c, id>>] # NoSub, slotBySub[<<c, id>>] = n,
             bySubId[<<c, id>>].pat = p, Unfiltered(bySubId[<<c, id>>].flt)
      PROVE  UnfilteredFor(c, p, n)'
  <2>1. \/ /\ bySubId'[<<c, id>>] = bySubId[<<c, id>>] /\ slotBySub'[<<c, id>>] = slotBySub[<<c, id>>]
        \/ /\ pc'[c] = "clear" /\ cur'[c] = bySubId[<<c, id>>] /\ slot'[c] = slotBySub[<<c, id>>]
    BY <1>1, EntryGoes
  <2> QED
    BY <1>1, <2>1 DEF UnfilteredFor, Keyed
<1>2. CASE pc[c] = "index" /\ slot[c] = n /\ cur[c].pat = p /\ Unfiltered(cur[c].flt)
  <2>1. CASE IndexStep(c)
    BY <1>2, <2>1 DEF IndexStep, UnfilteredFor
  <2>2. CASE Link(c)
    BY <1>2, <2>2, LinkedEntry DEF UnfilteredFor
  <2> QED
    BY <1>2, <2>1, <2>2, IndexingSteps
<1>3. CASE Keyed(c) /\ slot[c] = n /\ cur[c].pat = p
  <2>1. CASE FreeClear(c) \/ FreeRelease(c)
    BY <1>0, <1>3, <2>1 DEF FreeClear, FreeRelease, UnfilteredFor, Keyed
  <2>2. CASE Unfilter(c)
    BY <1>0, <1>3, <2>2 DEF Unfilter
  <2> QED
    BY <1>3, <2>1, <2>2, IndexingSteps
<1> QED
  BY <1>1, <1>2, <1>3 DEF UnfilteredFor

\* So does the bit under a composite key.
LEMMA KeyStep ==
  ASSUME TypeInv, NEW c \in Conns, Own(c), ConnStep(c), NEW k \in CompositeKeys, NEW n \in index'[k],
         KeyFor(c, k, n)
  PROVE  KeyFor(c, k, n)'
<1> USE DEF TypeInv, TypeOK
<1>0. /\ pc \in [Conns -> PCs] /\ index \in [CompositeKeys -> SUBSET Nat]
      /\ work \in [Conns -> Seq(Patterns \X Steps)] /\ tracked \in [Conns -> Seq(CompositeKeys)]
  BY DEF LocalTypes, MapTypes, WorkTypes
<1>1. ASSUME NEW id \in SubIds, bySubId[<<c, id>>] # NoSub, slotBySub[<<c, id>>] = n,
             Listed(subKeys[<<c, id>>], k)
      PROVE  KeyFor(c, k, n)'
  <2>1. \/ /\ bySubId'[<<c, id>>] = bySubId[<<c, id>>] /\ slotBySub'[<<c, id>>] = slotBySub[<<c, id>>]
           /\ subKeys'[<<c, id>>] = subKeys[<<c, id>>]
        \/ /\ pc'[c] = "clear" /\ cur'[c] = bySubId[<<c, id>>] /\ slot'[c] = slotBySub[<<c, id>>]
           /\ subKeys' = subKeys
    BY <1>1, EntryGoes
  <2>2. KeyOf(bySubId[<<c, id>>]) = <<c, id>>
    BY <1>1, MineKey DEF Own, EntriesOf
  <2> QED
    BY <1>1, <2>1, <2>2 DEF KeyFor, Keyed, Listed, KeyOf
<1>2. CASE pc[c] = "index" /\ slot[c] = n /\ Listed(tracked[c], k)
  <2>1. CASE IndexStep(c)
    <3>1. \/ tracked'[c] = tracked[c]
          \/ tracked'[c] = Append(tracked[c], Head(work[c])) /\ Head(work[c])[2].step = "key"
      BY <1>0, <2>1 DEF IndexStep
    <3>2. Listed(tracked'[c], k)
      <4>1. CASE tracked'[c] = tracked[c]
        BY <1>2, <4>1
      <4>2. CASE tracked'[c] = Append(tracked[c], Head(work[c]))
        <5> DEFINE q == tracked[c]
                   x == Head(work[c])
        <5>1. q \in Seq(CompositeKeys) /\ tracked'[c] = Append(q, x)
          BY <1>0, <4>2
        <5>2. \A i \in DOMAIN q : i \in DOMAIN Append(q, x) /\ Append(q, x)[i] = q[i]
          <6> HIDE DEF q, x
          <6> QED
            BY <5>1
        <5> QED
          BY <1>2, <5>1, <5>2 DEF Listed
      <4> QED
        BY <3>1, <4>1, <4>2
    <3> QED
      BY <1>2, <2>1, <3>2 DEF IndexStep, KeyFor, Listed
  <2>2. CASE Link(c)
    <3>1. /\ cur[c] # NoSub /\ cur[c].id \in SubIds /\ bySubId'[<<c, cur[c].id>>] = cur[c]
          /\ slotBySub'[<<c, cur[c].id>>] = slot[c] /\ subKeys'[<<c, cur[c].id>>] = tracked[c]
      BY <2>2, LinkedEntry
    <3>2. \E id \in SubIds : /\ bySubId'[<<c, id>>] # NoSub /\ slotBySub'[<<c, id>>] = n
                             /\ Listed(subKeys'[<<c, id>>], k)
      BY <1>2, <3>1
    <3> QED
      BY <3>2 DEF KeyFor, Listed
  <2> QED
    BY <1>2, <2>1, <2>2, IndexingSteps
<1>3. CASE Keyed(c) /\ slot[c] = n /\ Listed(subKeys[KeyOf(cur[c])], k)
  <2>1. CASE FreeClear(c) \/ FreeRelease(c)
    BY <1>0, <1>3, <2>1 DEF FreeClear, FreeRelease, KeyFor, Keyed, KeyOf, Listed
  <2>2. CASE Unfilter(c)
    BY <1>0, <1>3, <2>2 DEF Unfilter, KeyFor, Listed
  <2> QED
    BY <1>3, <2>1, <2>2, IndexingSteps
<1>4. CASE pc[c] = "unindex" /\ slot[c] = n /\ Listed(work[c], k)
  <2>0. UnindexStep(c)
    BY <1>4, IndexingSteps
  <2>1. work[c] # <<>>
    BY <1>4 DEF Listed
  <2>2. /\ index' = [index EXCEPT ![Head(work[c])] = @ \ {slot[c]}] /\ pc' = pc /\ slot' = slot
        /\ work'[c] = Tail(work[c])
    BY <1>0, <2>0, <2>1 DEF UnindexStep
  <2>3. PICK j \in DOMAIN work[c] : work[c][j] = k
    BY <1>4 DEF Listed
  <2>4. work[c] \in Seq(Patterns \X Steps)
    BY <1>0
  <2>5. Head(work[c]) = work[c][1]
    BY <2>1, <2>4, SeqParts
  <2>6. j # 1
    BY <1>0, <1>4, <2>2, <2>3, <2>5
  <2>7. \E i \in DOMAIN Tail(work[c]) : Tail(work[c])[i] = work[c][j]
    BY <2>1, <2>4, <2>6, TailRest
  <2> QED
    BY <1>4, <2>2, <2>3, <2>7 DEF KeyFor, Listed
<1> QED
  BY <1>1, <1>2, <1>3, <1>4 DEF KeyFor

\* A step of another task changes nothing of the explanation.
LEMMA ExplainedElsewhere ==
  ASSUME NEW c \in Conns, Own(c), SameOwn(c), NEW p, NEW k, NEW n
  PROVE  /\ UnfilteredFor(c, p, n) => UnfilteredFor(c, p, n)'
         /\ KeyFor(c, k, n) => KeyFor(c, k, n)'
<1>1. UnfilteredFor(c, p, n) => UnfilteredFor(c, p, n)'
  BY DEF UnfilteredFor, SameOwn, SameEntries, Keyed
<1>2. Keyed(c) => KeyOf(cur[c]) = <<c, cur[c].id>> /\ cur[c].id \in SubIds
  BY MineKey DEF Own, EntriesOf, Busy, Keyed
<1>3. Keyed(c) => subKeys'[KeyOf(cur[c])] = subKeys[KeyOf(cur[c])]
  BY <1>2 DEF SameOwn
<1>4. KeyFor(c, k, n) => KeyFor(c, k, n)'
  BY <1>3 DEF KeyFor, SameOwn, SameEntries, Keyed, Listed, KeyOf
<1> QED
  BY <1>1, <1>4

\* Every bit stays explained.
LEMMA NextExplained ==
  ASSUME TypeInv, \A c \in Conns : Own(c), Explained, NEW d \in Conns, ConnStep(d)
  PROVE  Explained'
<1> USE DEF TypeInv, TypeOK
<1>0. tracked[d] \in Seq(CompositeKeys)
  BY DEF WorkTypes
<1>1. ASSUME NEW c \in Conns, c # d PROVE SameOwn(c)
  BY <1>1, OtherOwn DEF Own
<1>2. ASSUME NEW p \in Patterns, NEW n \in unfiltered'[p] PROVE \E c \in Conns : UnfilteredFor(c, p, n)'
  <2>1. CASE n \in unfiltered[p]
    <3>1. PICK c \in Conns : UnfilteredFor(c, p, n)
      BY <2>1 DEF Explained
    <3> QED
      BY <1>1, <3>1, UnfilteredStep, ExplainedElsewhere
  <2>2. CASE IndexStep(d) /\ p = cur[d].pat /\ n = slot[d] /\ Unfiltered(cur[d].flt)
    <3>1. UnfilteredFor(d, p, n)'
      BY <2>2 DEF IndexStep, UnfilteredFor
    <3> QED
      BY <3>1
  <2> QED
    BY <2>1, <2>2, SetBits
<1>3. ASSUME NEW k \in CompositeKeys, NEW n \in index'[k] PROVE \E c \in Conns : KeyFor(c, k, n)'
  <2>1. CASE n \in index[k]
    <3>1. PICK c \in Conns : KeyFor(c, k, n)
      BY <2>1 DEF Explained
    <3> QED
      BY <1>1, <3>1, KeyStep, ExplainedElsewhere
  <2>2. CASE IndexStep(d) /\ n = slot[d] /\ tracked'[d] = Append(tracked[d], k)
    <3>1. Listed(tracked'[d], k)
      <4> DEFINE q == tracked[d]
      <4>1. q \in Seq(CompositeKeys) /\ tracked'[d] = Append(q, k)
        BY <1>0, <2>2
      <4> HIDE DEF q
      <4>2. \E i \in DOMAIN Append(q, k) : Append(q, k)[i] = k
        BY <4>1, AppendElems
      <4> QED
        BY <4>1, <4>2 DEF Listed
    <3>2. KeyFor(d, k, n)'
      BY <2>2, <3>1 DEF IndexStep, KeyFor, Listed
    <3> QED
      BY <3>2
  <2> QED
    BY <2>1, <2>2, SetBits
<1> QED
  BY <1>2, <1>3 DEF Explained

\* At the start there are no bits; the router sets none.
LEMMA ExplainedInv ==
  ASSUME TypeInv, \A c \in Conns : Own(c), [Next]_vars
  PROVE  Explained => Explained'
<1>1. ASSUME UNCHANGED <<indexVars, localVars, regVars>>, Explained PROVE Explained'
  <2>1. \A c \in Conns : SameOwn(c)
    BY <1>1 DEF SameOwn, SameEntries, indexVars, localVars, regVars
  <2>2. index' = index /\ unfiltered' = unfiltered
    BY <1>1 DEF indexVars
  <2>3. ASSUME NEW p \in Patterns, NEW n \in unfiltered'[p] PROVE \E c \in Conns : UnfilteredFor(c, p, n)'
    BY <1>1, <2>1, <2>2, ExplainedElsewhere DEF Explained
  <2>4. ASSUME NEW k \in CompositeKeys, NEW n \in index'[k] PROVE \E c \in Conns : KeyFor(c, k, n)'
    BY <1>1, <2>1, <2>2, ExplainedElsewhere DEF Explained
  <2> QED
    BY <2>3, <2>4 DEF Explained
<1> QED
  BY <1>1, NextExplained DEF Next, Evaluate, Dispatch, vars

\* Quiescent, an entry of a live connection is what by_topic and the index name.
LEMMA QuietEntries ==
  ASSUME TypeInv, OwnInv, Quiescent, NEW c \in Conns, NEW id \in SubIds, bySubId[<<c, id>>] # NoSub
  PROVE  LET s == bySubId[<<c, id>>]
         IN  /\ s \in Sub /\ s.pat \in Patterns /\ s.flt \in Filters /\ slotBySub[<<c, id>>] # 0
             /\ slots[slotBySub[<<c, id>>]] = s
             /\ <<s.pat, c, id>> \in byTopic
             /\ \A p \in Patterns : <<p, c, id>> \in byTopic => p = s.pat
             /\ KeysFor(s, subKeys[<<c, id>>])
<1> DEFINE s == bySubId[<<c, id>>]
<1>0. pc[c] = "idle" /\ Own(c) /\ <<c, id>> \in SubKey
  BY DEF Quiescent, OwnInv, SubKey
<1>1. Mine(c, s) /\ s.id = id /\ todo[c] = <<>>
  BY <1>0 DEF Own, EntriesOf
<1>2. s \in Sub /\ s.pat \in Patterns /\ s.flt \in Filters
  BY <1>1, MineKey DEF Mine
<1>3. slotBySub[<<c, id>>] # 0
  BY <1>0 DEF Own, SlotsOf
<1>4. slots[slotBySub[<<c, id>>]] = s
  BY <1>0, <1>3 DEF OwnInv, SlabHolds, SubOf
<1>5. c \in alive
  BY <1>0, <1>1 DEF Own, EntriesOf, Listed
<1>6. <<s.pat, c, id>> \in byTopic
  BY <1>0, <1>5 DEF Own, TopicsOf
<1>7. ASSUME NEW p \in Patterns, <<p, c, id>> \in byTopic PROVE p = s.pat
  <2>1. PICK i \in DOMAIN byConnection[c] : byConnection[c][i].pat = p /\ byConnection[c][i].id = id
    BY <1>0, <1>1, <1>7 DEF Own, TopicsOf, Named
  <2>2. byConnection[c][i] = s
    BY <1>0, <2>1, MineKey DEF Own, EntriesOf
  <2> QED
    BY <2>1, <2>2
<1>8. KeysFor(s, subKeys[<<c, id>>])
  BY <1>0 DEF Own, KeysOf
<1> QED
  BY <1>2, <1>3, <1>4, <1>6, <1>7, <1>8

\* What the bitmap path dispatches to, the linear path finds.
LEMMA BitmapIsLinear ==
  ASSUME PlansAreRight, TypeInv, OwnInv, Explained, Quiescent, NEW e \in Events
  PROVE  Dispatched(FullUnion(e), "full", e) \subseteq LinearMatches(e)
<1> SUFFICES ASSUME NEW n \in FullUnion(e), slots[n] # NoSub,
                    slots[n].flt \in Exact \/ <<slots[n].flt, e>> \in Satisfies
             PROVE  slots[n] \in LinearMatches(e)
  BY DEF Dispatched
<1>1. ASSUME NEW c \in Conns, NEW id \in SubIds, bySubId[<<c, id>>] # NoSub, slotBySub[<<c, id>>] = n,
             <<bySubId[<<c, id>>].pat, e>> \in TopicMatch, FoundUnder(bySubId[<<c, id>>].flt, e)
      PROVE  slots[n] \in LinearMatches(e)
  <2> DEFINE s == bySubId[<<c, id>>]
             u == <<s.pat, c, id>>
  <2>1. s.flt \in Filters /\ slots[n] = s /\ u \in byTopic
    BY <1>1, QuietEntries
  <2>2. <<s.flt, e>> \in Satisfies
    BY <1>1, <2>1 DEF PlansAreRight
  <2>3. u[1] = s.pat /\ u[2] = c /\ u[3] = id
    OBVIOUS
  <2> QED
    BY <1>1, <2>1, <2>2, <2>3 DEF LinearMatches
<1>2. CASE n \in UnfilteredUnion(e)
  <2>1. PICK p \in patterns : <<p, e>> \in TopicMatch /\ n \in unfiltered[p]
    BY <1>2 DEF UnfilteredUnion, MatchingPatterns
  <2>2. p \in Patterns
    BY DEF TypeInv, TypeOK, MapTypes
  <2>3. PICK c \in Conns : UnfilteredFor(c, p, n)
    BY <2>1, <2>2 DEF Explained
  <2>4. PICK id \in SubIds : /\ bySubId[<<c, id>>] # NoSub /\ slotBySub[<<c, id>>] = n
                             /\ bySubId[<<c, id>>].pat = p /\ Unfiltered(bySubId[<<c, id>>].flt)
    BY <2>3 DEF UnfilteredFor, Quiescent, Keyed
  <2>5. FoundUnder(bySubId[<<c, id>>].flt, e)
    BY <2>4 DEF FoundUnder, Unfiltered
  <2> QED
    BY <1>1, <2>1, <2>4, <2>5
<1>3. ASSUME NEW p \in MatchingPatterns(e), NEW k \in LookedUp(p, e), n \in index[<<p, k>>]
      PROVE  slots[n] \in LinearMatches(e)
  <2>1. p \in Patterns /\ <<p, e>> \in TopicMatch /\ k \in KeysOfEvent[e] /\ k \in AllKeys
    BY DEF MatchingPatterns, LookedUp, TypeInv, TypeOK, MapTypes
  <2>2. <<p, k>> \in CompositeKeys
    BY <2>1 DEF CompositeKeys
  <2>3. PICK c \in Conns : KeyFor(c, <<p, k>>, n)
    BY <1>3, <2>2 DEF Explained
  <2>4. PICK id \in SubIds : /\ bySubId[<<c, id>>] # NoSub /\ slotBySub[<<c, id>>] = n
                             /\ Listed(subKeys[<<c, id>>], <<p, k>>)
    BY <2>3 DEF KeyFor, Quiescent, Keyed
  <2> DEFINE s == bySubId[<<c, id>>]
  <2>5. KeysFor(s, subKeys[<<c, id>>])
    BY <2>4, QuietEntries
  <2>6. \E j \in DOMAIN Plan[s.flt] : <<p, k>> = <<s.pat, Plan[s.flt][j]>> /\ IsKey(<<p, k>>[2])
    BY <2>4, <2>5 DEF KeysFor, StepsFor, Listed
  <2>7. s.pat = p /\ FoundUnder(s.flt, e)
    BY <2>1, <2>6 DEF FoundUnder
  <2> QED
    BY <1>1, <2>1, <2>4, <2>7
<1>4. n \in UnfilteredUnion(e) \/ \E p \in MatchingPatterns(e) : \E k \in LookedUp(p, e) : n \in index[<<p, k>>]
  <2> DEFINE B(p) == UNION {index[<<p, k>>] : k \in LookedUp(p, e)}
  <2>1. n \in UnfilteredUnion(e) \/ n \in UNION {B(p) : p \in MatchingPatterns(e)}
    BY DEF FullUnion
  <2>2. \A p : n \in B(p) => \E k \in LookedUp(p, e) : n \in index[<<p, k>>]
    OBVIOUS
  <2> HIDE DEF B
  <2> QED
    BY <2>1, <2>2
<1> QED
  BY <1>2, <1>3, <1>4

\* What the linear path finds, the bitmap path dispatches to.
LEMMA LinearIsBitmap ==
  ASSUME PlansAreRight, TypeInv, OwnInv, BitsInv, Quiescent, NEW e \in Events
  PROVE  LinearMatches(e) \subseteq Dispatched(FullUnion(e), "full", e)
<1> SUFFICES ASSUME NEW u \in byTopic, <<u[1], e>> \in TopicMatch, bySubId[<<u[2], u[3]>>] # NoSub,
                    <<bySubId[<<u[2], u[3]>>].flt, e>> \in Satisfies
             PROVE  bySubId[<<u[2], u[3]>>] \in Dispatched(FullUnion(e), "full", e)
  BY DEF LinearMatches
<1>1. u \in Patterns \X Conns \X SubIds
  BY DEF TypeInv, TypeOK, RegTypes
<1>2. PICK p \in Patterns, c \in Conns, id \in SubIds : u = <<p, c, id>>
  BY <1>1
<1> DEFINE s == bySubId[<<c, id>>]
           n == slotBySub[<<c, id>>]
<1>3. s # NoSub /\ <<p, e>> \in TopicMatch /\ <<s.flt, e>> \in Satisfies
  BY <1>2
<1>4. s \in Sub /\ s.flt \in Filters /\ slots[n] = s /\ s.pat = p
  BY <1>2, <1>3, QuietEntries
<1>5. s.pat \in patterns /\ \A i \in DOMAIN Plan[s.flt] : Made(s, n, i)
  BY <1>3 DEF BitsInv, BitsOf
<1>6. FoundUnder(s.flt, e)
  BY <1>3, <1>4 DEF PlansAreRight
<1>s. s = bySubId[<<u[2], u[3]>>]
  BY <1>2
<1> HIDE DEF s, n
<1>7. p \in MatchingPatterns(e)
  BY <1>3, <1>4, <1>5 DEF MatchingPatterns
<1>8. n \in FullUnion(e)
  <2>1. PICK i \in DOMAIN Plan[s.flt] : \/ Plan[s.flt][i].step = "unfiltered"
                                        \/ IsKey(Plan[s.flt][i]) /\ Plan[s.flt][i] \in KeysOfEvent[e]
    BY <1>6 DEF FoundUnder
  <2>2. CASE Plan[s.flt][i].step = "unfiltered"
    <3>1. n \in unfiltered[p]
      BY <1>4, <1>5, <2>2 DEF Made, MadeIn
    <3> QED
      BY <1>7, <3>1 DEF FullUnion, UnfilteredUnion
  <2>3. CASE IsKey(Plan[s.flt][i]) /\ Plan[s.flt][i] \in KeysOfEvent[e]
    <3> DEFINE k == Plan[s.flt][i]
    <3>1. k \in AllKeys
      BY <1>4, <2>3, PlanKeys DEF IsKey
    <3>2. n \in index[<<p, k>>]
      BY <1>4, <1>5, <2>3 DEF Made, MadeIn, IsKey
    <3>3. PICK j \in DOMAIN Plan[s.flt] : Plan[s.flt][j].step = "field" /\ Plan[s.flt][j].field = k.field
      BY <1>4, <2>3 DEF PlansAreRight
    <3>4. k.field \in fields[p]
      BY <1>4, <1>5, <3>3 DEF Made, MadeIn
    <3>5. k \in LookedUp(p, e)
      BY <2>3, <3>1, <3>4 DEF LookedUp
    <3> HIDE DEF k
    <3> QED
      BY <1>7, <3>2, <3>5 DEF FullUnion
  <2> QED
    BY <2>1, <2>2, <2>3
<1> QED
  BY <1>s, <1>3, <1>4, <1>8 DEF Dispatched

\* BitmapEqualsLinear, under the same two conditions: if filters are compiled
\* into right plans, for_each_match
\* dispatches, between operations, to exactly the subscriptions that
\* lookup_matches finds by the linear path.
LEMMA BitmapAnswersLikeLinear ==
  FreshIds /\ OwnPatterns /\ PlansAreRight => (Spec => []BitmapEqualsLinear)
<1> SUFFICES ASSUME FreshIds, OwnPatterns, PlansAreRight PROVE Spec => []BitmapEqualsLinear
  OBVIOUS
<1>1. Init => OwnInv /\ BitsInv /\ Explained
  <2>1. Init => Explained
    BY DEF Init, IndexInit, Explained
  <2> QED
    BY <2>1, InitOwnInv, InitBits
<1>2. TypeInv /\ SlotInv /\ OwnInv /\ BitsInv /\ Explained /\ [Next]_vars => OwnInv' /\ BitsInv' /\ Explained'
  BY NextOwnInv, NextBitsInv, ExplainedInv DEF OwnInv
<1>3. TypeInv /\ OwnInv /\ BitsInv /\ Explained => BitmapEqualsLinear
  BY BitmapIsLinear, LinearIsBitmap DEF BitmapEqualsLinear
<1> QED
  BY <1>1, <1>2, <1>3, SlotInvariant, PTL DEF Spec

-----------------------------------------------------------------------------
(***************************************************************************)
(* The circuit breaker every evaluation of the filter index passes         *)
(* through, for any set of evaluating threads, any trip count and any      *)
(* cooldown.                                                               *)
(***************************************************************************)

\* The initial state has the declared types.
LEMMA BreakerInitTypes == ASSUME BreakerInit PROVE BreakerTypeOK
<1>1. age \in 0..Cooldown /\ streak \in 0..TripCount /\ setbacks \in 0..MaxSetbacks
  BY BreakerAssumption DEF BreakerAssumption, BreakerInit
<1>2. open \in BOOLEAN /\ probe \in BOOLEAN
  BY DEF BreakerInit
<1>3. callPc \in [Threads -> Labels]
  BY DEF BreakerInit, Labels
<1>4. winner \in [Threads -> BOOLEAN]
  BY Zenon DEF BreakerInit
<1>5. slow \in [Threads -> BOOLEAN]
  BY Zenon DEF BreakerInit
<1>6. tripping \in [Threads -> BOOLEAN]
  BY Zenon DEF BreakerInit
<1> QED
  BY <1>1, <1>2, <1>3, <1>4, <1>5, <1>6 DEF BreakerTypeOK

\* Every step of a thread, of the clock and of nobody keeps the types.
LEMMA BreakerNextTypes ==
  ASSUME BreakerTypeOK, [BreakerNext]_breakerVars PROVE BreakerTypeOK'
<1> USE BreakerAssumption DEF BreakerAssumption, BreakerTypeOK, Labels, Goto
<1>1. ASSUME NEW t \in Threads, ThreadStep(t) PROVE BreakerTypeOK'
  <2>1. CASE LoadOpen(t)
    BY <2>1 DEF LoadOpen
  <2>2. CASE CheckCooldown(t)
    BY <2>2 DEF CheckCooldown
  <2>3. CASE ClaimProbe(t)
    BY <2>3 DEF ClaimProbe
  <2>4. CASE ForEachMatch(t)
    BY <2>4 DEF ForEachMatch
  <2>5. CASE CountSlow(t)
    BY <2>5 DEF CountSlow
  <2>6. CASE TripTest(t)
    BY <2>6 DEF TripTest
  <2>7. CASE Stamp(t)
    BY <2>7 DEF Stamp
  <2>8. CASE ResetStreak(t)
    BY <2>8 DEF ResetStreak
  <2>9. CASE ProbeTest(t)
    BY <2>9 DEF ProbeTest
  <2>10. CASE Restamp(t)
    BY <2>10 DEF Restamp
  <2>11. CASE Close(t)
    BY <2>11 DEF Close
  <2>12. CASE ClearProbe(t)
    BY <2>12 DEF ClearProbe
  <2>13. CASE Done(t)
    BY <2>13 DEF Done
  <2> QED
    BY <1>1, <2>1, <2>2, <2>3, <2>4, <2>5, <2>6, <2>7, <2>8, <2>9, <2>10, <2>11, <2>12, <2>13
       DEF ThreadStep
<1>2. CASE Tick
  BY <1>2 DEF Tick
<1>3. CASE SetBack
  BY <1>3 DEF SetBack
<1>4. CASE UNCHANGED breakerVars
  BY <1>4 DEF breakerVars
<1> QED
  BY <1>1, <1>2, <1>3, <1>4 DEF BreakerNext

\* Every reachable state of the breaker and of its callers has the declared
\* types: the ages and the streak stay inside their saturation bounds.
THEOREM BreakerTypes == BreakerSpec => []BreakerTypeOK
<1>1. BreakerInit => BreakerTypeOK
  BY BreakerInitTypes
<1>2. BreakerTypeOK /\ [BreakerNext]_breakerVars => BreakerTypeOK'
  BY BreakerNextTypes
<1> QED
  BY <1>1, <1>2, PTL DEF BreakerSpec

\* A step of t that changes neither the flag nor t's claim, and leaves t in a
\* position to settle the flag if it was in one, keeps the owner.
LEMMA OwnerKept ==
  ASSUME BreakerTypeOK, ProbeHasOwner, NEW t \in Threads, NEW l \in Labels,
         callPc' = [callPc EXCEPT ![t] = l], probe' = probe, winner' = winner,
         WillSettle(t) => l \in {"full", "count", "tripTest", "stamp", "reset", "probeTest",
                                 "restamp", "close", "clear"}
  PROVE  ProbeHasOwner'
<1> SUFFICES ASSUME probe' PROVE \E u \in Threads : winner'[u] /\ WillSettle(u)'
  BY DEF ProbeHasOwner
<1>1. PICK u \in Threads : winner[u] /\ WillSettle(u)
  BY DEF ProbeHasOwner
<1>2. winner'[u] /\ WillSettle(u)'
  <2>1. CASE u = t
    BY <1>1, <2>1 DEF BreakerTypeOK, WillSettle
  <2>2. CASE u # t
    BY <1>1, <2>2 DEF BreakerTypeOK, WillSettle
  <2> QED
    BY <2>1, <2>2
<1> QED
  BY <1>2

\* Nobody can strand the flag: the thread that claims it carries it through its
\* report, where it is cleared whether the probe was slow or fast.
LEMMA NextOwner ==
  BreakerTypeOK /\ ProbeHasOwner /\ [BreakerNext]_breakerVars => ProbeHasOwner'
<1> SUFFICES ASSUME BreakerTypeOK, ProbeHasOwner, [BreakerNext]_breakerVars PROVE ProbeHasOwner'
  OBVIOUS
<1>1. ASSUME NEW t \in Threads, ThreadStep(t) PROVE ProbeHasOwner'
  <2>1. CASE LoadOpen(t)
    BY <2>1, OwnerKept DEF LoadOpen, Goto, WillSettle, Labels
  <2>2. CASE CheckCooldown(t)
    BY <2>2, OwnerKept DEF CheckCooldown, Goto, WillSettle, Labels
  <2>3. CASE ClaimProbe(t)
    <3>1. CASE probe
      BY <2>3, <3>1, OwnerKept DEF ClaimProbe, Goto, WillSettle, Labels
    <3>2. CASE ~probe
      <4>1. winner'[t] /\ WillSettle(t)'
        BY <2>3, <3>2 DEF ClaimProbe, Goto, WillSettle, BreakerTypeOK
      <4> QED
        BY <4>1 DEF ProbeHasOwner
    <3> QED
      BY <3>1, <3>2
  <2>4. CASE ForEachMatch(t)
    <3>1. PICK s \in BOOLEAN : Goto(t, IF s THEN "count" ELSE "reset")
      BY <2>4 DEF ForEachMatch
    <3> QED
      BY <2>4, <3>1, OwnerKept DEF ForEachMatch, Goto, WillSettle, Labels
  <2>5. CASE CountSlow(t)
    BY <2>5, OwnerKept DEF CountSlow, Goto, WillSettle, Labels
  <2>6. CASE TripTest(t)
    BY <2>6, OwnerKept DEF TripTest, Goto, WillSettle, Labels
  <2>7. CASE Stamp(t)
    BY <2>7, OwnerKept DEF Stamp, Goto, WillSettle, Labels
  <2>8. CASE ResetStreak(t)
    BY <2>8, OwnerKept DEF ResetStreak, Goto, WillSettle, Labels
  <2>9. CASE ProbeTest(t)
    <3>1. CASE probe
      BY <2>9, <3>1, OwnerKept DEF ProbeTest, Goto, WillSettle, Labels
    <3>2. CASE ~probe
      BY <2>9, <3>2 DEF ProbeTest, ProbeHasOwner
    <3> QED
      BY <3>1, <3>2
  <2>10. CASE Restamp(t)
    BY <2>10, OwnerKept DEF Restamp, Goto, WillSettle, Labels
  <2>11. CASE Close(t)
    BY <2>11, OwnerKept DEF Close, Goto, WillSettle, Labels
  <2>12. CASE ClearProbe(t)
    BY <2>12 DEF ClearProbe, ProbeHasOwner
  <2>13. CASE Done(t)
    <3> SUFFICES ASSUME probe' PROVE \E u \in Threads : winner'[u] /\ WillSettle(u)'
      BY DEF ProbeHasOwner
    <3>1. PICK u \in Threads : winner[u] /\ WillSettle(u)
      BY <2>13 DEF ProbeHasOwner, Done
    <3>2. u # t
      BY <2>13, <3>1 DEF Done, WillSettle
    <3> QED
      BY <2>13, <3>1, <3>2 DEF Done, Goto, WillSettle, BreakerTypeOK
  <2> QED
    BY <1>1, <2>1, <2>2, <2>3, <2>4, <2>5, <2>6, <2>7, <2>8, <2>9, <2>10, <2>11, <2>12, <2>13
       DEF ThreadStep
<1>2. CASE Tick
  BY <1>2 DEF Tick, ProbeHasOwner, WillSettle
<1>3. CASE SetBack
  BY <1>3 DEF SetBack, ProbeHasOwner, WillSettle
<1>4. CASE UNCHANGED breakerVars
  BY <1>4 DEF breakerVars, ProbeHasOwner, WillSettle
<1> QED
  BY <1>1, <1>2, <1>3, <1>4 DEF BreakerNext

\* The half-open flag is never stranded, however many threads share the
\* breaker: while it is set, the evaluation that won the compare_exchange in
\* is_open is still running and its report will clear it.
THEOREM ProbeNeverStranded == BreakerSpec => []ProbeHasOwner
<1>0. BreakerSpec => []BreakerTypeOK
  BY BreakerTypes
<1>1. BreakerInit => ProbeHasOwner
  BY DEF BreakerInit, ProbeHasOwner
<1> QED
  BY <1>0, <1>1, NextOwner, PTL DEF BreakerSpec
=============================================================================
