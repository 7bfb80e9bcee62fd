--------------------------- MODULE MempoolProofs ---------------------------
(* Proofs about the queue, for any set of bundles, weights, priorities and
   any capacity. *)
EXTENDS Mempool, FiniteSums

(* The queue, slot by slot. *)
LEMMA SlotsType ==
    ASSUME MempoolTypeOK
    PROVE  /\ Len(slots) \in Nat
           /\ DOMAIN slots = 1..Len(slots)
           /\ \A i \in DOMAIN slots : slots[i] \in Slot
           /\ \A i \in DOMAIN slots : slots[i].bundles \subseteq Bundles
<1>1. /\ Len(slots) \in Nat
      /\ DOMAIN slots = 1..Len(slots)
      /\ \A i \in DOMAIN slots : slots[i] \in Slot
  BY DEF MempoolTypeOK
<1>2. \A slot \in Slot : slot.bundles \subseteq Bundles
  BY DEF Slot
<1> QED BY <1>1, <1>2

(* What the loop of addBundle hands from slot to slot is a bundle or null. *)
LEMMA CarryType ==
    ASSUME MempoolTypeOK, NEW b \in Bundles, NEW carry \in Carries(b)
    PROVE  carry \in [0..Len(slots) -> Bundles \cup {NoBundle}]
<1>1. Queued \subseteq Bundles
  BY SlotsType, Zenon DEF Queued
<1> QED BY <1>1 DEF Carries

(* The bundle displaced from a slot or kept by it leaves a slot behind. *)
LEMMA SlotAfterType ==
    ASSUME NEW slot \in Slot, NEW channel,
           NEW in \in Bundles \cup {NoBundle}, NEW out \in Bundles \cup {NoBundle},
           Handover(slot, channel, in, out)
    PROVE  SlotAfter(slot, in, out) \in Slot
<1>1. CASE in = out
  BY <1>1 DEF SlotAfter
<1>2. CASE in # out
  <2>1. in \in Bundles
    BY <1>2 DEF Handover
  <2> QED BY <1>2, <2>1 DEF SlotAfter, Slot
<1> QED BY <1>1, <1>2

LEMMA CascadedType ==
    ASSUME MempoolTypeOK, NEW b \in Bundles, NEW carry \in Carries(b),
           Cascade(b, carry)
    PROVE  Cascaded(carry) \in Seq(Slot) /\ Len(Cascaded(carry)) = Len(slots)
<1>0. Len(slots) \in Nat /\ \A i \in 1..Len(slots) : slots[i] \in Slot
  BY SlotsType
<1>1. carry \in [0..Len(slots) -> Bundles \cup {NoBundle}]
  BY CarryType
<1>2. ASSUME NEW i \in 1..Len(slots)
      PROVE  SlotAfter(slots[i], carry[i - 1], carry[i]) \in Slot
  <2>1. i \in 0..Len(slots) /\ i - 1 \in 0..Len(slots)
    BY <1>0
  <2>2. Handover(slots[i], ChannelOf[b], carry[i - 1], carry[i])
    BY DEF Cascade
  <2> QED BY <1>0, <1>1, <2>1, <2>2, SlotAfterType
<1>3. Cascaded(carry) \in [1..Len(slots) -> Slot]
  BY <1>2 DEF Cascaded
<1> QED BY <1>0, <1>3

LEMMA PlaceBundleType ==
    ASSUME MempoolTypeOK, NEW b \in Bundles, PlaceBundle(b)
    PROVE  MempoolTypeOK'
<1>1. PICK carry \in Carries(b) :
        LET left == carry[Len(slots)] IN
        /\ Cascade(b, carry)
        /\ \/ left = NoBundle /\ slots' = Cascaded(carry)
           \/ /\ left # NoBundle
              /\ slots' = Append(Cascaded(carry),
                                 [channel |-> ChannelOf[b], bundles |-> {left}])
  BY DEF PlaceBundle
<1>2. Cascaded(carry) \in Seq(Slot)
  BY <1>1, CascadedType
<1>3. carry[Len(slots)] \in Bundles \cup {NoBundle}
  <2>1. Len(slots) \in 0..Len(slots)
    BY DEF MempoolTypeOK
  <2> QED BY <2>1, CarryType
<1>4. carry[Len(slots)] # NoBundle =>
        [channel |-> ChannelOf[b], bundles |-> {carry[Len(slots)]}] \in Slot
  BY <1>3, ChannelOfAssumption DEF Slot
<1> QED BY <1>1, <1>2, <1>4 DEF MempoolTypeOK

LEMMA PlaceBundleSlotFullType ==
    ASSUME MempoolTypeOK, NEW b \in Bundles, PlaceBundleSlotFull(b)
    PROVE  MempoolTypeOK'
<1>1. PICK carry \in Carries(b) : Cascade(b, carry) /\ slots' = Cascaded(carry)
  BY DEF PlaceBundleSlotFull
<1> QED BY <1>1, CascadedType DEF MempoolTypeOK

LEMMA RemoveFirstSlotType ==
    ASSUME MempoolTypeOK, RemoveFirstSlot
    PROVE  MempoolTypeOK' /\ slots[1] \in Slot
BY DEF MempoolTypeOK, RemoveFirstSlot

LEMMA EvictBundlesType ==
    ASSUME MempoolTypeOK, NEW S, EvictBundles(S)
    PROVE  MempoolTypeOK'
<1> DEFINE n == Cardinality(Remaining(S))
<1>1. PICK order \in [1..n -> Remaining(S)] :
        slots' = [i \in DOMAIN order |-> [slots[order[i]] EXCEPT !.bundles = @ \ S]]
  BY DEF EvictBundles
<1>2. \A j \in Remaining(S) : [slots[j] EXCEPT !.bundles = @ \ S] \in Slot
  <2>1. \A slot \in Slot : [slot EXCEPT !.bundles = @ \ S] \in Slot
    BY DEF Slot
  <2> QED BY <2>1, SlotsType DEF Remaining
<1>3. slots' \in [1..n -> Slot]
  BY <1>1, <1>2
<1>4. n \in Nat
  <2>1. Remaining(S) \subseteq 1..Len(slots)
    BY SlotsType DEF Remaining
  <2>2. IsFiniteSet(1..Len(slots))
    BY SlotsType, FS_Interval
  <2>3. IsFiniteSet(Remaining(S))
    BY <2>1, <2>2, FS_Subset
  <2> QED BY <2>3, FS_CardinalityType
<1> QED BY <1>3, <1>4 DEF MempoolTypeOK

(* Through replacement cascades, evictions and empty-slot removal the queue
   stays a sequence of slots that hold bundles and never the null that
   Slot.add returns: for any set of bundles, weights, priorities and any
   capacity. *)
THEOREM MempoolTypeCorrect == MempoolSpec => []MempoolTypeOK
<1>1. MempoolInit => MempoolTypeOK
  BY DEF MempoolInit, MempoolTypeOK
<1>2. MempoolTypeOK /\ [MempoolNext]_slots => MempoolTypeOK'
  <2> SUFFICES ASSUME MempoolTypeOK, [MempoolNext]_slots PROVE MempoolTypeOK'
    OBVIOUS
  <2>1. ASSUME NEW b \in Bundles, AddBundle(b) PROVE MempoolTypeOK'
    BY <2>1, PlaceBundleType DEF AddBundle
  <2>2. ASSUME NEW b \in Bundles, AddBundleSlotFull(b) PROVE MempoolTypeOK'
    BY <2>2, PlaceBundleSlotFullType DEF AddBundleSlotFull
  <2>3. CASE RemoveFirstSlot
    BY <2>3, RemoveFirstSlotType
  <2>4. ASSUME NEW S \in SUBSET Bundles, ExpireOrPurge(S) PROVE MempoolTypeOK'
    BY <2>4, EvictBundlesType DEF ExpireOrPurge
  <2>5. CASE UNCHANGED slots
    BY <2>5 DEF MempoolTypeOK
  <2> QED BY <2>1, <2>2, <2>3, <2>4, <2>5 DEF MempoolNext
<1> QED BY <1>1, <1>2, PTL DEF MempoolSpec

-----------------------------------------------------------------------------
(* The cascade.  A bundle that is handed from slot to slot comes from a place
   before: it is the new bundle (place 0), or an occupant of the slot it lost;
   it has been the one handed on since then, and it is of a lower priority
   than the new one. *)
From(b, j, x) == IF j = 0 THEN x = b ELSE x \in slots[j].bundles

HandedOn(b, carry, k) ==
    carry[k] # NoBundle =>
      /\ carry[k] \in Bundles /\ ChannelOf[carry[k]] = ChannelOf[b]
      /\ carry[k] = b \/ Priority[carry[k]] < Priority[b]
      /\ \E j \in 0..k : From(b, j, carry[k]) /\ \A m \in j..k : carry[m] = carry[k]

(* One turn of the loop: the slot is left alone, or it takes what it is
   handed and hands on nothing or an occupant of lower priority. *)
LEMMA Turn ==
    ASSUME NEW slot, NEW channel, NEW in, NEW out, Handover(slot, channel, in, out)
    PROVE  \/ out = in
           \/ /\ in # NoBundle /\ slot.channel = channel
              /\ \/ out = NoBundle
                 \/ out \in slot.bundles /\ Priority[in] > Priority[out]
BY DEF Handover, SlotAdd, LowestPriority

LEMMA CascadeHandsOn ==
    ASSUME MempoolTypeOK, SlotsPartitionBundles, NEW b \in Bundles,
           NEW carry \in Carries(b), Cascade(b, carry)
    PROVE  \A k \in 0..Len(slots) : HandedOn(b, carry, k)
<1> DEFINE T == {k \in 0..Len(slots) : ~HandedOn(b, carry, k)}
<1>0. Len(slots) \in Nat /\ DOMAIN slots = 1..Len(slots)
  BY SlotsType
<1>1. SUFFICES ASSUME T # {} PROVE FALSE
  OBVIOUS
<1>2. PICK k \in T : \A y \in T : k <= y
  <2>1. T \in SUBSET Nat
    BY <1>0
  <2> HIDE DEF T
  <2> QED BY <1>1, <2>1, LeastNatural
<1>3. k \in 0..Len(slots) /\ ~HandedOn(b, carry, k)
  BY <1>2
<1>4. carry[0] = b /\ \A i \in 1..Len(slots) :
        Handover(slots[i], ChannelOf[b], carry[i - 1], carry[i])
  BY DEF Cascade
<1>5. k # 0
  <2>1. HandedOn(b, carry, 0)
    <3>1. From(b, 0, carry[0]) /\ \A m \in 0..0 : carry[m] = carry[0]
      BY <1>4 DEF From
    <3> QED BY <1>4, <3>1 DEF HandedOn
  <2> QED BY <1>3, <2>1
<1>6. k \in 1..Len(slots) /\ k - 1 \in 0..Len(slots) /\ k - 1 \notin T
  BY <1>0, <1>2, <1>3, <1>5
<1>7. HandedOn(b, carry, k - 1)
  BY <1>6
<1> HIDE DEF T
<1>8. CASE carry[k] = carry[k - 1]
  <2>1. carry[k] # NoBundle
    BY <1>3 DEF HandedOn
  <2>2. PICK j \in 0..(k - 1) : From(b, j, carry[k - 1]) /\ \A m \in j..(k - 1) : carry[m] = carry[k - 1]
    BY <1>7, <1>8, <2>1 DEF HandedOn
  <2>3. j \in 0..k /\ From(b, j, carry[k]) /\ \A m \in j..k : carry[m] = carry[k]
    BY <1>6, <1>8, <2>2
  <2> QED BY <1>3, <1>7, <1>8, <2>1, <2>3 DEF HandedOn
<1>9. CASE carry[k] # carry[k - 1]
  <2>1. /\ carry[k - 1] # NoBundle /\ carry[k] # NoBundle /\ slots[k].channel = ChannelOf[b]
        /\ carry[k] \in slots[k].bundles /\ Priority[carry[k - 1]] > Priority[carry[k]]
    BY <1>3, <1>4, <1>6, <1>9, Turn DEF HandedOn
  <2>2. carry[k] \in Bundles /\ carry[k - 1] \in Bundles /\ ChannelOf[carry[k]] = ChannelOf[b]
    BY <1>0, <1>6, <1>7, <2>1, SlotsType DEF SlotsPartitionBundles, HandedOn
  <2>3. Priority[carry[k]] < Priority[b]
    <3>1. /\ Priority[carry[k]] \in Nat /\ Priority[carry[k - 1]] \in Nat /\ Priority[b] \in Nat
      BY <2>2, PriorityAssumption
    <3>2. carry[k - 1] = b \/ Priority[carry[k - 1]] < Priority[b]
      BY <1>7, <2>1 DEF HandedOn
    <3> QED BY <2>1, <3>1, <3>2
  <2>4. From(b, k, carry[k]) /\ \A m \in k..k : carry[m] = carry[k]
    BY <1>6, <2>1 DEF From
  <2>5. k \in 0..k
    BY <1>6
  <2> QED BY <1>3, <2>2, <2>3, <2>4, <2>5 DEF HandedOn
<1> QED BY <1>8, <1>9

(* Whoever is handed on finds a place further down, or is left over. *)
LEMMA HandedOnIsPlaced ==
    ASSUME MempoolTypeOK, NEW b \in Bundles, NEW carry \in Carries(b), Cascade(b, carry),
           NEW k \in 0..Len(slots), carry[k] # NoBundle
    PROVE  \/ carry[Len(slots)] = carry[k]
           \/ \E m \in 1..Len(slots) : m > k /\ carry[k] \in Cascaded(carry)[m].bundles
<1> DEFINE T == {m \in 0..Len(slots) : m > k /\ carry[m] # carry[k]}
<1>0. Len(slots) \in Nat /\ DOMAIN slots = 1..Len(slots)
  BY SlotsType
<1>1. CASE T = {}
  <2>1. Len(slots) \notin T /\ Len(slots) \in 0..Len(slots)
    BY <1>0, <1>1
  <2>2. CASE k = Len(slots)
    BY <2>2
  <2>3. CASE k # Len(slots)
    <3>0. Len(slots) \in Nat /\ k \in 0..Len(slots)
      BY <1>0
    <3>1. Len(slots) > k
      BY <2>3, <3>0
    <3>2. carry[Len(slots)] = carry[k]
      BY <2>1, <3>1
    <3> QED BY <3>2
  <2> QED BY <2>2, <2>3
<1>2. CASE T # {}
  <2>1. PICK m \in T : \A y \in T : m <= y
    <3>1. T \in SUBSET Nat
      BY <1>0
    <3> HIDE DEF T
    <3> QED BY <1>2, <3>1, LeastNatural
  <2>2. m \in 1..Len(slots) /\ m > k /\ carry[m] # carry[k] /\ m - 1 \in 0..Len(slots)
    BY <1>0, <2>1
  <2>3. carry[m - 1] = carry[k]
    BY <1>0, <2>1, <2>2
  <2>4. Cascaded(carry)[m] = SlotAfter(slots[m], carry[m - 1], carry[m])
    BY <2>2 DEF Cascaded
  <2>5. slots[m] \in Slot
    BY <1>0, <2>2, SlotsType
  <2>6. carry[k] \in Cascaded(carry)[m].bundles
    BY <2>2, <2>3, <2>4, <2>5 DEF SlotAfter, Slot
  <2> QED BY <2>2, <2>6
<1> QED BY <1>1, <1>2

(* What the cascade does to a slot. *)
LEMMA SlotCascades ==
    ASSUME MempoolTypeOK, NEW b \in Bundles, NEW carry \in Carries(b), Cascade(b, carry),
           NEW i \in 1..Len(slots)
    PROVE  LET new == Cascaded(carry)[i] IN
           /\ new.channel = slots[i].channel
           /\ \A x \in new.bundles : x \in slots[i].bundles \/ (x = carry[i - 1] /\ carry[i] # x)
           /\ \A x \in slots[i].bundles : x \in new.bundles \/ (x = carry[i] /\ carry[i - 1] # x)
           /\ carry[i - 1] = carry[i] => new = slots[i]
           /\ carry[i - 1] # carry[i] =>
                /\ slots[i].channel = ChannelOf[b] /\ carry[i - 1] # NoBundle
                /\ carry[i - 1] \in new.bundles
                /\ \A x \in new.bundles : x # carry[i]
                /\ carry[i] # NoBundle => Priority[carry[i - 1]] > Priority[carry[i]]
<1>1. slots[i] \in Slot
  BY SlotsType
<1>2. Cascaded(carry)[i] = SlotAfter(slots[i], carry[i - 1], carry[i])
  BY DEF Cascaded
<1>3. Handover(slots[i], ChannelOf[b], carry[i - 1], carry[i])
  BY DEF Cascade
<1>4. \/ carry[i] = carry[i - 1]
      \/ /\ carry[i - 1] # NoBundle /\ slots[i].channel = ChannelOf[b]
         /\ \/ carry[i] = NoBundle
            \/ carry[i] \in slots[i].bundles /\ Priority[carry[i - 1]] > Priority[carry[i]]
  BY <1>3, Turn
<1>5. CASE carry[i] = carry[i - 1]
  <2>1. Cascaded(carry)[i] = slots[i]
    BY <1>2, <1>5 DEF SlotAfter
  <2> QED BY <1>5, <2>1
<1>6. CASE carry[i] # carry[i - 1]
  <2>1. Cascaded(carry)[i] = [slots[i] EXCEPT !.bundles = (@ \ {carry[i]}) \cup {carry[i - 1]}]
    BY <1>2, <1>6 DEF SlotAfter
  <2>2. /\ Cascaded(carry)[i].channel = slots[i].channel
        /\ Cascaded(carry)[i].bundles = (slots[i].bundles \ {carry[i]}) \cup {carry[i - 1]}
    BY <1>1, <2>1 DEF Slot
  <2> QED BY <1>4, <1>6, <2>2
<1> QED BY <1>5, <1>6

(* No two places of the queue, and the place of the new bundle, share one. *)
LEMMA FromOnePlace ==
    ASSUME MempoolTypeOK, SlotsPartitionBundles, NEW b \in Bundles, b \notin Queued,
           NEW x, NEW i \in 0..Len(slots), NEW j \in 0..Len(slots),
           From(b, i, x), From(b, j, x)
    PROVE  i = j
<1>0. Len(slots) \in Nat /\ DOMAIN slots = 1..Len(slots)
  BY SlotsType
<1>1. \A k \in 1..Len(slots) : b \notin slots[k].bundles
  BY <1>0 DEF Queued
<1> QED BY <1>0, <1>1 DEF From, SlotsPartitionBundles

(* The cascade keeps the partition. *)
LEMMA CascadedPartition ==
    ASSUME MempoolTypeOK, SlotsPartitionBundles, NoEmptySlot, NEW b \in Bundles, b \notin Queued,
           NEW carry \in Carries(b), Cascade(b, carry)
    PROVE  LET new == Cascaded(carry) IN
           /\ \A i, j \in 1..Len(slots) : i # j => new[i].bundles \cap new[j].bundles = {}
           /\ \A i \in 1..Len(slots) : \A x \in new[i].bundles : ChannelOf[x] = new[i].channel
           /\ \A i \in 1..Len(slots) : new[i].bundles # {}
           /\ carry[Len(slots)] # NoBundle =>
                \A i \in 1..Len(slots) : carry[Len(slots)] \notin new[i].bundles
<1> DEFINE new == Cascaded(carry)
           n == Len(slots)
<1>0. n \in Nat /\ DOMAIN slots = 1..n
  BY SlotsType
<1>1. \A k \in 0..n : HandedOn(b, carry, k)
  BY CascadeHandsOn
(* A bundle of a slot that is handed on later is the one the slot lost. *)
<1>2. ASSUME NEW i \in 1..n, NEW k \in 0..n, i <= k, carry[k] # NoBundle, carry[k] \in slots[i].bundles
      PROVE  carry[i] = carry[k]
  <2>1. PICK j \in 0..k : From(b, j, carry[k]) /\ \A m \in j..k : carry[m] = carry[k]
    BY <1>1, <1>2 DEF HandedOn
  <2>2. From(b, i, carry[k]) /\ i \in 0..n /\ j \in 0..n
    BY <1>0, <1>2 DEF From
  <2>3. i = j
    BY <2>1, <2>2, FromOnePlace
  <2> QED BY <1>2, <2>1, <2>3
(* A slot is never handed one of its own, nor one of a slot behind it. *)
<1>3. ASSUME NEW i \in 1..n, NEW k \in 0..n, k < i, carry[k] # NoBundle
      PROVE  carry[k] \notin slots[i].bundles
  <2>1. PICK j \in 0..k : From(b, j, carry[k])
    BY <1>1, <1>3 DEF HandedOn
  <2>2. SUFFICES ASSUME carry[k] \in slots[i].bundles PROVE FALSE
    OBVIOUS
  <2>3. From(b, i, carry[k]) /\ i \in 0..n /\ j \in 0..n
    BY <1>0, <2>2 DEF From
  <2>4. i = j
    BY <2>1, <2>3, FromOnePlace
  <2> QED BY <1>0, <1>3, <2>4
(* Once a bundle has found its place it is not handed on again. *)
<1>4. ASSUME NEW k \in 0..n, NEW l \in 0..n, NEW m \in 0..n, k < m, m <= l, carry[k] # NoBundle,
             carry[k] = carry[l]
      PROVE  carry[m] = carry[k]
  <2>1. PICK j \in 0..l : From(b, j, carry[l]) /\ \A p \in j..l : carry[p] = carry[l]
    BY <1>1, <1>4 DEF HandedOn
  <2>2. PICK h \in 0..k : From(b, h, carry[k])
    BY <1>1, <1>4 DEF HandedOn
  <2>3. h = j
    BY <1>0, <1>4, <2>1, <2>2, FromOnePlace
  <2> QED BY <1>0, <1>4, <2>1, <2>2, <2>3
<1>5. ASSUME NEW i \in 1..n
      PROVE  /\ i \in 0..n /\ i - 1 \in 0..n
             /\ \A x \in new[i].bundles : x \in slots[i].bundles \/ (x = carry[i - 1] /\ carry[i] # x)
             /\ new[i].channel = slots[i].channel
             /\ carry[i - 1] = carry[i] => new[i] = slots[i]
             /\ carry[i - 1] # carry[i] =>
                  /\ slots[i].channel = ChannelOf[b] /\ carry[i - 1] # NoBundle
                  /\ carry[i - 1] \in new[i].bundles
                  /\ \A x \in new[i].bundles : x # carry[i]
  BY <1>0, SlotCascades
<1> HIDE DEF new
<1>6. ASSUME NEW i \in 1..n, NEW j \in 1..n, i < j, NEW x, x \in new[i].bundles, x \in new[j].bundles
      PROVE  FALSE
  <2>0. x # NoBundle
    <3>1. \A k \in 1..n : NoBundle \notin slots[k].bundles
      BY <1>0, SlotsType, BundlesAssumption
    <3> QED BY <1>5, <1>6, <3>1
  <2>1. CASE x \in slots[i].bundles /\ x \in slots[j].bundles
    BY <1>0, <1>6, <2>1 DEF SlotsPartitionBundles
  <2>2. CASE x = carry[i - 1] /\ carry[i] # x /\ x \in slots[j].bundles
    <3>1. i - 1 \in 0..n /\ i - 1 < j
      BY <1>0, <1>6
    <3> QED BY <1>3, <2>0, <2>2, <3>1
  <2>3. CASE x \in slots[i].bundles /\ x = carry[j - 1] /\ carry[j] # x
    <3>1. j - 1 \in 0..n /\ i <= j - 1
      BY <1>0, <1>6
    <3>2. carry[i] = x
      BY <1>2, <2>0, <2>3, <3>1
    <3>3. carry[i - 1] # carry[i]
      <4>1. i - 1 \in 0..n /\ i - 1 < i
        BY <1>0
      <4> QED BY <1>3, <2>0, <2>3, <3>2, <4>1
    <3> QED BY <1>5, <1>6, <3>2, <3>3
  <2>4. CASE x = carry[i - 1] /\ carry[i] # x /\ x = carry[j - 1]
    <3>1. i - 1 \in 0..n /\ j - 1 \in 0..n /\ i \in 0..n /\ i - 1 < i /\ i <= j - 1
      BY <1>0, <1>6
    <3> QED BY <1>4, <2>0, <2>4, <3>1
  <2> QED BY <1>5, <1>6, <2>1, <2>2, <2>3, <2>4
<1>7. \A i, j \in 1..n : i # j => new[i].bundles \cap new[j].bundles = {}
  <2>1. ASSUME NEW i \in 1..n, NEW j \in 1..n, i # j, NEW x \in new[i].bundles, x \in new[j].bundles
        PROVE  FALSE
    <3>1. i < j \/ j < i
      BY <1>0, <2>1
    <3> QED BY <1>6, <2>1, <3>1
  <2> QED BY <2>1
<1>8. ASSUME NEW i \in 1..n, NEW x \in new[i].bundles
      PROVE  ChannelOf[x] = new[i].channel
  <2>1. CASE x \in slots[i].bundles
    BY <1>0, <1>5, <2>1 DEF SlotsPartitionBundles
  <2>2. CASE x = carry[i - 1] /\ carry[i] # x
    BY <1>1, <1>5, <2>2 DEF HandedOn
  <2> QED BY <1>5, <2>1, <2>2
<1>9. ASSUME NEW i \in 1..n
      PROVE  new[i].bundles # {}
  BY <1>0, <1>5 DEF NoEmptySlot
<1>10. ASSUME carry[n] # NoBundle, NEW i \in 1..n, carry[n] \in new[i].bundles
       PROVE  FALSE
  <2>0. n \in 0..n /\ i <= n
    BY <1>0
  <2>1. CASE carry[n] \in slots[i].bundles
    <3>1. carry[i] = carry[n]
      BY <1>2, <1>10, <2>0, <2>1
    <3>2. carry[i - 1] # carry[i]
      <4>1. i - 1 \in 0..n /\ i - 1 < i
        BY <1>0
      <4> QED BY <1>3, <1>10, <2>1, <3>1, <4>1
    <3> QED BY <1>5, <1>10, <3>1, <3>2
  <2>2. CASE carry[n] = carry[i - 1] /\ carry[i] # carry[n]
    <3>1. i - 1 \in 0..n /\ i \in 0..n /\ i - 1 < i /\ i <= n
      BY <1>0
    <3> QED BY <1>4, <1>10, <2>0, <2>2, <3>1
  <2> QED BY <1>5, <1>10, <2>1, <2>2
<1> QED BY <1>7, <1>8, <1>9, <1>10 DEF new

(* The queue that is well formed: what the theorems below are about. *)
QueueInv == MempoolTypeOK /\ SlotsPartitionBundles /\ NoEmptySlot

LEMMA QueueUnchanged ==
    ASSUME QueueInv, UNCHANGED slots
    PROVE  QueueInv' /\ Queued' = Queued
BY DEF QueueInv, MempoolTypeOK, SlotsPartitionBundles, NoEmptySlot, Queued

(* The outcome of the cascade when nobody is left over, or the one left over
   is not placed. *)
LEMMA CascadedQueue ==
    ASSUME QueueInv, NEW b \in Bundles, b \notin Queued,
           NEW carry \in Carries(b), Cascade(b, carry), slots' = Cascaded(carry)
    PROVE  /\ QueueInv'
           /\ \A x \in Queued' : x \in Queued \cup {b} /\ x # carry[Len(slots)]
           /\ \A x \in Queued \cup {b} : x \in Queued' \/ x = carry[Len(slots)]
<1> DEFINE n == Len(slots)
<1>0. n \in Nat /\ DOMAIN slots = 1..n /\ \A i \in 1..n : slots[i].bundles \subseteq Bundles
  BY SlotsType DEF QueueInv
<1>1. slots' \in Seq(Slot) /\ Len(slots') = n
  BY CascadedType DEF QueueInv
<1>2. DOMAIN slots' = 1..n
  BY <1>1
<1>3. /\ \A i, j \in 1..n : i # j => slots'[i].bundles \cap slots'[j].bundles = {}
      /\ \A i \in 1..n : \A x \in slots'[i].bundles : ChannelOf[x] = slots'[i].channel
      /\ \A i \in 1..n : slots'[i].bundles # {}
      /\ carry[n] # NoBundle => \A i \in 1..n : carry[n] \notin slots'[i].bundles
  BY CascadedPartition DEF QueueInv
<1>4. QueueInv'
  BY <1>1, <1>2, <1>3 DEF QueueInv, MempoolTypeOK, SlotsPartitionBundles, NoEmptySlot
<1>5. ASSUME NEW x \in Queued'
      PROVE  x \in Queued \cup {b} /\ x # carry[n]
  <2>1. PICK i \in 1..n : x \in slots'[i].bundles
    BY <1>2, Zenon DEF Queued
  <2>2. x \in slots[i].bundles \/ (x = carry[i - 1] /\ carry[i] # x)
    BY <2>1, SlotCascades DEF QueueInv
  <2>3. x \in Bundles
    <3>1. slots'[i] \in Slot
      BY <1>1
    <3> QED BY <2>1, <3>1 DEF Slot
  <2>4. x # carry[n]
    BY <1>3, <2>1, <2>3, BundlesAssumption
  <2>5. i - 1 \in 0..n
    BY <1>0
  <2>6. carry[i - 1] \in Queued \cup {b, NoBundle}
    BY <2>5 DEF Carries
  <2>7. x \in slots[i].bundles => x \in Queued
    BY <1>0 DEF Queued
  <2> QED BY <2>2, <2>3, <2>4, <2>6, <2>7, BundlesAssumption
<1>6. ASSUME NEW k \in 0..n, carry[k] # NoBundle
      PROVE  carry[k] \in Queued' \/ carry[k] = carry[n]
  <2>1. \/ carry[n] = carry[k]
        \/ \E m \in 1..n : m > k /\ carry[k] \in slots'[m].bundles
    BY <1>6, HandedOnIsPlaced DEF QueueInv
  <2> QED BY <1>2, <2>1 DEF Queued
<1>7. ASSUME NEW x \in Queued \cup {b}
      PROVE  x \in Queued' \/ x = carry[n]
  <2>1. CASE x = b
    <3>1. carry[0] = b /\ 0 \in 0..n /\ b # NoBundle
      BY <1>0, BundlesAssumption DEF Cascade
    <3> QED BY <1>6, <2>1, <3>1
  <2>2. CASE x \in Queued
    <3>1. PICK i \in 1..n : x \in slots[i].bundles
      BY <1>0, <2>2, Zenon DEF Queued
    <3>2. x \in slots'[i].bundles \/ x = carry[i]
      BY <3>1, SlotCascades DEF QueueInv
    <3>3. x # NoBundle /\ i \in 0..n
      BY <1>0, <3>1, BundlesAssumption
    <3>4. CASE x \in slots'[i].bundles
      BY <1>2, <3>4 DEF Queued
    <3>5. CASE x = carry[i]
      BY <1>6, <3>3, <3>5
    <3> QED BY <3>2, <3>4, <3>5
  <2> QED BY <2>1, <2>2
<1> QED BY <1>4, <1>5, <1>7

LEMMA AppendOne ==
    ASSUME NEW S, NEW s \in Seq(S), NEW e \in S
    PROVE  /\ Append(s, e) \in Seq(S)
           /\ DOMAIN Append(s, e) = 1..(Len(s) + 1)
           /\ \A i \in 1..Len(s) : Append(s, e)[i] = s[i]
           /\ Append(s, e)[Len(s) + 1] = e
<1>1. Append(s, e) \in Seq(S)
  OBVIOUS
<1>2. Len(Append(s, e)) = Len(s) + 1
  OBVIOUS
<1>3. DOMAIN Append(s, e) = 1..(Len(s) + 1)
  BY <1>1, <1>2
<1>4. \A i \in 1..Len(s) : Append(s, e)[i] = s[i]
  OBVIOUS
<1>5. Append(s, e)[Len(s) + 1] = e
  OBVIOUS
<1> QED BY <1>1, <1>3, <1>4, <1>5

(* addBundle with the new slot appended for the one that is left over. *)
LEMMA AppendedQueue ==
    ASSUME QueueInv, NEW b \in Bundles, b \notin Queued,
           NEW carry \in Carries(b), Cascade(b, carry), carry[Len(slots)] # NoBundle,
           slots' = Append(Cascaded(carry), [channel |-> ChannelOf[b],
                                             bundles |-> {carry[Len(slots)]}])
    PROVE  /\ QueueInv'
           /\ Queued' = Queued \cup {b}
           /\ DOMAIN slots' = 1..(Len(slots) + 1)
           /\ \A i \in 1..Len(slots) : slots'[i] = Cascaded(carry)[i]
           /\ slots'[Len(slots) + 1].bundles = {carry[Len(slots)]}
<1> DEFINE n == Len(slots)
           new == Cascaded(carry)
           left == carry[n]
           last == [channel |-> ChannelOf[b], bundles |-> {left}]
<1>0. n \in Nat /\ DOMAIN slots = 1..n /\ \A i \in 1..n : slots[i].bundles \subseteq Bundles
  BY SlotsType DEF QueueInv
<1>1. new \in Seq(Slot) /\ Len(new) = n
  BY CascadedType DEF QueueInv
<1>2. left \in Bundles /\ ChannelOf[left] = ChannelOf[b]
  <2>1. HandedOn(b, carry, n)
    BY <1>0, CascadeHandsOn DEF QueueInv
  <2> QED BY <2>1 DEF HandedOn
<1>3. last \in Slot
  BY <1>2, ChannelOfAssumption DEF Slot
<1>4. /\ DOMAIN slots' = 1..(n + 1) /\ slots' \in Seq(Slot)
      /\ \A i \in 1..n : slots'[i] = new[i]
      /\ slots'[n + 1] = last
  BY <1>1, <1>3, AppendOne
<1>5. /\ \A i, j \in 1..n : i # j => new[i].bundles \cap new[j].bundles = {}
      /\ \A i \in 1..n : \A x \in new[i].bundles : ChannelOf[x] = new[i].channel
      /\ \A i \in 1..n : new[i].bundles # {}
      /\ \A i \in 1..n : left \notin new[i].bundles
  BY CascadedPartition DEF QueueInv
<1>6. slots'[n + 1].bundles = {left} /\ slots'[n + 1].channel = ChannelOf[b]
  BY <1>4
<1>7. \A i \in 1..(n + 1) : i \in 1..n \/ i = n + 1
  BY <1>0
<1>8. \A x : x \in Queued' <=> x = left \/ \E i \in 1..n : x \in new[i].bundles
  <2>1. n + 1 \in 1..(n + 1) /\ 1..n \subseteq 1..(n + 1)
    BY <1>0
  <2>2. \A x : x \in Queued' <=> \E i \in 1..(n + 1) : x \in slots'[i].bundles
    BY <1>4, Zenon DEF Queued
  <2> HIDE DEF new
  <2> QED BY <1>4, <1>6, <1>7, <2>1, <2>2
<1> HIDE DEF new, left, last
<1>9. QueueInv'
  <2>1. SlotsPartitionBundles'
    <3>1. ASSUME NEW i \in 1..(n + 1), NEW j \in 1..(n + 1), i # j
          PROVE  slots'[i].bundles \cap slots'[j].bundles = {}
      <4>1. CASE i \in 1..n /\ j \in 1..n
        BY <1>4, <1>5, <3>1, <4>1
      <4>2. CASE i \in 1..n /\ j = n + 1
        BY <1>4, <1>5, <1>6, <4>2
      <4>3. CASE i = n + 1 /\ j \in 1..n
        BY <1>4, <1>5, <1>6, <4>3
      <4> QED BY <1>7, <3>1, <4>1, <4>2, <4>3
    <3>2. ASSUME NEW i \in 1..(n + 1), NEW x \in slots'[i].bundles
          PROVE  ChannelOf[x] = slots'[i].channel
      BY <1>2, <1>4, <1>5, <1>6, <1>7, <3>2
    <3> QED BY <1>4, <3>1, <3>2 DEF SlotsPartitionBundles
  <2>2. NoEmptySlot'
    BY <1>4, <1>5, <1>6, <1>7 DEF NoEmptySlot
  <2> QED BY <1>4, <2>1, <2>2 DEF QueueInv, MempoolTypeOK
<1>10. ASSUME NEW x PROVE x \in Queued' <=> x \in Queued \cup {b}
  <2>1. ASSUME NEW i \in 1..n, NEW y \in new[i].bundles PROVE y \in Queued \cup {b}
    <3>1. y \in slots[i].bundles \/ (y = carry[i - 1] /\ carry[i] # y)
      BY <2>1, SlotCascades DEF QueueInv, new
    <3>2. y \in Bundles
      <4>1. new[i] \in Slot
        BY <1>1
      <4> QED BY <2>1, <4>1 DEF Slot
    <3>3. i - 1 \in 0..n
      BY <1>0
    <3>4. carry[i - 1] \in Queued \cup {b, NoBundle}
      BY <3>3 DEF Carries
    <3>5. y \in slots[i].bundles => y \in Queued
      BY <1>0 DEF Queued
    <3> QED BY <3>1, <3>2, <3>4, <3>5, BundlesAssumption
  <2>2. left \in Queued \cup {b}
    <3>1. left \in Queued \cup {b, NoBundle}
      BY <1>0 DEF Carries, left
    <3> QED BY <3>1, <1>2, BundlesAssumption
  <2>3. ASSUME NEW k \in 0..n, carry[k] # NoBundle
        PROVE  carry[k] = left \/ \E m \in 1..n : carry[k] \in new[m].bundles
    BY <2>3, HandedOnIsPlaced DEF QueueInv, new, left
  <2>4. b = left \/ \E m \in 1..n : b \in new[m].bundles
    <3>1. carry[0] = b /\ 0 \in 0..n /\ b # NoBundle
      BY <1>0, BundlesAssumption DEF Cascade
    <3> QED BY <2>3, <3>1
  <2>5. ASSUME NEW y \in Queued
        PROVE  y = left \/ \E m \in 1..n : y \in new[m].bundles
    <3>1. PICK i \in 1..n : y \in slots[i].bundles
      BY <1>0, <2>5, Zenon DEF Queued
    <3>2. y \in new[i].bundles \/ y = carry[i]
      BY <3>1, SlotCascades DEF QueueInv, new
    <3>3. y # NoBundle /\ i \in 0..n
      BY <1>0, <3>1, BundlesAssumption
    <3> QED BY <2>3, <3>2, <3>3
  <2> QED BY <1>8, <2>1, <2>2, <2>4, <2>5
<1> QED BY <1>4, <1>6, <1>9, <1>10 DEF new, left

LEMMA PlaceBundleQueue ==
    ASSUME QueueInv, NEW b \in Bundles, b \notin Queued, PlaceBundle(b)
    PROVE  QueueInv' /\ Queued' = Queued \cup {b}
<1>1. PICK carry \in Carries(b) :
        /\ Cascade(b, carry)
        /\ \/ carry[Len(slots)] = NoBundle /\ slots' = Cascaded(carry)
           \/ /\ carry[Len(slots)] # NoBundle
              /\ slots' = Append(Cascaded(carry), [channel |-> ChannelOf[b],
                                                   bundles |-> {carry[Len(slots)]}])
  BY DEF PlaceBundle
<1>2. CASE carry[Len(slots)] # NoBundle
  BY <1>1, <1>2, AppendedQueue
<1>3. CASE carry[Len(slots)] = NoBundle
  <2>1. /\ QueueInv'
        /\ \A x \in Queued' : x \in Queued \cup {b}
        /\ \A x \in Queued \cup {b} : x \in Queued' \/ x = NoBundle
    BY <1>1, <1>3, CascadedQueue
  <2>2. Queued \cup {b} \subseteq Bundles
    BY SlotsType, Zenon DEF Queued, QueueInv
  <2> QED BY <2>1, <2>2, BundlesAssumption
<1> QED BY <1>2, <1>3

(* SLOT_FULL: everybody but the one left over keeps a place. *)
LEMMA PlaceBundleSlotFullQueue ==
    ASSUME QueueInv, NEW b \in Bundles, b \notin Queued, PlaceBundleSlotFull(b)
    PROVE  QueueInv' /\ Queued' \subseteq Queued \cup {b}
<1>1. PICK carry \in Carries(b) : Cascade(b, carry) /\ slots' = Cascaded(carry)
  BY DEF PlaceBundleSlotFull
<1> QED BY <1>1, CascadedQueue

LEMMA RemoveFirstSlotQueue ==
    ASSUME QueueInv, RemoveFirstSlot
    PROVE  /\ QueueInv'
           /\ slots[1].bundles \subseteq Queued /\ slots[1].bundles # {}
           /\ Queued' = Queued \ slots[1].bundles
<1> DEFINE n == Len(slots)
<1>0. n \in Nat /\ DOMAIN slots = 1..n
  BY SlotsType DEF QueueInv
<1>1. n >= 1 /\ 1 \in 1..n
  BY <1>0 DEF QueueInv, MempoolTypeOK, RemoveFirstSlot
<1>2. /\ slots' \in Seq(Slot) /\ Len(slots') = n - 1 /\ DOMAIN slots' = 1..(n - 1)
      /\ \A i \in 1..(n - 1) : i + 1 \in 1..n /\ i + 1 # 1 /\ slots'[i] = slots[i + 1]
  BY <1>1 DEF QueueInv, MempoolTypeOK, RemoveFirstSlot
<1>3. SlotsPartitionBundles'
  <2>1. \A i, j \in 1..(n - 1) : i # j => i + 1 # j + 1
    OBVIOUS
  <2> QED BY <1>0, <1>2, <2>1 DEF QueueInv, SlotsPartitionBundles
<1>4. NoEmptySlot'
  BY <1>0, <1>2 DEF QueueInv, NoEmptySlot
<1>5. \A x : x \in Queued <=> \E i \in 1..n : x \in slots[i].bundles
  BY <1>0, Zenon DEF Queued
<1>6. \A x : x \in Queued' <=> \E i \in 1..(n - 1) : x \in slots'[i].bundles
  BY <1>2, Zenon DEF Queued
<1>7. \A i \in 1..n : i # 1 => i - 1 \in 1..(n - 1) /\ (i - 1) + 1 = i
  BY <1>0
<1>8. \A i \in 1..n : i # 1 => slots[i].bundles \cap slots[1].bundles = {}
  BY <1>0, <1>1 DEF QueueInv, SlotsPartitionBundles
<1>9. ASSUME NEW x PROVE x \in Queued' <=> x \in Queued /\ x \notin slots[1].bundles
  <2>1. ASSUME x \in Queued' PROVE x \in Queued /\ x \notin slots[1].bundles
    <3>1. PICK i \in 1..(n - 1) : x \in slots'[i].bundles
      BY <1>6, <2>1
    <3>2. i + 1 \in 1..n /\ i + 1 # 1 /\ x \in slots[i + 1].bundles
      BY <1>2, <3>1
    <3> QED BY <1>5, <1>8, <3>2
  <2>2. ASSUME x \in Queued, x \notin slots[1].bundles PROVE x \in Queued'
    <3>1. PICK i \in 1..n : x \in slots[i].bundles
      BY <1>5, <2>2
    <3>2. i - 1 \in 1..(n - 1) /\ slots'[i - 1] = slots[i]
      BY <1>2, <1>7, <2>2, <3>1
    <3> QED BY <1>6, <3>1, <3>2
  <2> QED BY <2>1, <2>2
<1>10. slots[1].bundles \subseteq Queued /\ slots[1].bundles # {}
  BY <1>0, <1>1, <1>5 DEF QueueInv, NoEmptySlot
<1>11. Queued' = Queued \ slots[1].bundles
  BY <1>9
<1> QED BY <1>2, <1>3, <1>4, <1>10, <1>11 DEF QueueInv, MempoolTypeOK

LEMMA EvictBundlesQueue ==
    ASSUME QueueInv, NEW S, EvictBundles(S)
    PROVE  QueueInv' /\ Queued' \subseteq Queued \ S
<1> DEFINE R == Remaining(S)
           n == Cardinality(R)
<1>1. PICK order \in [1..n -> R] :
        /\ \A i, j \in DOMAIN order : i < j => order[i] < order[j]
        /\ slots' = [i \in DOMAIN order |-> [slots[order[i]] EXCEPT !.bundles = @ \ S]]
  BY DEF EvictBundles
<1>2. MempoolTypeOK'
  BY EvictBundlesType DEF QueueInv
<1>3. DOMAIN slots' = 1..n /\ DOMAIN order = 1..n
  BY <1>1
<1>4. /\ \A i \in DOMAIN slots : slots[i] \in Slot
      /\ DOMAIN slots = 1..Len(slots) /\ Len(slots) \in Nat
  BY SlotsType DEF QueueInv
<1>5. \A j \in R : j \in DOMAIN slots /\ ~(slots[j].bundles \subseteq S)
  BY DEF Remaining
<1>6. ASSUME NEW i \in 1..n
      PROVE  /\ order[i] \in DOMAIN slots /\ ~(slots[order[i]].bundles \subseteq S)
             /\ slots'[i].bundles = slots[order[i]].bundles \ S
             /\ slots'[i].channel = slots[order[i]].channel
  <2>1. order[i] \in R
    OBVIOUS
  <2>2. slots[order[i]] \in Slot
    BY <1>4, <1>5, <2>1
  <2>3. slots'[i] = [slots[order[i]] EXCEPT !.bundles = @ \ S]
    BY <1>1, <1>3
  <2> QED BY <1>5, <2>1, <2>2, <2>3 DEF Slot
<1>7. ASSUME NEW i \in 1..n, NEW j \in 1..n, i # j
      PROVE  order[i] # order[j]
  <2>1. order[i] \in Nat /\ order[j] \in Nat
    BY <1>4, <1>6
  <2>2. i < j \/ j < i
    BY <1>7
  <2>3. (i < j => order[i] < order[j]) /\ (j < i => order[j] < order[i])
    BY <1>1, <1>3
  <2> QED BY <2>1, <2>2, <2>3
<1>8. SlotsPartitionBundles'
  <2>1. ASSUME NEW i \in 1..n, NEW j \in 1..n, i # j
        PROVE  slots'[i].bundles \cap slots'[j].bundles = {}
    <3>1. slots[order[i]].bundles \cap slots[order[j]].bundles = {}
      BY <1>6, <1>7, <2>1 DEF QueueInv, SlotsPartitionBundles
    <3> QED BY <1>6, <3>1
  <2>2. ASSUME NEW i \in 1..n, NEW x \in slots'[i].bundles
        PROVE  ChannelOf[x] = slots'[i].channel
    <3>1. x \in slots[order[i]].bundles /\ order[i] \in DOMAIN slots
      BY <1>6, <2>2
    <3> QED BY <1>6, <3>1 DEF QueueInv, SlotsPartitionBundles
  <2> QED BY <1>3, <2>1, <2>2 DEF SlotsPartitionBundles
<1>9. NoEmptySlot'
  BY <1>3, <1>6 DEF NoEmptySlot
<1>10. Queued' \subseteq Queued \ S
  <2>1. SUFFICES ASSUME NEW x \in Queued' PROVE x \in Queued /\ x \notin S
    OBVIOUS
  <2>2. PICK i \in 1..n : x \in slots'[i].bundles
    BY <1>3, <2>1, Zenon DEF Queued
  <2>3. x \in slots[order[i]].bundles /\ x \notin S /\ order[i] \in DOMAIN slots
    BY <1>6, <2>2
  <2> QED BY <2>3 DEF Queued
<1> QED BY <1>2, <1>8, <1>9, <1>10 DEF QueueInv

LEMMA QueueInitial == MempoolInit => QueueInv /\ Queued = {}
<1> SUFFICES ASSUME MempoolInit PROVE QueueInv /\ Queued = {}
  OBVIOUS
<1>1. slots = <<>> /\ slots \in Seq(Slot) /\ DOMAIN slots = {}
  BY DEF MempoolInit
<1> QED BY <1>1 DEF QueueInv, MempoolTypeOK, SlotsPartitionBundles, NoEmptySlot, Queued

LEMMA QueueStep == QueueInv /\ [MempoolNext]_slots => QueueInv'
<1> SUFFICES ASSUME QueueInv, [MempoolNext]_slots PROVE QueueInv'
  OBVIOUS
<1>1. ASSUME NEW b \in Bundles, AddBundle(b) PROVE QueueInv'
  BY <1>1, PlaceBundleQueue DEF AddBundle
<1>2. ASSUME NEW b \in Bundles, AddBundleSlotFull(b) PROVE QueueInv'
  BY <1>2, PlaceBundleSlotFullQueue DEF AddBundleSlotFull
<1>3. CASE RemoveFirstSlot
  BY <1>3, RemoveFirstSlotQueue
<1>4. ASSUME NEW S \in SUBSET Bundles, ExpireOrPurge(S) PROVE QueueInv'
  BY <1>4, EvictBundlesQueue DEF ExpireOrPurge
<1>5. CASE UNCHANGED slots
  BY <1>5, QueueUnchanged
<1> QED BY <1>1, <1>2, <1>3, <1>4, <1>5 DEF MempoolNext

LEMMA QueueHolds == MempoolSpec => []QueueInv
<1>1. MempoolInit => QueueInv
  BY QueueInitial
<1> QED BY <1>1, QueueStep, PTL DEF MempoolSpec

(* No bundle is in two slots and every bundle is in a slot of its own channel,
   for any number of slots and any length of the replacement cascade of
   addBundle, and through the evictions of the TTL sweep: the executor never
   sends a bundle in two transactions or to a foreign contract because of the
   queue. *)
THEOREM QueueIsPartitioned == MempoolSpec => []SlotsPartitionBundles
<1>1. QueueInv => SlotsPartitionBundles
  BY DEF QueueInv
<1> QED BY <1>1, QueueHolds, PTL

(* The queue never holds an empty slot: addBundle, the replacement cascade and
   purgeBundles leave none behind, so executeNext never wastes an interval. *)
THEOREM SlotsAreNotEmpty == MempoolSpec => []NoEmptySlot
<1>1. QueueInv => NoEmptySlot
  BY DEF QueueInv
<1> QED BY <1>1, QueueHolds, PTL

(* A successful addBundle loses nobody: whoever is displaced by the cascade,
   however long, is queued again further down or in a new slot. *)
THEOREM NothingIsLost == MempoolSpec => AddBundleLosesNothing
<1>1. QueueInv /\ [MempoolNext]_slots =>
        [\A b \in Bundles : AddBundle(b) => Queued' = Queued \cup {b}]_slots
  BY PlaceBundleQueue DEF AddBundle
<1> QED BY <1>1, QueueHolds, PTL DEF MempoolSpec, AddBundleLosesNothing

(* What happens to the occupants of a slot that loses one. *)
LEMMA YieldsDownwards ==
    ASSUME QueueInv, NEW b \in Bundles, b \notin Queued, PlaceBundle(b),
           NEW i \in DOMAIN slots, NEW x \in slots[i].bundles, x \notin slots'[i].bundles
    PROVE  /\ Priority[x] < Priority[b]
           /\ \E j \in DOMAIN slots' : j > i /\ x \in slots'[j].bundles
<1> DEFINE n == Len(slots)
<1>0. n \in Nat /\ DOMAIN slots = 1..n /\ x \in Bundles /\ x # NoBundle
  BY SlotsType, BundlesAssumption DEF QueueInv
<1>1. PICK carry \in Carries(b) :
        /\ Cascade(b, carry)
        /\ \/ carry[n] = NoBundle /\ slots' = Cascaded(carry)
           \/ /\ carry[n] # NoBundle
              /\ slots' = Append(Cascaded(carry), [channel |-> ChannelOf[b],
                                                   bundles |-> {carry[n]}])
  BY DEF PlaceBundle
<1>2. /\ \A k \in 1..n : slots'[k] = Cascaded(carry)[k]
      /\ 1..n \subseteq DOMAIN slots'
      /\ carry[n] # NoBundle => /\ n + 1 \in DOMAIN slots'
                                /\ carry[n] \in slots'[n + 1].bundles
  <2>1. CASE carry[n] # NoBundle
    <3>1. /\ DOMAIN slots' = 1..(n + 1) /\ slots'[n + 1].bundles = {carry[n]}
          /\ \A k \in 1..n : slots'[k] = Cascaded(carry)[k]
      BY <1>1, <2>1, AppendedQueue
    <3>2. n + 1 \in 1..(n + 1) /\ 1..n \subseteq 1..(n + 1)
      BY <1>0
    <3> QED BY <3>1, <3>2
  <2>2. CASE carry[n] = NoBundle
    BY <1>1, <2>2 DEF Cascaded
  <2> QED BY <2>1, <2>2
<1>3. x \notin Cascaded(carry)[i].bundles
  BY <1>0, <1>2
<1>4. x = carry[i] /\ carry[i - 1] # x
  BY <1>0, <1>1, <1>3, SlotCascades DEF QueueInv
<1>5. i \in 0..n /\ n \in 0..n
  BY <1>0
<1>6. Priority[x] < Priority[b]
  <2>1. HandedOn(b, carry, i)
    BY <1>1, <1>5, CascadeHandsOn DEF QueueInv
  <2>2. x # b
    BY <1>0 DEF Queued
  <2> QED BY <1>0, <1>4, <2>1, <2>2 DEF HandedOn
<1>7. \/ carry[n] = carry[i]
      \/ \E m \in 1..n : m > i /\ carry[i] \in Cascaded(carry)[m].bundles
  BY <1>0, <1>1, <1>4, <1>5, HandedOnIsPlaced DEF QueueInv
<1>8. CASE carry[n] = carry[i]
  <2>1. n + 1 \in DOMAIN slots' /\ x \in slots'[n + 1].bundles /\ n + 1 > i
    BY <1>0, <1>2, <1>4, <1>8
  <2> QED BY <1>6, <2>1
<1>9. CASE \E m \in 1..n : m > i /\ carry[i] \in Cascaded(carry)[m].bundles
  BY <1>2, <1>4, <1>6, <1>9
<1> QED BY <1>7, <1>8, <1>9

(* Only bundles of strictly lower priority than the new bundle change slot,
   and they move towards the end of the queue, in every cascade of addBundle. *)
THEOREM PriorityIsRespected == MempoolSpec => OnlyLowerPriorityYields
<1>1. QueueInv /\ [MempoolNext]_slots =>
        [\A b \in Bundles : AddBundle(b) =>
          \A i \in DOMAIN slots : \A x \in slots[i].bundles :
              x \notin slots'[i].bundles =>
                  /\ Priority[x] < Priority[b]
                  /\ \E j \in DOMAIN slots' : j > i /\ x \in slots'[j].bundles]_slots
  BY YieldsDownwards DEF AddBundle
<1> QED BY <1>1, QueueHolds, PTL DEF MempoolSpec, OnlyLowerPriorityYields
=============================================================================
