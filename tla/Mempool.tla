------------------------------ MODULE Mempool ------------------------------
(***************************************************************************)
(* The in-memory bundle queue: classes Slot and Mempool of                 *)
(* core/service/mempool/mempool.process.ts.                                *)
(*                                                                         *)
(* The queue is a sequence of slots.  Every slot is created for one        *)
(* privacy channel and holds bundles of that channel; the executor takes   *)
(* the first slot and turns it into one transaction.  A slot is            *)
(* represented by its SET of bundles: the array the code keeps is that set *)
(* sorted by priority score, and currentWeight is the sum of its weights.  *)
(* A bundle is added at most once while it is queued; BundleLifecycle      *)
(* checks that its callers respect this (SingleCustody).                   *)
(***************************************************************************)
EXTENDS Naturals, Sequences, FiniteSets, FiniteSetsExt

CONSTANTS
    Bundles,    \* bundle identifiers
    NoBundle,   \* null, the result of Slot.add when the bundle fitted
    Channels,   \* privacy-channel contract identifiers
    ChannelOf,  \* SlotBundle.channelContractId
    Weight,     \* SlotBundle.weight
    Priority,   \* SlotBundle.priorityScore, computed when it is built
    Capacity    \* MEMPOOL_SLOT_CAPACITY

ASSUME BundlesAssumption == NoBundle \notin Bundles
ASSUME ChannelOfAssumption == ChannelOf \in [Bundles -> Channels]
ASSUME WeightAssumption == Weight \in [Bundles -> Nat]
ASSUME PriorityAssumption == Priority \in [Bundles -> Nat]
ASSUME CapacityAssumption == Capacity \in Nat

VARIABLE slots

-----------------------------------------------------------------------------
(* Slots *)

Slot == [channel : Channels, bundles : SUBSET Bundles]

CurrentWeight(S) == MapThenSumSet(LAMBDA b : Weight[b], S)

CanFit(b, slot) == CurrentWeight(slot.bundles) + Weight[b] <= Capacity

LowestPriority(slot) ==
    {x \in slot.bundles : \A y \in slot.bundles : Priority[x] <= Priority[y]}

(* Mutant: equal priority is enough to replace an occupant. *)
SlotAddOnTies(slot, in, out) ==
    \/ CanFit(in, slot) /\ out = NoBundle
    \/ /\ ~CanFit(in, slot)
       /\ out \in LowestPriority(slot)
       /\ Priority[in] >= Priority[out]
    \/ /\ ~CanFit(in, slot)
       /\ \A x \in LowestPriority(slot) : Priority[in] < Priority[x]
       /\ out = in

(***************************************************************************)
(* Slot.add: a bundle that fits is kept (result: null); otherwise the      *)
(* occupant of lowest priority gives way to a bundle of strictly higher    *)
(* priority and is the result; otherwise the bundle itself is the result.  *)
(* The capacity is not looked at again after a replacement.                *)
(***************************************************************************)
SlotAdd(slot, in, out) ==
    \/ CanFit(in, slot) /\ out = NoBundle
    \/ /\ ~CanFit(in, slot)
       /\ out \in LowestPriority(slot)
       /\ Priority[in] > Priority[out]
    \/ /\ ~CanFit(in, slot)
       /\ \A x \in LowestPriority(slot) : Priority[in] <= Priority[x]
       /\ out = in

(* Mutant: bundles are offered to the slots of every channel. *)
HandoverAnyChannel(slot, channel, in, out) ==
    IF in = NoBundle THEN out = in ELSE SlotAdd(slot, in, out)

(***************************************************************************)
(* One turn of the loop of Mempool.addBundle: slots of other channels are  *)
(* skipped, and so is every slot once nothing is left to place.            *)
(***************************************************************************)
Handover(slot, channel, in, out) ==
    IF in = NoBundle \/ slot.channel # channel
    THEN out = in
    ELSE SlotAdd(slot, in, out)

SlotAfter(slot, in, out) ==
    IF in = out THEN slot
    ELSE [slot EXCEPT !.bundles = (@ \ {out}) \cup {in}]

Queued == UNION {slots[i].bundles : i \in DOMAIN slots}

-----------------------------------------------------------------------------
(* Operations.  Each is synchronous in the code: addBundle awaits nothing
   between reading the first slot and pushing the last one. *)

MempoolInit == slots = <<>>

(***************************************************************************)
(* The loop of addBundle.  carry[i] is what is left to place after slot i, *)
(* so the last one is what no existing slot took.                          *)
(***************************************************************************)
Carries(b) == [0..Len(slots) -> Queued \cup {b, NoBundle}]

Cascade(b, carry) ==
    /\ carry[0] = b
    /\ \A i \in 1..Len(slots) :
          Handover(slots[i], ChannelOf[b], carry[i - 1], carry[i])

Cascaded(carry) ==
    [i \in 1..Len(slots) |-> SlotAfter(slots[i], carry[i - 1], carry[i])]

(* Mutant: a new slot is created also when nothing is left to place. *)
PlaceBundleAlwaysAppends(b) ==
    \E carry \in Carries(b) :
        /\ Cascade(b, carry)
        /\ slots' = Append(Cascaded(carry), [channel |-> ChannelOf[b],
                                            bundles |-> {carry[Len(slots)]}])

(* Mutant: a bundle that lost its place is dropped. *)
PlaceBundleDropsDisplaced(b) ==
    \E carry \in Carries(b) :
        LET left == carry[Len(slots)] IN
        /\ Cascade(b, carry)
        /\ slots' = IF left = b
                    THEN Append(slots, [channel |-> ChannelOf[b], bundles |-> {b}])
                    ELSE Cascaded(carry)

(* addBundle finds room for everybody: in an existing slot, or in a new
   slot appended for what is left. *)
PlaceBundle(b) ==
    \E carry \in Carries(b) :
        LET left == carry[Len(slots)] IN
        /\ Cascade(b, carry)
        /\ \/ /\ left = NoBundle
              /\ slots' = Cascaded(carry)
           \/ /\ left # NoBundle
              /\ Weight[left] <= Capacity
              /\ slots' = Append(Cascaded(carry),
                                 [channel |-> ChannelOf[b], bundles |-> {left}])

(* addBundle throws SLOT_FULL: what is left is heavier than a whole slot.
   The replacements already made in the loop are not undone. *)
PlaceBundleSlotFull(b) ==
    \E carry \in Carries(b) :
        LET left == carry[Len(slots)] IN
        /\ Cascade(b, carry)
        /\ left # NoBundle
        /\ Weight[left] > Capacity
        /\ slots' = Cascaded(carry)

RemoveFirstSlot ==
    /\ slots # <<>>
    /\ slots' = Tail(slots)

(* Mutant: slots that end up empty stay in the queue. *)
RemainingWithEmpty(S) == DOMAIN slots

(***************************************************************************)
(* purgeBundles and the synchronous part of expireBundles: the bundles     *)
(* leave their slots and slots that end up empty leave the queue, the      *)
(* others keep their order.                                                *)
(***************************************************************************)
Remaining(S) == {i \in DOMAIN slots : ~(slots[i].bundles \subseteq S)}

EvictBundles(S) ==
    \E order \in [1..Cardinality(Remaining(S)) -> Remaining(S)] :
        /\ \A i, j \in DOMAIN order : i < j => order[i] < order[j]
        /\ slots' = [i \in DOMAIN order |->
                        [slots[order[i]] EXCEPT !.bundles = @ \ S]]

-----------------------------------------------------------------------------
(* The queue on its own, driven by callers that never add a queued bundle *)

AddBundle(b) == b \notin Queued /\ PlaceBundle(b)

AddBundleSlotFull(b) == b \notin Queued /\ PlaceBundleSlotFull(b)

ExpireOrPurge(S) ==
    /\ S # {}
    /\ S \subseteq Queued
    /\ EvictBundles(S)

MempoolNext ==
    \/ \E b \in Bundles : AddBundle(b)
    \/ \E b \in Bundles : AddBundleSlotFull(b)
    \/ RemoveFirstSlot
    \/ \E S \in SUBSET Bundles : ExpireOrPurge(S)

MempoolSpec == MempoolInit /\ [][MempoolNext]_slots

-----------------------------------------------------------------------------
(* Properties *)

(* The queue is a sequence of slots (the fields of Slot and Mempool). *)
MempoolTypeOK == slots \in Seq(Slot)

(* No bundle is in two slots and every bundle is in a slot of its own channel,
   however replacements cascade: executeNext builds one transaction per slot
   for the channel of its first bundle, so a bundle queued twice would be
   submitted twice and a bundle in a foreign slot would be sent to the wrong
   contract. *)
SlotsPartitionBundles ==
    /\ \A i, j \in DOMAIN slots :
          i # j => slots[i].bundles \cap slots[j].bundles = {}
    /\ \A i \in DOMAIN slots : \A b \in slots[i].bundles :
          ChannelOf[b] = slots[i].channel

(* The queue holds no empty slot: executeNext returns without executing
   anything when the slot it took is empty, so an empty slot would delay
   every slot behind it by a full executor interval. *)
NoEmptySlot == \A i \in DOMAIN slots : slots[i].bundles # {}

(* When addBundle succeeds, the bundles in the queue are the ones that were
   there and the new one: whoever loses its place in the cascade of
   replacements gets another. *)
AddBundleLosesNothing ==
    [][\A b \in Bundles : AddBundle(b) => Queued' = Queued \cup {b}]_slots

(* Only bundles of strictly lower priority than the new bundle change slot,
   and they move towards the end of the queue, through every replacement of
   the cascade. *)
OnlyLowerPriorityYields ==
    [][\A b \in Bundles : AddBundle(b) =>
          \A i \in DOMAIN slots : \A x \in slots[i].bundles :
              x \notin slots'[i].bundles =>
                  /\ Priority[x] < Priority[b]
                  /\ \E j \in DOMAIN slots' : j > i /\ x \in slots'[j].bundles
      ]_slots

=============================================================================
