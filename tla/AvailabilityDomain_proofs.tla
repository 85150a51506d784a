----------------------- MODULE AvailabilityDomain_proofs -----------------------
(***************************************************************************)
(* Where claims are placed, for any number of callers and nodes, any zones *)
(* and domains that fit each other, and every hash.                        *)
(***************************************************************************)
EXTENDS AvailabilityDomain, FiniteSetTheorems, TLAPS

\* A call that goes on was started by a controller whose cache is filled.
ReadyInv ==
    /\ ready => synced
    /\ \A c \in Callers : pc[c] # "idle" => ready

\* The name and the domain of a call whose claim has no selector.
CallInv ==
    \A c \in Callers :
        /\ pc[c] \in {"find", "plugin"} => pvc[c] \in Claims
        /\ pc[c] \in {"find", "plugin"} /\ pvc[c].selector = None =>
             zones[c] # {} /\ adName[c] = ChooseZoneForVolume(zones[c], pvc[c].name)
        /\ pc[c] = "plugin" => HasSuffix(ad[c], adName[c])

\* An attempt whose claim has no selector was made in the domain of the zone that
\* was chosen.
Placed(p) ==
    /\ p.claim \in Claims /\ p.ad \in Domains
    /\ p.zones \in SUBSET Labels /\ p.zones # {}
    /\ p.label = mapAvailabilityDomainToFailureDomain(p.ad)
    /\ p.label = ChooseZoneForVolume(p.zones, p.claim.name)
    /\ HasSuffix(p.ad, p.label)

AttemptInv == \A p \in attempts : p.claim.selector = None => Placed(p)

-----------------------------------------------------------------------------
(* The choice of a zone *)

\* Zones have different places in the lexical order.
LEMMA PositionIs ==
    ASSUME NEW z \in Labels
    PROVE  Position(z) \in 1..Len(SortedLabels) /\ SortedLabels[Position(z)] = z
  BY HashAssumption DEF Labels, Position

\* There are finitely many zones.
LEMMA LabelsFinite == IsFiniteSet(Labels)
<1> DEFINE f == [z \in Labels |-> Position(z)]
<1>1. f \in Injection(Labels, 1..Len(SortedLabels))
  BY PositionIs DEF Injection, IsInjective
<1>2. IsFiniteSet(1..Len(SortedLabels))
  BY FS_Interval, HashAssumption
<1> QED
  BY <1>1, <1>2, FS_Injection

\* A zone that sorts before another has a smaller place, and places count from 0.
LEMMA PlaceIs ==
    ASSUME NEW zs \in SUBSET Labels, NEW y \in zs
    PROVE  /\ Place(zs, y) \in 0..(Cardinality(zs) - 1)
           /\ \A z \in zs : Position(y) < Position(z) => Place(zs, y) < Place(zs, z)
<1> DEFINE Before(z) == {x \in zs : Position(x) < Position(z)}
<1>1. IsFiniteSet(zs) /\ Cardinality(zs) \in Nat
  BY LabelsFinite, FS_Subset, FS_CardinalityType
<1>2. ASSUME NEW z
      PROVE  /\ IsFiniteSet(Before(z)) /\ Cardinality(Before(z)) \in Nat
             /\ Place(zs, z) = Cardinality(Before(z))
  <2>1. Before(z) \in SUBSET zs
    OBVIOUS
  <2> QED
    BY <1>1, <2>1, FS_Subset, FS_CardinalityType DEF Place
<1>3. ASSUME NEW S \in SUBSET zs, NEW z \in zs \ S
      PROVE  IsFiniteSet(S) /\ Cardinality(S) < Cardinality(zs)
  <2>1. IsFiniteSet(S) /\ Cardinality(S) <= Cardinality(zs) /\ Cardinality(S) # Cardinality(zs)
    BY <1>1, FS_Subset
  <2>2. Cardinality(S) \in Nat
    BY <2>1, FS_CardinalityType
  <2> QED
    BY <1>1, <2>1, <2>2
<1>4. Place(zs, y) \in 0..(Cardinality(zs) - 1)
  <2>1. Position(y) \in Int
    BY PositionIs
  <2>2. Before(y) \in SUBSET zs /\ y \in zs \ Before(y)
    BY <2>1
  <2>3. Cardinality(Before(y)) < Cardinality(zs)
    BY <1>3, <2>2
  <2>4. Place(zs, y) = Cardinality(Before(y)) /\ Cardinality(Before(y)) \in Nat
    BY <1>2
  <2> HIDE DEF Before
  <2> QED
    BY <1>1, <2>3, <2>4
<1>5. ASSUME NEW z \in zs, Position(y) < Position(z)
      PROVE  Place(zs, y) < Place(zs, z)
  <2>1. Before(y) \in SUBSET Before(z) /\ y \in Before(z) /\ y \notin Before(y)
    <3>1. \A x \in zs : Position(x) \in Int
      BY PositionIs
    <3> QED
      BY <1>5, <3>1
  <2>2. /\ Cardinality(Before(y)) <= Cardinality(Before(z))
        /\ Cardinality(Before(y)) # Cardinality(Before(z))
    BY <1>2, <2>1, FS_Subset
  <2>3. /\ Place(zs, y) = Cardinality(Before(y)) /\ Cardinality(Before(y)) \in Nat
        /\ Place(zs, z) = Cardinality(Before(z)) /\ Cardinality(Before(z)) \in Nat
    BY <1>2
  <2> HIDE DEF Before
  <2> QED
    BY <2>2, <2>3
<1> QED
  BY <1>4, <1>5

\* Every place below the number of zones is the place of exactly one zone.
LEMMA PlaceTaken ==
    ASSUME NEW zs \in SUBSET Labels, NEW i \in 0..(Cardinality(zs) - 1)
    PROVE  \E z \in zs : Place(zs, z) = i
<1> DEFINE n == Cardinality(zs)
<1> DEFINE f == [z \in zs |-> Place(zs, z)]
<1>1. IsFiniteSet(zs) /\ n \in Nat
  BY LabelsFinite, FS_Subset, FS_CardinalityType
<1>2. IsFiniteSet(0..(n - 1)) /\ Cardinality(0..(n - 1)) = n
  BY <1>1, FS_Interval
<1>3. ASSUME NEW y \in zs, NEW z \in zs, Place(zs, y) = Place(zs, z) PROVE y = z
  <2>1. Position(y) = Position(z)
    <3>1. Position(y) \in Int /\ Position(z) \in Int
      BY PositionIs
    <3>2. Place(zs, y) \in Int /\ Place(zs, z) \in Int
      BY PlaceIs
    <3>3. ~(Position(y) < Position(z)) /\ ~(Position(z) < Position(y))
      BY <1>3, <3>2, PlaceIs
    <3> QED
      BY <3>1, <3>3
  <2> QED
    BY <2>1, PositionIs
<1>4. f \in [zs -> 0..(n - 1)]
  BY PlaceIs
<1>5. f \in Injection(zs, 0..(n - 1))
  BY <1>3, <1>4 DEF Injection, IsInjective
<1>6. f \in Surjection(zs, 0..(n - 1))
  BY <1>1, <1>2, <1>5, FS_Injection
<1> QED
  BY <1>6 DEF Surjection

\* Numbers that differ by less than n have different remainders modulo n.
LEMMA RemaindersDiffer ==
    ASSUME NEW n \in Nat \ {0}, NEW i \in Nat, NEW j \in Nat, i < j, j < i + n
    PROVE  i % n # j % n
<1> DEFINE p == i \div n
<1> DEFINE q == j \div n
<1>1. /\ p \in Int /\ q \in Int /\ i % n \in Int /\ j % n \in Int
      /\ i = n * p + (i % n) /\ j = n * q + (j % n)
  OBVIOUS
<1>2. ASSUME NEW x \in Int, NEW y \in Int, n * y - n * x = j - i PROVE FALSE
  <2>1. CASE y <= x
    BY <1>2, <2>1
  <2>2. CASE y >= x + 1
    BY <1>2, <2>2
  <2> QED
    BY <2>1, <2>2
<1>3. SUFFICES ASSUME i % n = j % n PROVE FALSE
  OBVIOUS
<1> HIDE DEF p, q
<1>4. n * q - n * p = j - i
  BY <1>1, <1>3
<1> QED
  BY <1>1, <1>2, <1>4

\* A sum of two numbers of a width wraps at most once.
LEMMA SumWraps ==
    ASSUME NEW w \in Nat \ {0}, NEW x \in 0..(w - 1), NEW y \in 0..(w - 1)
    PROVE  (x + y) % w = IF x + y >= w THEN x + y - w ELSE x + y
<1>1. CASE x + y >= w
  <2>1. x + y - w \in 0..(w - 1) /\ x + y = (x + y - w) + w
    BY <1>1
  <2> QED
    BY <1>1, <2>1
<1>2. CASE x + y < w
  BY <1>2
<1> QED
  BY <1>1, <1>2

\* The slot of a claim is in the list.
LEMMA SlotIs ==
    ASSUME NEW k \in Claims, NEW n \in Nat \ {0}
    PROVE  Slot(k.name, n) \in 0..(n - 1)
<1>1. Hash[HashString(k.name)] + Offset(k.name) \in Nat /\ Width \in Nat \ {0}
  BY HashAssumption
<1>2. (Hash[HashString(k.name)] + Offset(k.name)) % Width \in Nat
  BY <1>1
<1> QED
  BY <1>2 DEF Slot

\* The zone that is chosen is one of the zones, the one at the slot.
LEMMA ChosenZone ==
    ASSUME NEW zs \in SUBSET Labels, zs # {}, NEW k \in Claims
    PROVE  /\ Cardinality(zs) \in Nat \ {0}
           /\ ChooseZoneForVolume(zs, k.name) \in zs
           /\ Place(zs, ChooseZoneForVolume(zs, k.name)) = Slot(k.name, Cardinality(zs))
<1>1. Cardinality(zs) \in Nat \ {0}
  BY LabelsFinite, FS_Subset, FS_CardinalityType, FS_EmptySet
<1>2. \E z \in zs : Place(zs, z) = Slot(k.name, Cardinality(zs))
  BY <1>1, SlotIs, PlaceTaken
<1> QED
  BY <1>1, <1>2 DEF ChooseZoneForVolume

\* Claims of a stateful set whose ids differ by less than the number of zones have
\* different slots, unless the sum of hash and id wraps for one of them only.
LEMMA SlotsDiffer ==
    ASSUME NEW k \in Claims, NEW l \in Claims, NEW n \in Nat \ {0},
           k.name.id # None, l.name.id # None, k.name.set = l.name.set,
           Wraps(k.name) = Wraps(l.name),
           k.name.id < l.name.id, l.name.id < k.name.id + n
    PROVE  Slot(k.name, n) # Slot(l.name, n)
<1> DEFINE h == Hash[HashString(k.name)]
<1> DEFINE i == k.name.id
<1> DEFINE j == l.name.id
<1>1. HashString(l.name) = HashString(k.name)
  BY DEF HashString
<1>2. Offset(k.name) = i /\ Offset(l.name) = j
  BY DEF Offset
<1>3. /\ Width \in Nat \ {0}
      /\ h \in 0..(Width - 1) /\ i \in 0..(Width - 1) /\ j \in 0..(Width - 1)
  BY <1>2, HashAssumption
<1>4. (h + i >= Width) = (h + j >= Width)
  BY <1>1, <1>2 DEF Wraps
<1>5. /\ Slot(k.name, n) = ((h + i) % Width) % n
      /\ Slot(l.name, n) = ((h + j) % Width) % n
  BY <1>1, <1>2 DEF Slot
<1>6. i < j /\ j < i + n
  OBVIOUS
<1> HIDE DEF h, i, j
<1> DEFINE a == (h + i) % Width
<1> DEFINE b == (h + j) % Width
<1>7. /\ a = IF h + i >= Width THEN h + i - Width ELSE h + i
      /\ b = IF h + j >= Width THEN h + j - Width ELSE h + j
  BY <1>3, SumWraps
<1> HIDE DEF a, b
<1>8. a \in Nat /\ b \in Nat /\ a < b /\ b < a + n
  <2>1. CASE h + i >= Width
    <3>1. h + j >= Width
      BY <1>4, <2>1
    <3>2. a = h + i - Width /\ b = h + j - Width
      BY <1>7, <2>1, <3>1
    <3> QED
      BY <1>3, <1>6, <2>1, <3>1, <3>2
  <2>2. CASE ~(h + i >= Width)
    <3>1. ~(h + j >= Width)
      BY <1>4, <2>2
    <3>2. a = h + i /\ b = h + j
      BY <1>7, <2>2, <3>1
    <3> QED
      BY <1>3, <1>6, <3>2
  <2> QED
    BY <2>1, <2>2
<1>9. Slot(k.name, n) = a % n /\ Slot(l.name, n) = b % n
  BY <1>5 DEF a, b
<1> QED
  BY <1>8, <1>9, RemaindersDiffer

-----------------------------------------------------------------------------
(* Invariants *)

\* Every step keeps the types; a call comes to the plugin with a domain.
LEMMA NextType ==
    ASSUME TypeOK, [Next]_vars PROVE TypeOK'
<1> USE DomainAssumption DEF TypeOK, call
<1>1. ASSUME NEW n \in Nodes, NEW z \in Labels \cup {None}, Relabel(n, z) PROVE TypeOK'
  BY <1>1 DEF Relabel
<1>2. CASE InformerLists
  BY <1>2 DEF InformerLists
<1>3. ASSUME NEW n \in Nodes, InformerSees(n) PROVE TypeOK'
  BY <1>3 DEF InformerSees
<1>4. CASE Ready
  BY <1>4 DEF Ready
<1>5. ASSUME NEW c \in Callers, NEW k \in Claims, Provision(c, k) PROVE TypeOK'
  <2>1. validADs \in SUBSET Labels
    BY DEF validADs
  <2>2. validADs # {} => ChooseZoneForVolume(validADs, k.name) \in Labels
    BY <2>1, ChosenZone
  <2> QED
    BY <1>5, <2>1, <2>2 DEF Provision, chooseAvailabilityDomain
<1>6. ASSUME NEW c \in Callers, findADByName(c) PROVE TypeOK'
  BY <1>6 DEF findADByName, Return
<1>7. ASSUME NEW c \in Callers, PluginProvision(c) PROVE TypeOK'
  BY <1>7 DEF PluginProvision, Return
<1>8. ASSUME NEW c \in Callers, NoZones(c) PROVE TypeOK'
  BY <1>8 DEF NoZones, Return
<1>9. CASE UNCHANGED vars
  BY <1>9 DEF vars
<1> QED
  BY <1>1, <1>2, <1>3, <1>4, <1>5, <1>6, <1>7, <1>8, <1>9 DEF Next

\* The controller runs only on a filled cache.
LEMMA NextReady ==
    ASSUME TypeOK, ReadyInv, [Next]_vars PROVE ReadyInv'
<1> USE DEF TypeOK, ReadyInv, call
<1>1. ASSUME NEW n \in Nodes, NEW z \in Labels \cup {None}, Relabel(n, z) PROVE ReadyInv'
  BY <1>1 DEF Relabel
<1>2. CASE InformerLists
  BY <1>2 DEF InformerLists
<1>3. ASSUME NEW n \in Nodes, InformerSees(n) PROVE ReadyInv'
  BY <1>3 DEF InformerSees
<1>4. CASE Ready
  BY <1>4 DEF Ready
<1>5. ASSUME NEW c \in Callers, NEW k \in Claims, Provision(c, k) PROVE ReadyInv'
  BY <1>5 DEF Provision, chooseAvailabilityDomain
<1>6. ASSUME NEW c \in Callers, findADByName(c) PROVE ReadyInv'
  BY <1>6 DEF findADByName, Return
<1>7. ASSUME NEW c \in Callers, PluginProvision(c) PROVE ReadyInv'
  BY <1>7 DEF PluginProvision, Return
<1>8. ASSUME NEW c \in Callers, NoZones(c) PROVE ReadyInv'
  BY <1>8 DEF NoZones, Return
<1>9. CASE UNCHANGED vars
  BY <1>9 DEF vars
<1> QED
  BY <1>1, <1>2, <1>3, <1>4, <1>5, <1>6, <1>7, <1>8, <1>9 DEF Next

\* A call keeps the name that it chose and finds a domain by it.
LEMMA NextCall ==
    ASSUME TypeOK, CallInv, [Next]_vars PROVE CallInv'
<1> USE DEF TypeOK, CallInv, call
<1>1. ASSUME NEW n \in Nodes, NEW z \in Labels \cup {None}, Relabel(n, z) PROVE CallInv'
  BY <1>1 DEF Relabel
<1>2. CASE InformerLists
  BY <1>2 DEF InformerLists
<1>3. ASSUME NEW n \in Nodes, InformerSees(n) PROVE CallInv'
  BY <1>3 DEF InformerSees
<1>4. CASE Ready
  BY <1>4 DEF Ready
<1>5. ASSUME NEW c \in Callers, NEW k \in Claims, Provision(c, k) PROVE CallInv'
  BY <1>5 DEF Provision, chooseAvailabilityDomain
<1>6. ASSUME NEW c \in Callers, findADByName(c) PROVE CallInv'
  BY <1>6 DEF findADByName, Return
<1>7. ASSUME NEW c \in Callers, PluginProvision(c) PROVE CallInv'
  BY <1>7 DEF PluginProvision, Return
<1>8. ASSUME NEW c \in Callers, NoZones(c) PROVE CallInv'
  BY <1>8 DEF NoZones, Return
<1>9. CASE UNCHANGED vars
  BY <1>9 DEF vars
<1> QED
  BY <1>1, <1>2, <1>3, <1>4, <1>5, <1>6, <1>7, <1>8, <1>9 DEF Next

\* A domain that is found by the zone of a node is the domain of that zone.
LEMMA DomainOfZone ==
    ASSUME NEW z \in Labels, NEW d \in Domains, HasSuffix(d, z)
    PROVE  mapAvailabilityDomainToFailureDomain(d) = z
<1>1. PICK e \in Domains : z = mapAvailabilityDomainToFailureDomain(e)
  BY DomainAssumption
<1>2. HasSuffix(d, mapAvailabilityDomainToFailureDomain(e))
  BY <1>1
<1>3. e = d
  BY <1>2, DomainAssumption
<1> QED
  BY <1>1, <1>3

\* A new attempt is in the domain of the zone that was chosen.
LEMMA NextAttempt ==
    ASSUME TypeOK, CallInv, AttemptInv, [Next]_vars PROVE AttemptInv'
<1>1. CASE UNCHANGED attempts
  BY <1>1 DEF AttemptInv
<1>2. ASSUME NEW c \in Callers, PluginProvision(c) PROVE AttemptInv'
  <2> DEFINE p == [claim |-> pvc[c], zones |-> zones[c], ad |-> ad[c],
                   label |-> mapAvailabilityDomainToFailureDomain(ad[c])]
  <2>1. attempts' = attempts \cup {p}
    BY <1>2 DEF PluginProvision
  <2>2. ASSUME pvc[c].selector = None PROVE Placed(p)
    <3>1. /\ pvc[c] \in Claims /\ zones[c] \in SUBSET Labels /\ zones[c] # {}
          /\ adName[c] = ChooseZoneForVolume(zones[c], pvc[c].name)
          /\ ad[c] \in Domains /\ HasSuffix(ad[c], adName[c])
      BY <1>2, <2>2 DEF PluginProvision, TypeOK, CallInv
    <3>2. adName[c] \in Labels
      BY <3>1, ChosenZone
    <3>3. mapAvailabilityDomainToFailureDomain(ad[c]) = adName[c]
      BY <3>1, <3>2, DomainOfZone
    <3> QED
      BY <3>1, <3>3 DEF Placed
  <2>3. p.claim = pvc[c]
    OBVIOUS
  <2> HIDE DEF p
  <2> QED
    BY <2>1, <2>2, <2>3 DEF AttemptInv
<1> QED
  BY <1>1, <1>2 DEF Next, vars, Relabel, InformerLists, InformerSees, Ready, Provision,
                    findADByName, NoZones

Inv == TypeOK /\ ReadyInv /\ CallInv /\ AttemptInv

\* The invariant holds at all times.
LEMMA InvInductive == Spec => []Inv
<1>1. Init => Inv
  BY DomainAssumption DEF Init, Inv, TypeOK, ReadyInv, CallInv, AttemptInv
<1>2. ASSUME Inv, [Next]_vars PROVE Inv'
  BY <1>2, NextType, NextReady, NextCall, NextAttempt DEF Inv
<1> QED
  BY <1>1, <1>2, PTL DEF Spec

-----------------------------------------------------------------------------
\* Type correctness: a call is in the plugin, which dereferences its domain, exactly
\* when it has one.
THEOREM TypeCorrect == Spec => []TypeOK
<1>1. Inv => TypeOK
  BY DEF Inv
<1> QED
  BY InvInductive, <1>1, PTL

\* A claim is refused for want of zones only when the informer has listed the nodes.
THEOREM RefusalsSeen == Spec => []NoBlindRefusal
<1>1. Inv => NoBlindRefusal
  BY DEF Inv, ReadyInv, NoBlindRefusal
<1> QED
  BY InvInductive, <1>1, PTL

\* The zone label of a PV is the label of a node that was there at the choice.
THEOREM LabelsFit == Spec => []ZoneLabelOnNode
<1>1. Inv => ZoneLabelOnNode
  BY ChosenZone DEF Inv, AttemptInv, Placed, ZoneLabelOnNode
<1> QED
  BY InvInductive, <1>1, PTL

\* Attempts with the same zone are in the same domain.
LEMMA SameZoneSameDomain ==
    ASSUME NEW p, NEW q, Placed(p), Placed(q)
    PROVE  p.label = q.label <=> p.ad = q.ad
  BY DomainAssumption DEF Placed

\* A retry that sees the zones of an earlier attempt goes to its domain.
THEOREM RetriesStay == Spec => []RetryStays
<1>1. ASSUME Inv PROVE RetryStays
  <2> SUFFICES ASSUME NEW p \in attempts, NEW q \in attempts, p.claim = q.claim,
                      p.claim.selector = None, p.zones = q.zones
               PROVE  p.ad = q.ad
    BY DEF RetryStays
  <2>1. Placed(p) /\ Placed(q)
    BY <1>1 DEF Inv, AttemptInv
  <2>2. p.label = q.label
    BY <2>1 DEF Placed
  <2> QED
    BY <2>1, <2>2, SameZoneSameDomain
<1> QED
  BY InvInductive, <1>1, PTL

\* Claims of a stateful set are spread over the zones, those of a pod meet.
THEOREM ClaimsSpread == Spec => []SpreadOverZones
<1>1. ASSUME Inv PROVE SpreadOverZones
  <2> SUFFICES ASSUME NEW p \in attempts, NEW q \in attempts,
                      p.claim.selector = None, q.claim.selector = None, p.zones = q.zones,
                      p.claim.name.id # None, q.claim.name.id # None,
                      p.claim.name.set = q.claim.name.set,
                      Wraps(p.claim.name) = Wraps(q.claim.name)
               PROVE  /\ p.claim.name.id = q.claim.name.id => p.ad = q.ad
                      /\ /\ p.claim.name.id < q.claim.name.id
                         /\ q.claim.name.id < p.claim.name.id + Cardinality(p.zones)
                         => p.ad # q.ad
    BY DEF SpreadOverZones
  <2> DEFINE n == Cardinality(p.zones)
  <2>1. Placed(p) /\ Placed(q)
    BY <1>1 DEF Inv, AttemptInv
  <2>2. /\ p.claim \in Claims /\ q.claim \in Claims /\ n \in Nat \ {0}
        /\ Place(p.zones, p.label) = Slot(p.claim.name, n)
        /\ Place(p.zones, q.label) = Slot(q.claim.name, n)
    BY <2>1, ChosenZone DEF Placed
  <2>3. ASSUME p.claim.name.id = q.claim.name.id PROVE p.ad = q.ad
    <3>1. Slot(p.claim.name, n) = Slot(q.claim.name, n)
      BY <2>3 DEF Slot, HashString, Offset
    <3>2. p.label = q.label
      BY <2>1, <3>1 DEF Placed, ChooseZoneForVolume
    <3> QED
      BY <2>1, <3>2, SameZoneSameDomain
  <2>4. ASSUME p.claim.name.id < q.claim.name.id, q.claim.name.id < p.claim.name.id + n
        PROVE  p.ad # q.ad
    <3>1. Slot(p.claim.name, n) # Slot(q.claim.name, n)
      BY <2>2, <2>4, SlotsDiffer
    <3>2. p.label # q.label
      BY <2>2, <3>1
    <3> QED
      BY <2>1, <3>2, SameZoneSameDomain
  <2> QED
    BY <2>3, <2>4
<1> QED
  BY InvInductive, <1>1, PTL
================================================================================
