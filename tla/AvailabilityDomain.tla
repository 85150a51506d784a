------------------------- MODULE AvailabilityDomain -------------------------
(***************************************************************************)
(* core.Provision (pkg/provisioner/core): where a claim is placed.  The    *)
(* domain is named by the claim or chosen among the zones on the labels of *)
(* the nodes, looked up at the identity service by a suffix of its name,   *)
(* and written back to the PV as a zone label.                             *)
(*                                                                         *)
(* Nodes are read from the cache of an informer that another goroutine     *)
(* fills and updates; main starts the controller when Ready returns.       *)
(*                                                                         *)
(* Names of domains and zones are sequences of tokens, so that suffixes    *)
(* and the part after the colon mean what they mean in the code.           *)
(***************************************************************************)
EXTENDS Naturals, Sequences, FiniteSets

CONSTANTS
    Callers,        \* goroutines that call Provision
    Claims,         \* claims: name and selector
    Nodes,          \* nodes of the cluster
    Domains,        \* full names of the availability domains
    SortedLabels,   \* the zones nodes may be labelled with, in lexical order
    Hash,           \* FNV hash of the part of a claim's name that is hashed
    Width,          \* 2^32, the width of the hash and of the index
    None,           \* no label, selector, index, domain
    MaxAttempts     \* bound on the attempts in a behaviour

Labels == {SortedLabels[i] : i \in DOMAIN SortedLabels}

\* The lexical order of the zones.
Position(z) == CHOOSE i \in DOMAIN SortedLabels : SortedLabels[i] = z

\* strings.HasSuffix.
HasSuffix(s, t) == \E i \in 0..Len(s) : SubSeq(s, i + 1, Len(s)) = t

\* What follows the first colon, or all of it (strings.SplitN(AD, ":", 2)).
mapAvailabilityDomainToFailureDomain(AD) ==
    LET colons == {i \in DOMAIN AD : AD[i] = ":"} IN
    IF colons = {} THEN AD
    ELSE LET first == CHOOSE i \in colons : \A j \in colons : i <= j
         IN  SubSeq(AD, first + 1, Len(AD))

\* The part of a claim's name that is hashed: of claim-set-id only the set, so
\* that the claims of one pod of a stateful set meet.
HashString(name) ==
    IF name.id = None THEN <<name.claim, name.set>> ELSE <<name.set>>

\* Index offset of a claim's name.
Offset(name) == IF name.id = None THEN 0 ELSE name.id

\* Two domains are never mistaken for each other, and nodes carry the zone of
\* a domain or one that names no domain, as the cloud controller labels them.
ASSUME DomainAssumption ==
    /\ \A d, e \in Domains :
         HasSuffix(e, mapAvailabilityDomainToFailureDomain(d)) => d = e
    /\ \A z \in Labels :
         \/ \E d \in Domains : z = mapAvailabilityDomainToFailureDomain(d)
         \/ \A d \in Domains : ~HasSuffix(d, z)
    /\ None \notin Labels \cup Domains

ASSUME HashAssumption ==
    /\ SortedLabels \in Seq(Labels)
    /\ Width \in Nat \ {0}
    /\ \A k \in Claims : /\ Hash[HashString(k.name)] \in 0..(Width - 1)
                         /\ Offset(k.name) \in 0..(Width - 1)

VARIABLES
    cluster,     \* the label of each node
    cache,       \* the labels the informer has seen
    synced,      \* has the informer listed the nodes?
    ready,       \* has Ready returned, does the controller run?
    pc,          \* where each call stands
    pvc,         \* its claim
    zones,       \* the zones the choice was made from, {} with a selector
    adName,      \* the name its domain is looked up by
    ad,          \* the domain that was found
    attempts     \* the calls that reached the plugin

vars == <<cluster, cache, synced, ready, pc, pvc, zones, adName, ad, attempts>>
call == <<pvc, zones, adName, ad>>

Init ==
    /\ cluster \in [Nodes -> Labels \cup {None}]
    /\ cache = [n \in Nodes |-> None]
    /\ synced = FALSE
    /\ ready = FALSE
    /\ pc = [c \in Callers |-> "idle"]
    /\ pvc = [c \in Callers |-> None]
    /\ zones = [c \in Callers |-> {}]
    /\ adName = [c \in Callers |-> None]
    /\ ad = [c \in Callers |-> None]
    /\ attempts = {}

-----------------------------------------------------------------------------
(* The cluster, the informer and main *)

\* Nodes come, go and are labelled.
Relabel(n, z) ==
    /\ cluster[n] # z
    /\ cluster' = [cluster EXCEPT ![n] = z]
    /\ UNCHANGED <<cache, synced, ready, pc, call, attempts>>

\* The first list of the informer.
InformerLists ==
    /\ ~synced
    /\ cache' = cluster
    /\ synced' = TRUE
    /\ UNCHANGED <<cluster, ready, pc, call, attempts>>

\* A watch event, some time after the change.
InformerSees(n) ==
    /\ synced
    /\ cache[n] # cluster[n]
    /\ cache' = [cache EXCEPT ![n] = cluster[n]]
    /\ UNCHANGED <<cluster, synced, ready, pc, call, attempts>>

\* Mutant: main runs the controller without waiting for the cache.
ReadyAtOnce ==
    /\ ~ready
    /\ ready' = TRUE
    /\ UNCHANGED <<cluster, cache, synced, pc, call, attempts>>

Ready ==
    /\ ~ready
    /\ synced
    /\ ready' = TRUE
    /\ UNCHANGED <<cluster, cache, synced, pc, call, attempts>>

-----------------------------------------------------------------------------
(* Provision *)

\* The labels of the nodes in the cache.
validADs == {cache[n] : n \in Nodes} \ {None}

\* Mutant: the index is not added to the hash.
hashOnly(n, count) == Hash[HashString(n)] % count

\* (hash+index)%uint32(len): the sum wraps.
Slot(n, count) == ((Hash[HashString(n)] + Offset(n)) % Width) % count

\* Where zones.List() has a zone, counted from 0: the zones that sort before it.
Place(zs, z) == Cardinality({y \in zs : Position(y) < Position(z)})

\* The zone at the slot of the claim in the sorted list.
ChooseZoneForVolume(zs, n) ==
    CHOOSE z \in zs : Place(zs, z) = Slot(n, Cardinality(zs))

\* Mutant: the zones are taken in the order of a Go map.
chooseUnsorted(c, k) ==
    \/ /\ k.selector # None
       /\ zones' = [zones EXCEPT ![c] = {}]
       /\ adName' = [adName EXCEPT ![c] = k.selector]
       /\ pc' = [pc EXCEPT ![c] = "find"]
    \/ /\ k.selector = None
       /\ zones' = [zones EXCEPT ![c] = validADs]
       /\ \E z \in validADs : adName' = [adName EXCEPT ![c] = z]
       /\ pc' = [pc EXCEPT ![c] = "find"]

\* The name of the domain, from the selector or from the nodes.
chooseAvailabilityDomain(c, k) ==
    \/ /\ k.selector # None
       /\ zones' = [zones EXCEPT ![c] = {}]
       /\ adName' = [adName EXCEPT ![c] = k.selector]
       /\ pc' = [pc EXCEPT ![c] = "find"]
    \/ /\ k.selector = None
       /\ validADs # {}
       /\ zones' = [zones EXCEPT ![c] = validADs]
       /\ adName' = [adName EXCEPT ![c] = ChooseZoneForVolume(validADs, k.name)]
       /\ pc' = [pc EXCEPT ![c] = "find"]
    \/ /\ k.selector = None
       /\ validADs = {}
       /\ pc' = [pc EXCEPT ![c] = "noZones"]
       /\ UNCHANGED <<zones, adName>>

Provision(c, k) ==
    /\ ready
    /\ pc[c] = "idle"
    /\ Cardinality(attempts) < MaxAttempts
    /\ pvc' = [pvc EXCEPT ![c] = k]
    /\ chooseAvailabilityDomain(c, k)
    /\ UNCHANGED <<cluster, cache, synced, ready, ad, attempts>>

Return(c) ==
    /\ pc' = [pc EXCEPT ![c] = "idle"]
    /\ pvc' = [pvc EXCEPT ![c] = None]
    /\ zones' = [zones EXCEPT ![c] = {}]
    /\ adName' = [adName EXCEPT ![c] = None]
    /\ ad' = [ad EXCEPT ![c] = None]

\* Mutant: no error when no domain has the suffix.
findADOrNil(c) ==
    /\ pc[c] = "find"
    /\ ad' = [ad EXCEPT ![c] =
                IF \E d \in Domains : HasSuffix(d, adName[c])
                THEN CHOOSE d \in Domains : HasSuffix(d, adName[c]) ELSE None]
    /\ pc' = [pc EXCEPT ![c] = "plugin"]
    /\ UNCHANGED <<cluster, cache, synced, ready, pvc, zones, adName, attempts>>

\* The first domain of the list with the suffix.  The service lists the
\* domains in any order, or fails.
findADByName(c) ==
    /\ pc[c] = "find"
    /\ \/ /\ \E d \in Domains :
               HasSuffix(d, adName[c]) /\ ad' = [ad EXCEPT ![c] = d]
          /\ pc' = [pc EXCEPT ![c] = "plugin"]
          /\ UNCHANGED <<pvc, zones, adName>>
       \/ Return(c)
    /\ UNCHANGED <<cluster, cache, synced, ready, attempts>>

\* Mutant: the PV is labelled with the full name, tenancy included.
PluginProvisionFullName(c) ==
    /\ pc[c] = "plugin"
    /\ attempts' = attempts \cup
         {[claim |-> pvc[c], zones |-> zones[c], ad |-> ad[c], label |-> ad[c]]}
    /\ Return(c)
    /\ UNCHANGED <<cluster, cache, synced, ready>>

\* The plugin makes a PV, which is labelled with the zone of the domain, or
\* fails and the controller tries again; both are attempts in that domain.
PluginProvision(c) ==
    /\ pc[c] = "plugin"
    /\ attempts' = attempts \cup
         {[claim |-> pvc[c], zones |-> zones[c], ad |-> ad[c],
           label |-> mapAvailabilityDomainToFailureDomain(ad[c])]}
    /\ Return(c)
    /\ UNCHANGED <<cluster, cache, synced, ready>>

\* "failed to choose availability domain; no zone labels on nodes".
NoZones(c) ==
    /\ pc[c] = "noZones"
    /\ Return(c)
    /\ UNCHANGED <<cluster, cache, synced, ready, attempts>>

Next ==
    \/ \E n \in Nodes, z \in Labels \cup {None} : Relabel(n, z)
    \/ InformerLists
    \/ \E n \in Nodes : InformerSees(n)
    \/ Ready
    \/ \E c \in Callers :
         \/ \E k \in Claims : Provision(c, k)
         \/ findADByName(c)
         \/ PluginProvision(c)
         \/ NoZones(c)

Spec == Init /\ [][Next]_vars

-----------------------------------------------------------------------------
(* Properties *)

\* Types; a call has a domain exactly when it is in the plugin, which
\* dereferences it.
TypeOK ==
    /\ cluster \in [Nodes -> Labels \cup {None}]
    /\ cache \in [Nodes -> Labels \cup {None}]
    /\ synced \in BOOLEAN /\ ready \in BOOLEAN
    /\ pc \in [Callers -> {"idle", "find", "plugin", "noZones"}]
    /\ pvc \in [Callers -> Claims \cup {None}]
    /\ zones \in [Callers -> SUBSET Labels]
    /\ adName \in [Callers -> Labels \cup {k.selector : k \in Claims} \cup {None}]
    /\ ad \in [Callers -> Domains \cup {None}]
    /\ \A c \in Callers : ad[c] # None <=> pc[c] = "plugin"

\* A claim is refused for want of zone labels only by a cache that has listed
\* the nodes, never because the informer was still starting (main waits).
NoBlindRefusal == \A c \in Callers : pc[c] = "noZones" => synced

\* The zone label of a PV whose domain was chosen is the label of a node that
\* was there at the choice: name, lookup by suffix and label fit together, so
\* a pod that uses the PV can be scheduled.
ZoneLabelOnNode ==
    \A p \in attempts : p.claim.selector = None => p.label \in p.zones

\* Two attempts of a claim that see the same zones go to the same domain,
\* whatever happened in between: a retry looks where the first attempt worked.
RetryStays ==
    \A p, q \in attempts :
        p.claim = q.claim /\ p.claim.selector = None /\ p.zones = q.zones => p.ad = q.ad

Wraps(n) == Hash[HashString(n)] + Offset(n) >= Width

\* Claims of a stateful set whose ids differ by less than the number of zones
\* go to different domains, claims of the same pod to the same one, as long as
\* the sum of hash and index does not wrap for one of them only.
SpreadOverZones ==
    \A p, q \in attempts :
        /\ p.claim.selector = None /\ q.claim.selector = None /\ p.zones = q.zones
        /\ p.claim.name.id # None /\ q.claim.name.id # None
        /\ p.claim.name.set = q.claim.name.set
        /\ Wraps(p.claim.name) = Wraps(q.claim.name)
        => LET i == p.claim.name.id
               j == q.claim.name.id
           IN  /\ i = j => p.ad = q.ad
               /\ i < j /\ j < i + Cardinality(p.zones) => p.ad # q.ad
=============================================================================
