------------------------------ MODULE MCDomain ------------------------------
(* Instances of AvailabilityDomain for TLC. *)
EXTENDS AvailabilityDomain, TLC

\* Hashes of 4 bits: 16 and 2^32 have the same remainder modulo 3.
FourBits == 16

PHX1 == <<"PHX", "AD", "1">>
PHX2 == <<"PHX", "AD", "2">>
PHX3 == <<"PHX", "AD", "3">>
LON1 == <<"LON", "AD", "1">>

ThreeDomains == {<<"UpwH", ":">> \o z : z \in {PHX1, PHX2, PHX3}}

ThreeZones == <<PHX1, PHX2, PHX3>>

Pvc(claim, set, id, selector) ==
    [name |-> [claim |-> claim, set |-> set, id |-> id], selector |-> selector]

\* A claim without a selector, and some with one: a suffix that fits all, a zone
\* that fits none.
Selecting == {Pvc("data", "web", None, s) : s \in {None, <<>>, LON1}}

\* Claims of two pods of a stateful set, two of them for one pod.
StatefulSet ==
    {Pvc("data", "db", i, None) : i \in {2, 3}} \cup {Pvc("log", "db", 3, None)}

AllClaims == Selecting \cup StatefulSet

HashStrings == {HashString(k.name) : k \in Claims}

\* The hash of the stateful set is near the top, where the sum wraps.
Hashes == [s \in HashStrings |-> IF s = HashString([claim |-> "data", set |-> "web", id |-> None])
                                 THEN 5 ELSE 14]

\* Nodes are interchangeable.
Symmetry == Permutations(Nodes)
=============================================================================
