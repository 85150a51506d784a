------------------------------ MODULE MCBlock ------------------------------
(***************************************************************************)
(* Instances of BlockProvisioner for TLC.  Units of 4 bytes and integers   *)
(* up to 31 stand for 1MiB and int64.                                      *)
(***************************************************************************)
EXTENDS BlockRefinement, TLC

CONSTANTS pvcA, pvcB

RWO(claim, capacity, rounding) ==
    [claim |-> claim, modes |-> {"ReadWriteOnce"}, capacity |-> capacity,
     rounding |-> rounding]

\* Two claims with valid requests, one of them raised to the minimum.
TwoClaims == {RWO(pvcA, 5, "absent"), RWO(pvcB, 9, "false")}

\* One valid request.
OneClaim == {RWO(pvcA, 5, "absent")}

\* Every capacity, every rounding parameter, every way to be refused.
AllSizes ==
    {RWO(pvcA, n, p) : n \in Capacities \cup {NoCapacity}, p \in RoundingParams}
        \cup {[RWO(pvcA, 5, "absent") EXCEPT !.modes = m] : m \in SUBSET AccessModes}

\* Callers and OCIDs are interchangeable.  For runs of safety properties only.
Symmetry == Permutations(Callers) \cup Permutations(VolIDs)
=============================================================================
