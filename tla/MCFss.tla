------------------------------- MODULE MCFss -------------------------------
(* Instances of FssProvisioner for TLC. *)
EXTENDS FssRefinement, TLC

CONSTANTS pvcA, pvcB, ad1, ad2, mt1

Req(claim, ad, annotation, parameter) ==
    [claim |-> claim, ad |-> ad, annotation |-> annotation, parameter |-> parameter]

\* One claim in one domain.
OneRequest == {Req(pvcA, ad1, None, mt1)}

\* One claim that first comes without a mount target.
WithAndWithout == OneRequest \cup {Req(pvcA, ad1, None, None)}

\* One claim, placed in another domain when the labels of the nodes change.
TwoDomains == {Req(pvcA, ad1, None, mt1), Req(pvcA, ad2, None, mt1)}

\* Callers and OCIDs are interchangeable.  For runs of safety properties only.
Symmetry == Permutations(Callers) \cup Permutations(FsIDs) \cup Permutations(ExpIDs)
=============================================================================
