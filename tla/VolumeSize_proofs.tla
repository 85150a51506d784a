-------------------------- MODULE VolumeSize_proofs --------------------------
(***************************************************************************)
(* Size arithmetic of block.Provision, for every allocation unit, integer  *)
(* width, minimum size and requested capacity.                             *)
(***************************************************************************)
EXTENDS VolumeSize, TLAPS

\* While the addition in roundUpSize stays within int64 the result is the
\* least number of units that holds n bytes.
LEMMA RoundUpCovers ==
    ASSUME NEW n \in Capacities, n + Unit - 1 <= MaxInt
    PROVE  /\ roundUpSize(n, Unit) \in Nat
           /\ n <= roundUpSize(n, Unit) * Unit
           /\ (roundUpSize(n, Unit) - 1) * Unit < n
  BY SizeAssumption DEF roundUpSize, GoDiv, Wrap, Capacities

\* When the addition wraps, the result is never a positive size.
LEMMA RoundUpOverflow ==
    ASSUME NEW n \in Capacities, n + Unit - 1 > MaxInt
    PROVE  roundUpSize(n, Unit) \in Int /\ roundUpSize(n, Unit) <= 0
  BY SizeAssumption DEF roundUpSize, GoDiv, Wrap, Capacities

\* The capacity of the PV is an int64 and at least what the claim asked for.
LEMMA PVCapacityType ==
    ASSUME NEW n \in Capacities, NEW p \in RoundingParams
    PROVE  PVCapacity(n, p) \in Capacities /\ n <= PVCapacity(n, p)
  BY SizeAssumption DEF PVCapacity, RaisedToMinimum, Capacities

\* block.Provision, lines 155-181: a create request with a positive size asks
\* for the least number of units that holds the capacity the PV will state,
\* and that capacity is at least the one the claim requested.  A capacity so
\* large that roundUpSize overflows never yields a positive, too small size.
THEOREM VolumeCoversCapacity ==
    ASSUME NEW n \in Capacities, NEW p \in RoundingParams
    PROVE  /\ VolSizeMB(n, p) \in Int
           /\ n <= PVCapacity(n, p)
           /\ VolSizeMB(n, p) > 0 =>
                 /\ PVCapacity(n, p) <= VolSizeMB(n, p) * Unit
                 /\ (VolSizeMB(n, p) - 1) * Unit < PVCapacity(n, p)
<1> DEFINE cap == PVCapacity(n, p)
<1>1. cap \in Capacities /\ n <= cap
  BY PVCapacityType
<1>2. VolSizeMB(n, p) = roundUpSize(cap, Unit)
  BY DEF VolSizeMB
<1> HIDE DEF cap
<1>3. CASE cap + Unit - 1 <= MaxInt
  BY <1>1, <1>2, <1>3, RoundUpCovers DEF cap
<1>4. CASE ~(cap + Unit - 1 <= MaxInt)
  <2>1. cap + Unit - 1 > MaxInt
    BY <1>1, <1>4, SizeAssumption DEF Capacities
  <2> QED  BY <1>1, <1>2, <2>1, RoundUpOverflow DEF cap
<1> QED  BY <1>3, <1>4
=============================================================================
