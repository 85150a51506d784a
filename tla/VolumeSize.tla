----------------------------- MODULE VolumeSize -----------------------------
(***************************************************************************)
(* How block.Provision turns the capacity a claim requests into the size   *)
(* of the volume it creates and the capacity of the PV it returns          *)
(* (pkg/provisioner/block/block.go).                                       *)
(*                                                                         *)
(* Capacities are bytes.  The code computes in int64 and in units of       *)
(* 1024*1024 bytes; here the unit and the largest integer are parameters,  *)
(* so that TLC reaches the overflow with small numbers and the proofs      *)
(* cover the real ones.                                                    *)
(***************************************************************************)
EXTENDS Integers

CONSTANTS
    Unit,             \* the allocation unit, 1024*1024 in the code
    MaxInt,           \* the largest int64
    MinVolumeSize,    \* block.minVolumeSize, in bytes
    RoundingEnabled   \* block.volumeRoundingEnabled

ASSUME SizeAssumption ==
    /\ Unit \in Nat /\ MaxInt \in Nat
    /\ 1 < Unit /\ Unit <= MaxInt
    /\ MinVolumeSize \in 0..MaxInt
    /\ RoundingEnabled \in BOOLEAN

\* A storage class may set volumeRoundingUpEnabled to anything.
RoundingParams == {"absent", "true", "false", "unparsable"}

Capacities == 0..MaxInt

-----------------------------------------------------------------------------
\* The sum of two non-negative int64 wraps to a negative number.
Wrap(n) == IF n > MaxInt THEN n - 2 * (MaxInt + 1) ELSE n

\* Go's integer division truncates toward zero.
GoDiv(n, d) == IF n >= 0 THEN n \div d ELSE -((-n) \div d)

\* Mutant: plain division, without rounding up.
roundDownSize(volumeSizeBytes, allocationUnitBytes) ==
    GoDiv(volumeSizeBytes, allocationUnitBytes)

roundUpSize(volumeSizeBytes, allocationUnitBytes) ==
    GoDiv(Wrap(volumeSizeBytes + allocationUnitBytes - 1), allocationUnitBytes)

\* Only a parameter that parses as false switches rounding off.
volumeRoundingEnabled(param) == param # "false"

\* Is the requested capacity raised to the minimum?
RaisedToMinimum(capacity, param) ==
    /\ volumeRoundingEnabled(param)
    /\ RoundingEnabled
    /\ MinVolumeSize > capacity

\* Capacity of the PV that Provision returns.
PVCapacity(capacity, param) ==
    IF RaisedToMinimum(capacity, param) THEN MinVolumeSize ELSE capacity

\* SizeInMBs of the create request.
VolSizeMB(capacity, param) ==
    roundUpSize(PVCapacity(capacity, param), Unit)
=============================================================================
