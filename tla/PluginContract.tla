--------------------------- MODULE PluginContract ---------------------------
(***************************************************************************)
(* What a volume plugin promises to its callers (ProvisionerPlugin in      *)
(* pkg/provisioner/plugin/plugin.go): Provision creates a storage asset    *)
(* and returns a PV for it, Delete removes the asset behind a PV.          *)
(*                                                                         *)
(* It promises nothing on failure: an asset may stay behind.  A plugin is  *)
(* Shared when Provision may return an asset that an earlier or concurrent *)
(* call made for the same claim (file storage), and exclusive when every   *)
(* PV has an asset of its own (block volumes).                             *)
(***************************************************************************)
CONSTANTS
    Calls,       \* calls of the plugin that may be in flight
    Claims,      \* persistent volume claims
    Assets,      \* OCIDs of the assets the service can hand out
    None,        \* no claim, no asset
    Shared,      \* may calls for one claim return the same asset?
    Outsiders    \* may somebody else remove assets?

VARIABLES
    life,        \* life cycle of each asset
    owner,       \* the claim it was made for
    call         \* each call: its status, its claim, its asset

vars == <<life, owner, call>>

Lives == {"none", "making", "ready", "gone"}
Statuses == {"idle", "provisioning", "deleting", "pv", "deleted", "failed"}

Idle == [status |-> "idle", claim |-> None, asset |-> None]

Init ==
    /\ life = [a \in Assets |-> "none"]
    /\ owner = [a \in Assets |-> None]
    /\ call = [c \in Calls |-> Idle]

Ends(c, status) == call' = [call EXCEPT ![c].status = status]
Has(c, a) == call' = [call EXCEPT ![c].asset = a]

\* A request may be refused before anything is done.
Provision(c, claim) ==
    /\ call[c].status = "idle"
    /\ \E s \in {"provisioning", "failed"} :
         call' = [call EXCEPT ![c] = [Idle EXCEPT !.status = s, !.claim = claim]]
    /\ UNCHANGED <<life, owner>>

Provisioning(c) == call[c].status = "provisioning"

\* An asset comes into being for the claim of the call, with a fresh OCID.
Made(c, a) ==
    /\ Provisioning(c) /\ call[c].asset = None
    /\ life[a] = "none"
    /\ life' = [life EXCEPT ![a] = "making"]
    /\ owner' = [owner EXCEPT ![a] = call[c].claim]

Make(c, a) == Made(c, a) /\ Has(c, a)

\* The asset is made and the call never learns of it.
MakeUnknown(c, a) == Made(c, a) /\ Ends(c, "failed")

\* The call settles for an asset that was made for the claim before.
Find(c, a) ==
    /\ Shared
    /\ Provisioning(c) /\ call[c].asset = None
    /\ owner[a] = call[c].claim /\ life[a] # "none"
    /\ Has(c, a)
    /\ UNCHANGED <<life, owner>>

\* A PV is returned once the asset has become ready.
ReturnPV(c) ==
    /\ Provisioning(c)
    /\ call[c].asset # None /\ life[call[c].asset] \in {"ready", "gone"}
    /\ Ends(c, "pv")
    /\ UNCHANGED <<life, owner>>

Fail(c) ==
    /\ call[c].status \in {"provisioning", "deleting"}
    /\ Ends(c, "failed")
    /\ UNCHANGED <<life, owner>>

\* A failing call may remove the asset that nobody else can have.
FailAndRemove(c) ==
    /\ ~Shared
    /\ Provisioning(c)
    /\ call[c].asset # None /\ life[call[c].asset] # "gone"
    /\ life' = [life EXCEPT ![call[c].asset] = "gone"]
    /\ Ends(c, "failed")
    /\ UNCHANGED owner

\* Delete for the PV of asset a, refused when the PV lacks an annotation.
Delete(c, a) ==
    /\ call[c].status = "idle"
    /\ \/ call' = [call EXCEPT ![c] = [Idle EXCEPT !.status = "deleting", !.asset = a]]
       \/ \E b \in {None, a} :
            call' = [call EXCEPT ![c] = [Idle EXCEPT !.status = "failed", !.asset = b]]
    /\ UNCHANGED <<life, owner>>

\* The asset is removed; the caller may get an error all the same.
Remove(c) ==
    /\ call[c].status = "deleting"
    /\ life' = [life EXCEPT ![call[c].asset] = "gone"]
    /\ Ends(c, "deleted") \/ Ends(c, "failed")
    /\ UNCHANGED owner

\* The caller takes the result.
Collect(c) ==
    /\ call[c].status \in {"pv", "deleted", "failed"}
    /\ call' = [call EXCEPT ![c] = Idle]
    /\ UNCHANGED <<life, owner>>

\* An asset that is being made becomes ready; an outsider removes one.
Progress(a) ==
    /\ \/ life[a] = "making" /\ life' = [life EXCEPT ![a] = "ready"]
       \/ Outsiders /\ life[a] = "ready" /\ life' = [life EXCEPT ![a] = "gone"]
    /\ UNCHANGED <<owner, call>>

\* What the plugin does once it has been called.
Work(c) ==
    \/ \E a \in Assets : Make(c, a) \/ MakeUnknown(c, a) \/ Find(c, a)
    \/ ReturnPV(c)
    \/ Fail(c)
    \/ FailAndRemove(c)
    \/ Remove(c)

Next ==
    \/ \E c \in Calls :
         \/ \E claim \in Claims : Provision(c, claim)
         \/ \E a \in Assets : Delete(c, a)
         \/ Work(c)
         \/ Collect(c)
    \/ \E a \in Assets : Progress(a)

Spec == Init /\ [][Next]_vars
=============================================================================
