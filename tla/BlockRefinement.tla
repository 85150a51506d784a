--------------------------- MODULE BlockRefinement ---------------------------
(* The block volume plugin as an implementation of the plugin interface. *)
EXTENDS BlockProvisioner

\* A volume is an asset; a broken one has never become ready.
LifeOf(state) ==
    CASE state = "ABSENT" -> "none"
      [] state = "AVAILABLE" -> "ready"
      [] state \in Dying -> "gone"
      [] OTHER -> "making"

\* What the contract calls the status of a call.
StatusOf(step, request, res) ==
    CASE step = "idle" -> "idle"
      [] step = "done" /\ res = "ok" -> IF request # NoReq THEN "pv" ELSE "deleted"
      [] step = "done" /\ res # "ok" -> "failed"
      [] OTHER -> IF request # NoReq THEN "provisioning" ELSE "deleting"

CallOf(step, request, res, vol) ==
    [status |-> StatusOf(step, request, res),
     claim |-> IF request # NoReq THEN request.claim ELSE NoReq,
     asset |-> IF vol # NoVol THEN vol ELSE NoReq]

assetLife == [v \in VolIDs |-> LifeOf(volState[v])]
contractCall == [c \in Callers |-> CallOf(pc[c], req[c], result[c], cvol[c])]

Contract ==
    INSTANCE PluginContract
        WITH Calls <- Callers, Assets <- VolIDs, None <- NoReq, Shared <- FALSE,
             Outsiders <- "user" \in ApiFaults,
             life <- assetLife, owner <- volClaim, call <- contractCall

\* The block plugin keeps the promise of the plugin interface, with a volume of
\* its own for every PV: each step of a call, whatever is lost or late, is one
\* that an exclusive plugin may take.  Rejected credentials are left out: with
\* them Delete reports success for a volume that stays (block.go:269-275).
KeepsContract == Contract!Spec
=============================================================================
