---------------------------- MODULE FssRefinement ----------------------------
(* The file storage plugin as an implementation of the plugin interface. *)
EXTENDS FssProvisioner

\* A file system is the asset; its exports come and go with it.
LifeOf(state) ==
    CASE state = "ABSENT" -> "none"
      [] state = "ACTIVE" -> "ready"
      [] state \in Dying -> "gone"
      [] OTHER -> "making"

\* What the contract calls the status of a call.
StatusOf(step, request, res) ==
    CASE step = "idle" -> "idle"
      [] step = "done" /\ res = "ok" -> IF request # None THEN "pv" ELSE "deleted"
      [] step = "done" /\ res # "ok" -> "failed"
      [] OTHER -> IF request # None THEN "provisioning" ELSE "deleting"

CallOf(step, request, res, fs) ==
    [status |-> StatusOf(step, request, res),
     claim |-> IF request # None THEN request.claim ELSE None,
     asset |-> fs]

assetLife == [f \in FsIDs |-> LifeOf(fsState[f])]
contractCall == [c \in Callers |-> CallOf(pc[c], req[c], result[c], cfs[c])]

Contract ==
    INSTANCE PluginContract
        WITH Calls <- Callers, Assets <- FsIDs, Shared <- TRUE, Outsiders <- FALSE,
             life <- assetLife, owner <- fsName, call <- contractCall

\* The file storage plugin keeps the promise of the plugin interface, with one
\* asset for all PVs of a claim: each step of a call, also when calls for one
\* claim overlap, is one that a shared plugin may take.  In particular a failing
\* Provision removes nothing, and Delete succeeds only for what is gone.
\* Rejected credentials are left out: with them Delete reports success for a file
\* system that stays (fss.go:437).
KeepsContract == Contract!Spec
=============================================================================
