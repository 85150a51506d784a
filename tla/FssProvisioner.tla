--------------------------- MODULE FssProvisioner ---------------------------
(***************************************************************************)
(* The file storage plugin (pkg/provisioner/fss/fss.go): calls of          *)
(* Provision and Delete against the OCI file storage service.              *)
(*                                                                         *)
(* Provision is written to be retried: it looks for a file system with the *)
(* display name of the claim and for an export of it before it creates     *)
(* one, and it never deletes anything.  A call advances from one remote    *)
(* request to the next; other calls and the service move in between.       *)
(*                                                                         *)
(* The waits have a timer of five minutes and no other deadline, so a wait *)
(* may end with a timeout at any poll that finds the resource not ready.   *)
(***************************************************************************)
EXTENDS FiniteSets, Naturals

CONSTANTS
    Callers,          \* goroutines that call the plugin
    Claims,           \* UIDs of persistent volume claims
    Requests,         \* VolumeOptions and availability domain of a Provision
    ADs,              \* availability domains
    MountTargets,     \* mount targets, each with an export set of its own
    FsIDs, ExpIDs,    \* OCIDs the service can still hand out
    None,             \* no request, file system, export, mount target
    Serialised,       \* does the caller serialise the calls for a claim?
    Faults,           \* kinds of trouble the environment may cause
    MaxFaults         \* how often it may cause any

\* "create", "get", "delete": a request of that kind or its answer is lost;
\* "mt": a mount target breaks, is removed, or lacks an IP or an export set;
\* "auth": a delete answers 404 because credentials are no longer accepted.
FaultKinds == {"create", "get", "delete", "mt", "auth"}

ASSUME FssAssumption ==
    /\ Requests \subseteq [claim: Claims, ad: ADs,
                           annotation: MountTargets \cup {None},
                           parameter: MountTargets \cup {None}]
    /\ None \notin Claims \cup Requests \cup ADs \cup MountTargets \cup FsIDs \cup ExpIDs
    /\ Serialised \in BOOLEAN
    /\ Faults \subseteq FaultKinds
    /\ MaxFaults \in Nat

VARIABLES
    mtState,     \* lifecycle state of each mount target
    fsState,     \* lifecycle state of each file system
    fsName,      \* the claim whose UID is in its display name
    fsAD,        \* its availability domain
    expState,    \* lifecycle state of each export
    expFs,       \* the file system it exports
    expSet,      \* the mount target whose export set it is in
    pc, req,     \* where each call stands, and its request
    cfs, cexp,   \* the file system and the export it works on
    result,      \* outcome of a call that is done
    pvs,         \* PVs that callers got and have not deleted
    released,    \* claims that are gone, whose PVs are to be deleted
    faultsLeft   \* how many more faults there will be

service == <<mtState, fsState, fsName, fsAD, expState, expFs, expSet>>
locals  == <<req, cfs, cexp>>
env     == <<pvs, released>>
vars    == <<mtState, fsState, fsName, fsAD, expState, expFs, expSet,
             pc, req, cfs, cexp, result, pvs, released, faultsLeft>>

\* GONE: deleted long enough ago that the service answers 404 and lists nothing.
\* Only mount targets are ever FAILED.
States == {"ABSENT", "CREATING", "ACTIVE", "FAILED", "DELETING", "DELETED", "GONE"}
Dying == {"DELETING", "DELETED", "GONE"}
Unknown == {"ABSENT", "GONE"}
Pending == {"ABSENT", "CREATING"}

PCs == {"idle", "awaitMountTarget", "privateIP", "listFileSystems",
        "createFileSystem", "awaitFileSystem", "findExport", "createExport",
        "awaitExport", "deleteExport", "deleteFileSystem", "done"}

PVs == [claim: Claims, fs: FsIDs, exp: ExpIDs]

TypeOK ==
    /\ mtState \in [MountTargets -> States]
    /\ fsState \in [FsIDs -> States \ {"FAILED"}]
    /\ fsName \in [FsIDs -> Claims \cup {None}]
    /\ fsAD \in [FsIDs -> ADs \cup {None}]
    /\ expState \in [ExpIDs -> States \ {"FAILED"}]
    /\ expFs \in [ExpIDs -> FsIDs \cup {None}]
    /\ expSet \in [ExpIDs -> MountTargets \cup {None}]
    /\ pc \in [Callers -> PCs]
    /\ req \in [Callers -> Requests \cup {None}]
    /\ cfs \in [Callers -> FsIDs \cup {None}]
    /\ cexp \in [Callers -> ExpIDs \cup {None}]
    /\ result \in [Callers -> {"none", "ok", "error"}]
    /\ pvs \subseteq PVs
    /\ released \subseteq Claims
    /\ faultsLeft \in 0..MaxFaults

Init ==
    /\ mtState \in [MountTargets -> {"CREATING", "ACTIVE"}]
    /\ fsState = [f \in FsIDs |-> "ABSENT"]
    /\ fsName = [f \in FsIDs |-> None]
    /\ fsAD = [f \in FsIDs |-> None]
    /\ expState = [e \in ExpIDs |-> "ABSENT"]
    /\ expFs = [e \in ExpIDs |-> None]
    /\ expSet = [e \in ExpIDs |-> None]
    /\ pc = [c \in Callers |-> "idle"]
    /\ req = [c \in Callers |-> None]
    /\ cfs = [c \in Callers |-> None]
    /\ cexp = [c \in Callers |-> None]
    /\ result = [c \in Callers |-> "none"]
    /\ pvs = {}
    /\ released = {}
    /\ faultsLeft = MaxFaults

Goto(c, step) ==
    /\ pc' = [pc EXCEPT ![c] = step]
    /\ UNCHANGED <<result, faultsLeft>>

End(c, r) ==
    /\ pc' = [pc EXCEPT ![c] = "done"]
    /\ result' = [result EXCEPT ![c] = r]

\* The call ends with the given result.
Return(c, r) == End(c, r) /\ UNCHANGED faultsLeft

\* The environment causes some trouble, which ends the call with an error.
Fault(kind) ==
    /\ kind \in Faults /\ faultsLeft > 0
    /\ faultsLeft' = faultsLeft - 1

Fail(c, kind) == Fault(kind) /\ End(c, "error")

\* One poll of a resource in the given state.  When the resource is ACTIVE the
\* call goes on, when it never will be the call ends, and otherwise the call
\* polls again or, the timer having fired, gives up.
Poll(c, state, broken, goOn) ==
    \/ state = "ACTIVE" /\ goOn
    \/ state \in broken /\ Return(c, "error")
    \/ state \notin {"ACTIVE"} \cup broken /\ Goto(c, pc[c])
    \/ state \notin {"ACTIVE"} \cup broken /\ Return(c, "error")
    \/ Fail(c, "get")

-----------------------------------------------------------------------------
(* Provision *)

\* The annotation of the claim goes before the parameter of the class.
getMountTargetID(r) == IF r.annotation # None THEN r.annotation ELSE r.parameter

MountTarget(c) == getMountTargetID(req[c])

\* Provision up to the first request (lines 307-321).
Provision(c, r) ==
    /\ pc[c] = "idle"
    /\ req' = [req EXCEPT ![c] = r]
    /\ IF getMountTargetID(r) = None THEN Return(c, "error")
                                     ELSE Goto(c, "awaitMountTarget")
    /\ UNCHANGED <<service, cfs, cexp, env>>

awaitMountTarget(c) ==
    /\ pc[c] = "awaitMountTarget"
    /\ Poll(c, mtState[MountTarget(c)], {"FAILED", "DELETING", "DELETED"},
            Goto(c, "privateIP"))
    /\ UNCHANGED <<service, locals, env>>

\* The mount target must have an export set and private IPs, one of which is
\* resolved (lines 330-357).
GetPrivateIp(c) ==
    /\ pc[c] = "privateIP"
    /\ Goto(c, "listFileSystems") \/ Fail(c, "get") \/ Fail(c, "mt")
    /\ UNCHANGED <<service, locals, env>>

\* File systems the service lists for a display name in a domain: deleted
\* ones too, as long as it knows them.
Listed(claim, ad) ==
    {f \in FsIDs : fsName[f] = claim /\ fsAD[f] = ad /\ fsState[f] \notin Unknown}

\* Mutant: create without looking.
createWithoutLooking(c) ==
    /\ pc[c] = "listFileSystems"
    /\ Goto(c, "createFileSystem") \/ Fail(c, "get")
    /\ UNCHANGED <<service, locals, env>>

getFileSystemByDisplayName(c) ==
    LET found == Listed(req[c].claim, req[c].ad) IN
    /\ pc[c] = "listFileSystems"
    /\ \/ /\ \E f \in found : found = {f} /\ cfs' = [cfs EXCEPT ![c] = f]
          /\ Goto(c, "awaitFileSystem")
       \/ found = {} /\ Goto(c, "createFileSystem") /\ UNCHANGED cfs
       \/ Cardinality(found) > 1 /\ Return(c, "error") /\ UNCHANGED cfs
       \/ Fail(c, "get") /\ UNCHANGED cfs
    /\ UNCHANGED <<service, req, cexp, env>>

\* The service makes file system f for the request of call c.
FileSystemMade(c, f) ==
    /\ fsState[f] = "ABSENT"
    /\ fsState' = [fsState EXCEPT ![f] = "CREATING"]
    /\ fsName' = [fsName EXCEPT ![f] = req[c].claim]
    /\ fsAD' = [fsAD EXCEPT ![f] = req[c].ad]
    /\ UNCHANGED <<mtState, expState, expFs, expSet>>

CreateFileSystem(c) ==
    /\ pc[c] = "createFileSystem"
    /\ \E f \in FsIDs :
         FileSystemMade(c, f) /\ cfs' = [cfs EXCEPT ![c] = f]
    /\ Goto(c, "awaitFileSystem")
    /\ UNCHANGED <<req, cexp, env>>

\* The request is refused (also for want of quota), or the answer is lost.
CreateFileSystemFails(c) ==
    /\ pc[c] = "createFileSystem"
    /\ \/ Fail(c, "create") /\ (UNCHANGED service \/ \E f \in FsIDs : FileSystemMade(c, f))
       \/ /\ \A f \in FsIDs : fsState[f] # "ABSENT"
          /\ Return(c, "error") /\ UNCHANGED service
    /\ UNCHANGED <<locals, env>>

\* A file system that the service no longer knows is answered with a 404.
awaitFileSystem(c) ==
    /\ pc[c] = "awaitFileSystem"
    /\ Poll(c, fsState[cfs[c]], Dying, Goto(c, "findExport"))
    /\ UNCHANGED <<service, locals, env>>

\* Exports of the file system in the export set that can be used.
Usable(fs, mt) ==
    {e \in ExpIDs : expFs[e] = fs /\ expSet[e] = mt /\ expState[e] \in {"CREATING", "ACTIVE"}}

\* Mutant: exports are never looked up.
findNoExport(c) ==
    /\ pc[c] = "findExport"
    /\ Goto(c, "createExport") \/ Fail(c, "get")
    /\ UNCHANGED <<service, locals, env>>

\* The pages of the listing are read as one.
findExport(c) ==
    LET found == Usable(cfs[c], MountTarget(c)) IN
    /\ pc[c] = "findExport"
    /\ \/ /\ \E e \in found : cexp' = [cexp EXCEPT ![c] = e]
          /\ Goto(c, "awaitExport")
       \/ found = {} /\ Goto(c, "createExport") /\ UNCHANGED cexp
       \/ Fail(c, "get") /\ UNCHANGED cexp
    /\ UNCHANGED <<service, req, cfs, env>>

\* The service refuses an export of a file system that is going, and a second
\* export of one file system in one export set (the note of line 232).
Exportable(fs, mt) ==
    /\ fsState[fs] = "ACTIVE"
    /\ \A e \in ExpIDs : expFs[e] = fs /\ expSet[e] = mt =>
                           expState[e] \in {"DELETED", "GONE"}

ExportMade(c, e) ==
    /\ expState[e] = "ABSENT"
    /\ Exportable(cfs[c], MountTarget(c))
    /\ expState' = [expState EXCEPT ![e] = "CREATING"]
    /\ expFs' = [expFs EXCEPT ![e] = cfs[c]]
    /\ expSet' = [expSet EXCEPT ![e] = MountTarget(c)]
    /\ UNCHANGED <<mtState, fsState, fsName, fsAD>>

CreateExport(c) ==
    /\ pc[c] = "createExport"
    /\ \E e \in ExpIDs :
         ExportMade(c, e) /\ cexp' = [cexp EXCEPT ![c] = e]
    /\ Goto(c, "awaitExport")
    /\ UNCHANGED <<req, cfs, env>>

CreateExportFails(c) ==
    /\ pc[c] = "createExport"
    /\ \/ Fail(c, "create") /\ (UNCHANGED service \/ \E e \in ExpIDs : ExportMade(c, e))
       \/ /\ \/ ~Exportable(cfs[c], MountTarget(c))
             \/ \A e \in ExpIDs : expState[e] # "ABSENT"
          /\ Return(c, "error") /\ UNCHANGED service
    /\ UNCHANGED <<locals, env>>

\* Mutant: an export that is still being made counts as ready.
awaitExportLoosely(c) ==
    /\ pc[c] = "awaitExport"
    /\ expState[cexp[c]] \notin Dying
    /\ Return(c, "ok")
    /\ UNCHANGED <<service, locals, env>>

\* The last wait; the PV is built from the file system and the export.
awaitExport(c) ==
    /\ pc[c] = "awaitExport"
    /\ Poll(c, expState[cexp[c]], Dying, Return(c, "ok"))
    /\ UNCHANGED <<service, locals, env>>

-----------------------------------------------------------------------------
(* Delete *)

\* Mutant: a missing annotation is read as an empty OCID.
DeleteUnchecked(c, pv, annotated) ==
    /\ pc[c] = "idle"
    /\ cfs' = [cfs EXCEPT ![c] = IF annotated THEN pv.fs ELSE ""]
    /\ cexp' = [cexp EXCEPT ![c] = pv.exp]
    /\ Goto(c, "deleteExport")
    /\ UNCHANGED <<service, req, env>>

\* Both annotations must be on the PV (lines 404-414).
Delete(c, pv, annotated) ==
    /\ pc[c] = "idle"
    /\ cfs' = [cfs EXCEPT ![c] = pv.fs]
    /\ cexp' = [cexp EXCEPT ![c] = pv.exp]
    /\ IF annotated THEN Goto(c, "deleteExport") ELSE Return(c, "error")
    /\ UNCHANGED <<service, req, env>>

\* Mutant: a resource that is already gone is an error.
ToleratedOnlyOk(status) == status = "ok"

\* Mutant: every answer is taken for success.
ToleratedAll(status) == TRUE

\* Does the answer let the delete go on?
Tolerated(status) == status \in {"ok", "404"}

\* Answers to a delete request for a resource in the given state.
DeleteAnswers(state, inUse) ==
    (IF "auth" \in Faults THEN {"404"} ELSE {})
      \cup (IF state \in {"DELETED", "GONE"} THEN {"404"} ELSE {})
      \cup (IF state = "DELETING" THEN {"404", "409"} ELSE {})
      \cup (IF state \notin Dying /\ ~inUse THEN {"ok"} ELSE {})
      \cup (IF state \notin Dying /\ inUse THEN {"409"} ELSE {})

DeleteExport(c) ==
    /\ pc[c] = "deleteExport"
    /\ \E status \in DeleteAnswers(expState[cexp[c]], FALSE) :
         /\ expState' = IF status = "ok"
                        THEN [expState EXCEPT ![cexp[c]] = "DELETING"]
                        ELSE expState
         /\ IF Tolerated(status) THEN Goto(c, "deleteFileSystem")
                                 ELSE Return(c, "error")
    /\ UNCHANGED <<mtState, fsState, fsName, fsAD, expFs, expSet, locals, env>>

\* Exports that keep the service from deleting a file system.
Exports(fs) == {e \in ExpIDs : expFs[e] = fs /\ expState[e] \in {"CREATING", "ACTIVE"}}

DeleteFileSystem(c) ==
    /\ pc[c] = "deleteFileSystem"
    /\ \E status \in DeleteAnswers(fsState[cfs[c]], Exports(cfs[c]) # {}) :
         /\ fsState' = IF status = "ok"
                       THEN [fsState EXCEPT ![cfs[c]] = "DELETING"]
                       ELSE fsState
         /\ Return(c, IF Tolerated(status) THEN "ok" ELSE "error")
    /\ UNCHANGED <<mtState, fsName, fsAD, expState, expFs, expSet, locals, env>>

\* A delete request gets lost, or has its effect and the answer gets lost.
DeleteFails(c) ==
    /\ \/ /\ pc[c] \in {"deleteExport", "deleteFileSystem"}
          /\ UNCHANGED <<expState, fsState>>
       \/ /\ pc[c] = "deleteExport"
          /\ expState[cexp[c]] \notin Dying
          /\ expState' = [expState EXCEPT ![cexp[c]] = "DELETING"]
          /\ UNCHANGED fsState
       \/ /\ pc[c] = "deleteFileSystem"
          /\ fsState[cfs[c]] \notin Dying /\ Exports(cfs[c]) = {}
          /\ fsState' = [fsState EXCEPT ![cfs[c]] = "DELETING"]
          /\ UNCHANGED expState
    /\ Fail(c, "delete")
    /\ UNCHANGED <<mtState, fsName, fsAD, expFs, expSet, locals, env>>

-----------------------------------------------------------------------------
(* The callers and the service *)

Provisioned(c) == pc[c] = "done" /\ result[c] = "ok" /\ req[c] # None
Deleted(c) == pc[c] = "done" /\ result[c] = "ok" /\ req[c] = None

PVOf(c) == [claim |-> req[c].claim, fs |-> cfs[c], exp |-> cexp[c]]

Collect(c) ==
    /\ pc[c] = "done"
    /\ pvs' = IF Provisioned(c) THEN pvs \cup {PVOf(c)}
              ELSE IF Deleted(c) THEN {pv \in pvs : pv.fs # cfs[c]}
              ELSE pvs
    /\ pc' = [pc EXCEPT ![c] = "idle"]
    /\ req' = [req EXCEPT ![c] = None]
    /\ cfs' = [cfs EXCEPT ![c] = None]
    /\ cexp' = [cexp EXCEPT ![c] = None]
    /\ result' = [result EXCEPT ![c] = "none"]
    /\ UNCHANGED <<service, released, faultsLeft>>

\* A claim is provisioned for until it has a PV or is gone; at most one call
\* works for it at a time when the caller serialises.
MayProvision(claim) ==
    Serialised => /\ claim \notin released
                  /\ \A pv \in pvs : pv.claim # claim
                  /\ \A d \in Callers : req[d] # None => req[d].claim # claim

\* A PV is deleted once its claim is gone, by one worker at a time.  A caller
\* that does not serialise also deletes what it could not save as a PV.
MayDelete(pv) ==
    Serialised => /\ pv.claim \in released
                  /\ \A d \in Callers :
                       ~(pc[d] # "idle" /\ req[d] = None /\ cfs[d] = pv.fs)

Release(claim) ==
    /\ claim \notin released
    /\ released' = released \cup {claim}
    /\ UNCHANGED <<service, pc, locals, result, pvs, faultsLeft>>

\* Lifecycle at the service.
NextStates(s) ==
    CASE s = "CREATING" -> {"ACTIVE"}
      [] s = "DELETING" -> {"DELETED"}
      [] s = "DELETED"  -> {"GONE"}
      [] OTHER          -> {}

FileSystemProgress(f) ==
    /\ \E s \in NextStates(fsState[f]) : fsState' = [fsState EXCEPT ![f] = s]
    /\ UNCHANGED <<mtState, fsName, fsAD, expState, expFs, expSet,
                   pc, locals, result, env, faultsLeft>>

ExportProgress(e) ==
    /\ \E s \in NextStates(expState[e]) : expState' = [expState EXCEPT ![e] = s]
    /\ UNCHANGED <<mtState, fsState, fsName, fsAD, expFs, expSet,
                   pc, locals, result, env, faultsLeft>>

MountTargetProgress(m) ==
    /\ \/ /\ mtState[m] = "CREATING"
          /\ mtState' = [mtState EXCEPT ![m] = "ACTIVE"]
          /\ UNCHANGED faultsLeft
       \/ /\ mtState[m] = "CREATING" /\ Fault("mt")
          /\ mtState' = [mtState EXCEPT ![m] = "FAILED"]
       \/ /\ mtState[m] = "ACTIVE" /\ Fault("mt")
          /\ mtState' = [mtState EXCEPT ![m] = "DELETING"]
    /\ UNCHANGED <<fsState, fsName, fsAD, expState, expFs, expSet,
                   pc, locals, result, env>>

-----------------------------------------------------------------------------
\* What the plugin does once it has been called.
Step(c) ==
    \/ awaitMountTarget(c)
    \/ GetPrivateIp(c)
    \/ getFileSystemByDisplayName(c)
    \/ CreateFileSystem(c)
    \/ CreateFileSystemFails(c)
    \/ awaitFileSystem(c)
    \/ findExport(c)
    \/ CreateExport(c)
    \/ CreateExportFails(c)
    \/ awaitExport(c)
    \/ DeleteExport(c)
    \/ DeleteFileSystem(c)
    \/ DeleteFails(c)

Call(c) ==
    \/ \E r \in Requests : MayProvision(r.claim) /\ Provision(c, r)
    \/ \E pv \in pvs, annotated \in BOOLEAN : MayDelete(pv) /\ Delete(c, pv, annotated)

Next ==
    \/ \E c \in Callers : Call(c) \/ Step(c) \/ Collect(c)
    \/ \E claim \in Claims : Release(claim)
    \/ \E f \in FsIDs : FileSystemProgress(f)
    \/ \E e \in ExpIDs : ExportProgress(e)
    \/ \E m \in MountTargets : MountTargetProgress(m)

Spec == Init /\ [][Next]_vars

\* A request returns within the timeout of the SDK's HTTP client and a wait
\* ends with its timer; resources that are being made or deleted get there;
\* the controller takes results and retries a claim or a PV until it is done.
Fairness ==
    /\ \A c \in Callers : WF_vars(Step(c)) /\ WF_vars(Collect(c))
    /\ \A f \in FsIDs : WF_vars(FileSystemProgress(f))
    /\ \A e \in ExpIDs : WF_vars(ExportProgress(e))
    /\ \A m \in MountTargets : WF_vars(MountTargetProgress(m))
    /\ \A claim \in Claims :
         SF_vars(\E c \in Callers, r \in Requests :
                   r.claim = claim /\ MayProvision(claim) /\ Provision(c, r))
    /\ \A claim \in Claims :
         SF_vars(\E c \in Callers, pv \in pvs :
                   pv.claim = claim /\ MayDelete(pv) /\ Delete(c, pv, TRUE))

FairSpec == Spec /\ Fairness

-----------------------------------------------------------------------------
(* Properties *)

\* A PV names a file system that was made for its claim and an export of just
\* that file system, both past creation, also when calls for one claim overlap
\* and each finds what the other created.
PVsConsistent ==
    \A pv \in pvs \cup {PVOf(c) : c \in {d \in Callers : Provisioned(d)}} :
        /\ fsName[pv.fs] = pv.claim /\ fsState[pv.fs] \notin Pending
        /\ expFs[pv.exp] = pv.fs /\ expState[pv.exp] \notin Pending

\* A retry after a lost answer, a timeout or a fault finds what the attempt
\* before it created: as long as calls for a claim are serialised there is at
\* most one file system with its name in a domain, so that
\* getFileSystemByDisplayName never comes to its "more than one" error.
OneFileSystemPerName ==
    \A claim \in Claims, ad \in ADs : Cardinality(Listed(claim, ad)) <= 1

\* When Delete returns no error, both the export and the file system are going
\* or gone, also when an earlier attempt stopped half way, unless a 404 stood for
\* rejected credentials: IsNotFound tells it from no other 404 (lines 425 and 437).
DeleteOkMeansGone ==
    \A c \in Callers :
        Deleted(c) /\ "auth" \notin Faults =>
            expState[cexp[c]] \in Dying /\ fsState[cfs[c]] \in Dying

\* What the comment of line 403 says: "Delete terminates the OCI resources
\* associated with the given PVC": no file system of the claim is left.  (Not
\* to be had where a 404 may stand for rejected credentials.)
DeleteTerminatesAll ==
    \A c \in Callers, f \in FsIDs :
        Deleted(c) /\ fsName[f] = fsName[cfs[c]] => fsState[f] \in Dying

\* A claim that stays gets its PV in the end, whatever the finitely many
\* faults left behind: lost answers never wedge later attempts.
EventuallyProvisioned ==
    \A claim \in Claims :
        <>(claim \in released \/ \E pv \in pvs : pv.claim = claim)

\* The PV of a claim that is gone is deleted in the end: a delete that stopped
\* between export and file system can be repeated.
EventuallyDeleted ==
    \A claim \in Claims :
        claim \in released /\ (\E pv \in pvs : pv.claim = claim)
            ~> \A pv \in pvs : pv.claim # claim
=============================================================================
