------------------------- MODULE ProvisionController -------------------------
(***************************************************************************)
(* The provision controller of external-storage (vendored) as cmd/main.go  *)
(* runs it, composed with the dispatcher's Delete and with a plugin that   *)
(* keeps PluginContract.  Claims are worked on by a worker that holds the  *)
(* lock of the claim and by the goroutine that the worker starts, which    *)
(* goes on when the worker has lost the lock.                              *)
(*                                                                         *)
(* The lock itself is in ClaimLock, whose OneLeader acquire relies on:     *)
(* a claim can be acquired whenever no other controller is leading for it. *)
(* Informers, watches and timers have no clocks: whatever they may do late *)
(* happens at some later step.                                             *)
(***************************************************************************)
EXTENDS Naturals, FiniteSets

CONSTANTS
    Controllers,   \* processes of the provisioner
    Claims,        \* UIDs of claims for a class of this provisioner
    Assets,        \* OCIDs, reused once nothing refers to them
    Ops,           \* slots for goroutines that run provisionClaimOperation
    None,
    Shared,        \* does the plugin return one asset per claim (file storage)?
    Threads,       \* threadiness: workers of the claim queue of a controller
    Hanging,       \* claims for which calls of the plugin never return
    SaveTries,     \* createProvisionedPVRetryCount
    FailedProvisionThreshold,
    Faults,        \* kinds of trouble the environment may cause
    MaxFaults      \* how often it may cause any

\* "provision", "delete": the plugin fails; "lost": a request that saves or
\* removes a PV is lost, "answer": its answer is; "class": the storage class does
\* not fit; "crash": a process ends, by a signal or otherwise, and starts again;
\* "annotation": somebody edits the identity of a PV.
FaultKinds == {"provision", "delete", "lost", "answer", "class", "crash", "annotation"}

ASSUME ControllerAssumption ==
    /\ None \notin Claims \cup Assets \cup Controllers \cup Ops
    /\ Assets \cap {"pending", "gone"} = {} /\ Ops \cap (Controllers \X Assets) = {}
    /\ Shared \in BOOLEAN
    /\ Threads \in Nat \ {0} /\ Hanging \subseteq Claims
    /\ SaveTries \in Nat \ {0} /\ FailedProvisionThreshold \in Nat \ {0}
    /\ Faults \subseteq FaultKinds
    /\ MaxFaults \in Nat

VARIABLES
    life, owner, call,   \* the plugin and its service: see PluginContract
    claim,       \* "pending", "gone", or the asset of the PV it is bound to
    pv,          \* phase of the PV object named after each asset
    identity,    \* its identity annotation
    seen,        \* the claims in the informer's cache of each controller
    queue,       \* the claims in its queue
    worker,      \* the worker that has a claim in process
    told,        \* events that wait in the worker's watch of the claim
    provisionErr,\* the error variable of the worker's lock call
    op,          \* the goroutines of OnStartedLeading
    volWorker,   \* the workers of the volume queue
    orphans,     \* assets given up on record: in a log, an event or by a crash
    faultsLeft

plugin  == <<life, owner, call>>
kube    == <<claim, pv, identity>>
workers == <<seen, queue, worker, told, provisionErr>>
vars    == <<life, owner, call, claim, pv, identity, seen, queue, worker, told,
             provisionErr, op, volWorker, orphans, faultsLeft>>

\* The goroutines and the volume workers call the plugin.
Deleter(k, a) == <<k, a>>
Plugin == INSTANCE PluginContract
            WITH Calls <- Ops \cup (Controllers \X Assets), Outsiders <- FALSE

Free == [pc |-> "free", ctl |-> None, claim |-> None, asset |-> None, tries |-> 0,
         attached |-> FALSE]

Init ==
    /\ Plugin!Init
    /\ claim = [c \in Claims |-> "pending"]
    /\ pv = [a \in Assets |-> "none"]
    /\ identity = [a \in Assets |-> "none"]
    /\ seen = [k \in Controllers |-> [c \in Claims |-> "none"]]
    /\ queue = [k \in Controllers |-> {}]
    /\ worker = [k \in Controllers |-> [c \in Claims |-> "idle"]]
    /\ told = [k \in Controllers |-> [c \in Claims |-> {}]]
    /\ provisionErr = [k \in Controllers |-> [c \in Claims |-> FALSE]]
    /\ op = [o \in Ops |-> Free]
    /\ volWorker = [k \in Controllers |-> [a \in Assets |-> "idle"]]
    /\ orphans = {}
    /\ faultsLeft = MaxFaults

Fault(kind) ==
    /\ kind \in Faults /\ faultsLeft > 0
    /\ faultsLeft' = faultsLeft - 1

-----------------------------------------------------------------------------
(* Informer, queue and worker of a claim *)

Current(c) == IF claim[c] \in Assets THEN "bound"
              ELSE IF claim[c] = "gone" THEN "none" ELSE "pending"

\* The informer catches up; its handlers add a new or changed claim to the queue.
\* syncClaim does nothing for one that is cached as bound or no longer cached: here
\* such a claim leaves the queue at once.
InformerSees(k, c) ==
    /\ seen[k][c] # Current(c)
    /\ seen' = [seen EXCEPT ![k][c] = Current(c)]
    /\ queue' = [queue EXCEPT ![k] = IF Current(c) = "pending" THEN @ \cup {c} ELSE @ \ {c}]
    /\ UNCHANGED <<plugin, kube, worker, told, provisionErr, op, volWorker, orphans, faultsLeft>>

\* Without exponential back-off the limiter of the queue is a token bucket, which
\* does not count.
NumRequeues(c) == 0

\* A resync, or an update of the claim such as a renewal of its lock.
Resync(k, c) ==
    /\ seen[k][c] = "pending" /\ c \notin queue[k]
    /\ NumRequeues(c) = 0
    /\ queue' = [queue EXCEPT ![k] = @ \cup {c}]
    /\ UNCHANGED <<plugin, kube, seen, worker, told, provisionErr, op, volWorker, orphans, faultsLeft>>

\* A worker takes the claim, unless another has it in process, decides on the
\* cached claim and starts to watch it.  If that fails the claim is requeued.  As
\* no second worker gets the claim, none finds this process to be its leader
\* already, which would let it provision at once.
syncClaim(k, c) ==
    /\ c \in queue[k] /\ seen[k][c] = "pending" /\ worker[k][c] = "idle"
    /\ Cardinality({d \in Claims : worker[k][d] # "idle"}) < Threads
    /\ queue' = [queue EXCEPT ![k] = @ \ {c}]
    /\ worker' = [worker EXCEPT ![k][c] = "acquire"]
    /\ UNCHANGED <<plugin, kube, seen, told, provisionErr, op, volWorker, orphans, faultsLeft>>

\* Slots that are free are all alike.
FreeOp == CHOOSE o \in Ops : op[o].pc = "free"

\* The goroutine of OnStartedLeading starts as soon as the lock is acquired; the
\* claim is not looked at again.  Where Ops bounds the goroutines, the next one
\* stands for one that does not get to its first request during the term.
acquire(k, c) ==
    /\ worker[k][c] = "acquire"
    /\ \A j \in Controllers : worker[j][c] # "lead"
    /\ worker' = [worker EXCEPT ![k][c] = "lead"]
    /\ \/ /\ \E o \in Ops : op[o].pc = "free"
          /\ \A p \in Ops : op[p].claim = c => c \notin Hanging
          /\ op' = [op EXCEPT ![FreeOp] = [Free EXCEPT !.pc = "check", !.ctl = k, !.claim = c,
                                                       !.attached = TRUE]]
       \/ /\ \/ \A o \in Ops : op[o].pc # "free"
             \/ c \in Hanging /\ \E p \in Ops : op[p].claim = c
          /\ UNCHANGED op
    /\ UNCHANGED <<plugin, kube, seen, queue, told, provisionErr, volWorker, orphans, faultsLeft>>

\* Run returns: the worker reads provisionErr, with which it requeues the claim,
\* and is done with it.  A goroutine that still runs writes to a variable that
\* nobody reads any more.
RunReturns(k, c) ==
    /\ worker' = [worker EXCEPT ![k][c] = "idle"]
    /\ queue' = [queue EXCEPT ![k] =
                   IF provisionErr[k][c] /\ NumRequeues(c) < FailedProvisionThreshold
                   THEN @ \cup {c} ELSE @]
    /\ told' = [told EXCEPT ![k][c] = {}]
    /\ provisionErr' = [provisionErr EXCEPT ![k][c] = FALSE]
    /\ op' = [o \in Ops |-> IF op[o].ctl = k /\ op[o].claim = c
                            THEN [op[o] EXCEPT !.attached = FALSE] ELSE op[o]]
    /\ UNCHANGED <<plugin, kube, seen, volWorker, orphans, faultsLeft>>

\* Success is known from an event or from the claim itself.
Succeeded(k, c) == TRUE \in told[k][c] \/ claim[c] # "pending"

\* A worker that waits for the lock stops on success and ignores a failure.
stopAcquiring(k, c) ==
    /\ worker[k][c] = "acquire"
    /\ Succeeded(k, c)
    /\ RunReturns(k, c)

\* A leader stops on success and on failure.
stopLeading(k, c) ==
    /\ worker[k][c] = "lead"
    /\ Succeeded(k, c) \/ told[k][c] # {}
    /\ RunReturns(k, c)

\* Mutant: a leader waits for its task.
noTermLimit(k, c) ==
    /\ worker[k][c] = "lead"
    /\ \A o \in Ops : ~(op[o].attached /\ op[o].ctl = k /\ op[o].claim = c)
    /\ RunReturns(k, c)

\* The term limit is reached, or the lock could not be renewed in time.
termEnds(k, c) ==
    /\ worker[k][c] = "lead"
    /\ RunReturns(k, c)

-----------------------------------------------------------------------------
(* provisionClaimOperation *)

\* An event about the claim reaches every worker that watches it.
Event(c, success) ==
    told' = [k \in Controllers |->
               IF worker[k][c] = "idle" THEN told[k]
               ELSE [told[k] EXCEPT ![c] = @ \cup {success}]]

Goto(o, pc) == op' = [op EXCEPT ![o].pc = pc]

\* The deterministic name that the controller looks for, and the name that both
\* plugins give to a PV.
getProvisionedVolumeNameForClaim(c) == <<"pvc", c>>
PVName(a) == a

\* Up to the call of Provision: a PV with the name must not exist, and the class
\* must be one of ours.  Otherwise the operation ends without an error, except
\* that a mode that is not supported is announced, and that the options of a class
\* that cannot be read are an error.
checkVolume(o) ==
    LET c == op[o].claim
        exists == \E a \in Assets : pv[a] # "none"
                                    /\ PVName(a) = getProvisionedVolumeNameForClaim(c)
    IN
    /\ op[o].pc = "check"
    /\ \/ exists /\ op' = [op EXCEPT ![o] = Free] /\ UNCHANGED <<plugin, told, faultsLeft>>
       \/ ~exists /\ Plugin!Provision(o, c) /\ call'[o].status = "provisioning"
          /\ Goto(o, "provision") /\ UNCHANGED <<told, faultsLeft>>
       \/ /\ ~exists /\ Fault("class") /\ UNCHANGED plugin
          /\ \/ op' = [op EXCEPT ![o] = Free] /\ (UNCHANGED told \/ Event(c, FALSE))
             \/ Goto(o, "failed") /\ UNCHANGED told
    /\ UNCHANGED <<kube, seen, queue, worker, provisionErr, volWorker, orphans>>

\* Provision has returned.  A failure is announced before it is returned.
provisionReturns(o) ==
    /\ op[o].pc = "provision"
    /\ Plugin!Collect(o)
    /\ IF call[o].status = "pv"
       THEN /\ op' = [op EXCEPT ![o].pc = "save", ![o].asset = call[o].asset]
            /\ UNCHANGED told
       ELSE Goto(o, "failed") /\ Event(op[o].claim, FALSE)
    /\ UNCHANGED <<kube, seen, queue, worker, provisionErr, volWorker, orphans, faultsLeft>>

\* The error is written to the variable of the lock call, which the worker may
\* have read already.
returnErr(o) ==
    /\ op[o].pc = "failed"
    /\ provisionErr' = [provisionErr EXCEPT ![op[o].ctl][op[o].claim] = @ \/ op[o].attached]
    /\ op' = [op EXCEPT ![o] = Free]
    /\ UNCHANGED <<plugin, kube, seen, queue, worker, told, volWorker, orphans, faultsLeft>>

\* Mutant: the operation ends after the last failed try.
SaveFailedNoUndo(o) ==
    IF op[o].tries + 1 < SaveTries
    THEN op' = [op EXCEPT ![o].tries = @ + 1] /\ UNCHANGED told
    ELSE op' = [op EXCEPT ![o] = Free] /\ Event(op[o].claim, FALSE)

\* Mutant: one try too many.
SaveFailedLate(o) ==
    IF op[o].tries < SaveTries
    THEN op' = [op EXCEPT ![o].tries = @ + 1] /\ UNCHANGED told
    ELSE op' = [op EXCEPT ![o].pc = "undo", ![o].tries = 0] /\ Event(op[o].claim, FALSE)

\* One more try failed; after the last one the asset is to be deleted.
SaveFailed(o) ==
    IF op[o].tries + 1 < SaveTries
    THEN op' = [op EXCEPT ![o].tries = @ + 1] /\ UNCHANGED told
    ELSE op' = [op EXCEPT ![o].pc = "undo", ![o].tries = 0] /\ Event(op[o].claim, FALSE)

\* The PV object comes into being.
Saved(a) ==
    /\ pv[a] = "none"
    /\ pv' = [pv EXCEPT ![a] = "saved"]
    /\ identity' = [identity EXCEPT ![a] = "ours"]

\* A try to save the PV under the OCID of its asset.
savePV(o) ==
    LET a == op[o].asset IN
    /\ op[o].pc = "save"
    /\ \/ /\ Saved(a)
          /\ op' = [op EXCEPT ![o] = Free]
          /\ Event(op[o].claim, TRUE)
          /\ UNCHANGED faultsLeft
       \/ Saved(a) /\ SaveFailed(o) /\ Fault("answer")
       \/ pv[a] # "none" /\ SaveFailed(o) /\ UNCHANGED <<pv, identity, faultsLeft>>
       \/ SaveFailed(o) /\ Fault("lost") /\ UNCHANGED <<pv, identity>>
    /\ UNCHANGED <<plugin, claim, seen, queue, worker, provisionErr, volWorker, orphans>>

\* A try to delete the asset; the PV that Provision returned has our identity.
undo(o) ==
    /\ op[o].pc = "undo"
    /\ Plugin!Delete(o, op[o].asset) /\ call'[o].status = "deleting"
    /\ Goto(o, "undoing")
    /\ UNCHANGED <<kube, workers, volWorker, orphans, faultsLeft>>

\* After the last failed try the asset is left to the operator.
undoReturns(o) ==
    LET failed == call[o].status = "failed"
        last == op[o].tries + 1 = SaveTries
    IN
    /\ op[o].pc = "undoing"
    /\ Plugin!Collect(o)
    /\ op' = [op EXCEPT ![o] = IF failed /\ ~last
                               THEN [op[o] EXCEPT !.pc = "undo", !.tries = op[o].tries + 1]
                               ELSE Free]
    /\ orphans' = IF failed /\ last THEN orphans \cup {op[o].asset} ELSE orphans
    /\ UNCHANGED <<kube, workers, volWorker, faultsLeft>>

-----------------------------------------------------------------------------
(* deleteVolumeOperation and the dispatcher's Delete *)

\* Mutant: the phase of the PV is not looked at.
shouldDeleteAny(a) == pv[a] # "none"

\* The reclaim policy is Delete and the annotation of the provisioner is left alone.
shouldDelete(a) == pv[a] = "released"

\* The dispatcher's Delete calls the plugin only for a PV with our annotation: it
\* fails without one and ignores another's.
IdentityMatches(i) == i = "ours"

\* What the annotation is in the PV of the cache, which may miss an edit.
CachedIdentity(a) == {identity[a], "ours"}

\* Mutant: an asset that is gone already is an error.
deleteVolumeOnce(k, a) ==
    /\ volWorker[k][a] = "idle"
    /\ shouldDelete(a)
    /\ \E i \in CachedIdentity(a) : IdentityMatches(i)
    /\ life[a] # "gone"
    /\ Plugin!Delete(Deleter(k, a), a) /\ call'[Deleter(k, a)].status = "deleting"
    /\ volWorker' = [volWorker EXCEPT ![k][a] = "delete"]
    /\ UNCHANGED <<kube, workers, op, orphans, faultsLeft>>

\* The PV is read afresh for shouldDelete; Delete gets the one of the cache.  Where
\* the plugin is not called nothing is done.
deleteVolume(k, a) ==
    /\ volWorker[k][a] = "idle"
    /\ shouldDelete(a)
    /\ \E i \in CachedIdentity(a) : IdentityMatches(i)
    /\ Plugin!Delete(Deleter(k, a), a) /\ call'[Deleter(k, a)].status = "deleting"
    /\ volWorker' = [volWorker EXCEPT ![k][a] = "delete"]
    /\ UNCHANGED <<kube, workers, op, orphans, faultsLeft>>

deleteReturns(k, a) ==
    /\ volWorker[k][a] = "delete"
    /\ Plugin!Collect(Deleter(k, a))
    /\ volWorker' = [volWorker EXCEPT ![k][a] =
                       IF call[Deleter(k, a)].status = "deleted" THEN "remove" ELSE "idle"]
    /\ UNCHANGED <<kube, workers, op, orphans, faultsLeft>>

\* The PV object is removed; if that fails all is done again.
removePV(k, a) ==
    /\ volWorker[k][a] = "remove"
    /\ volWorker' = [volWorker EXCEPT ![k][a] = "idle"]
    /\ \/ /\ pv' = [pv EXCEPT ![a] = "none"]
          /\ identity' = [identity EXCEPT ![a] = "none"]
          /\ UNCHANGED faultsLeft
       \/ Fault("lost") /\ UNCHANGED <<pv, identity>>
    /\ UNCHANGED <<plugin, claim, workers, op, orphans>>

-----------------------------------------------------------------------------
(* The plugin, Kubernetes and crashes *)

Callers == Ops \cup (Controllers \X Assets)

\* The plugin gets on with its calls without trouble.
PluginWorks(c) ==
    /\ call[c].claim \notin Hanging
    /\ \/ \E a \in Assets : Plugin!Make(c, a) \/ Plugin!Find(c, a)
       \/ Plugin!ReturnPV(c)
       \/ Plugin!Remove(c) /\ call'[c].status = "deleted"
    /\ UNCHANGED <<kube, workers, op, volWorker, orphans, faultsLeft>>

\* A call fails; what a failed Provision leaves behind is known to nobody.
PluginFails(c) ==
    /\ call[c].claim \notin Hanging
    /\ \/ /\ Plugin!Provisioning(c) /\ Fault("provision")
          /\ \/ Plugin!Fail(c) \/ Plugin!FailAndRemove(c)
             \/ \E a \in Assets : Plugin!MakeUnknown(c, a)
          /\ orphans' = orphans \cup
               {a \in Assets : /\ life'[a] \in {"making", "ready"} /\ pv[a] = "none"
                               /\ a = call[c].asset \/ life[a] = "none"}
       \/ /\ ~Plugin!Provisioning(c) /\ Fault("delete")
          /\ Plugin!Fail(c) \/ (Plugin!Remove(c) /\ call'[c].status = "failed")
          /\ UNCHANGED orphans
    /\ UNCHANGED <<kube, workers, op, volWorker>>

AssetReady(a) ==
    Plugin!Progress(a) /\ UNCHANGED <<kube, workers, op, volWorker, orphans, faultsLeft>>

Referred(a) ==
    \/ pv[a] # "none" \/ \E c \in Claims : claim[c] = a
    \/ \E c \in Callers : call[c].asset = a \/ \E o \in Ops : op[o].asset = a
    \/ \E k \in Controllers : volWorker[k][a] # "idle"

\* There are OCIDs enough: one that nothing refers to and nobody will find again
\* serves as a fresh one.
FreshOCID(a) ==
    /\ life[a] = "gone" \/ (a \in orphans /\ ~Shared)
    /\ ~Referred(a)
    /\ life' = [life EXCEPT ![a] = "none"]
    /\ owner' = [owner EXCEPT ![a] = None]
    /\ orphans' = orphans \ {a}
    /\ UNCHANGED <<call, kube, workers, op, volWorker, faultsLeft>>

\* The claim of a PV is bound to it if it is still pending.
Bind(a) ==
    /\ pv[a] = "saved" /\ claim[owner[a]] = "pending"
    /\ pv' = [pv EXCEPT ![a] = "bound"]
    /\ claim' = [claim EXCEPT ![owner[a]] = a]
    /\ UNCHANGED <<plugin, identity, workers, op, volWorker, orphans, faultsLeft>>

\* A PV whose claim is gone or bound to another PV is released.
Release(a) ==
    /\ pv[a] \in {"saved", "bound"}
    /\ claim[owner[a]] \notin {"pending", a}
    /\ pv' = [pv EXCEPT ![a] = "released"]
    /\ UNCHANGED <<plugin, claim, identity, workers, op, volWorker, orphans, faultsLeft>>

DeleteClaim(c) ==
    /\ claim[c] # "gone"
    /\ claim' = [claim EXCEPT ![c] = "gone"]
    /\ UNCHANGED <<plugin, pv, identity, workers, op, volWorker, orphans, faultsLeft>>

EditIdentity(a) ==
    /\ pv[a] # "none" /\ identity[a] = "ours" /\ Fault("annotation")
    /\ \E i \in {"missing", "other"} : identity' = [identity EXCEPT ![a] = i]
    /\ UNCHANGED <<plugin, claim, pv, workers, op, volWorker, orphans>>

CallsOf(k) == {o \in Ops : op[o].ctl = k} \cup ({k} \X Assets)

\* The process ends where it stands and starts again with nothing in memory.
Crash(k) ==
    /\ Fault("crash")
    /\ seen' = [seen EXCEPT ![k] = [c \in Claims |-> "none"]]
    /\ queue' = [queue EXCEPT ![k] = {}]
    /\ worker' = [worker EXCEPT ![k] = [c \in Claims |-> "idle"]]
    /\ told' = [told EXCEPT ![k] = [c \in Claims |-> {}]]
    /\ provisionErr' = [provisionErr EXCEPT ![k] = [c \in Claims |-> FALSE]]
    /\ op' = [o \in Ops |-> IF op[o].ctl = k THEN Free ELSE op[o]]
    /\ volWorker' = [volWorker EXCEPT ![k] = [a \in Assets |-> "idle"]]
    /\ call' = [c \in Callers |-> IF c \in CallsOf(k) THEN Plugin!Idle ELSE call[c]]
    /\ orphans' = orphans \cup
         {a \in Assets : /\ life[a] \in {"making", "ready"} /\ pv[a] = "none"
                         /\ \E o \in Ops : op[o].ctl = k /\ a \in {op[o].asset, call[o].asset}}
    /\ UNCHANGED <<life, owner, kube>>

-----------------------------------------------------------------------------
Operation(o) ==
    \/ checkVolume(o) \/ provisionReturns(o) \/ returnErr(o)
    \/ savePV(o) \/ undo(o) \/ undoReturns(o)

Next ==
    \/ \E k \in Controllers, c \in Claims :
         \/ InformerSees(k, c) \/ Resync(k, c) \/ syncClaim(k, c)
         \/ acquire(k, c) \/ stopAcquiring(k, c) \/ stopLeading(k, c) \/ termEnds(k, c)
    \/ \E o \in Ops : Operation(o)
    \/ \E k \in Controllers, a \in Assets :
         deleteVolume(k, a) \/ deleteReturns(k, a) \/ removePV(k, a)
    \/ \E c \in Callers : PluginWorks(c) \/ PluginFails(c)
    \/ \E a \in Assets :
         AssetReady(a) \/ FreshOCID(a) \/ Bind(a) \/ Release(a) \/ EditIdentity(a)
    \/ \E c \in Claims : DeleteClaim(c)
    \/ \E k \in Controllers : Crash(k)

Spec == Init /\ [][Next]_vars

\* Informers, timers and watches make progress, and so do the Kubernetes binder and the
\* service.  The queue is first in, first out.  A worker that may take the lock of its
\* claim takes it or ends, and ends after its term.  Goroutines and volume workers go
\* on, in the plugin too unless the call hangs.  A PV whose identity was edited is
\* deleted only as long as the cache misses that.
Fairness ==
    /\ \A k \in Controllers, c \in Claims :
         /\ WF_vars(InformerSees(k, c)) /\ WF_vars(Resync(k, c))
         /\ SF_vars(syncClaim(k, c))
         /\ WF_vars(\/ acquire(k, c) \/ stopAcquiring(k, c)
                    \/ stopLeading(k, c) \/ termEnds(k, c))
    /\ \A o \in Ops : WF_vars(Operation(o) \/ PluginWorks(o))
    /\ \A k \in Controllers, a \in Assets :
         WF_vars(\/ IdentityMatches(identity[a]) /\ deleteVolume(k, a)
                 \/ deleteReturns(k, a) \/ removePV(k, a)
                 \/ PluginWorks(Deleter(k, a)))
    /\ \A a \in Assets : WF_vars(AssetReady(a) \/ Bind(a) \/ Release(a) \/ FreshOCID(a))

FairSpec == Spec /\ Fairness

-----------------------------------------------------------------------------
(* Properties *)

TypeOK ==
    /\ life \in [Assets -> Plugin!Lives]
    /\ owner \in [Assets -> Claims \cup {None}]
    /\ call \in [Callers -> [status : Plugin!Statuses, claim : Claims \cup {None},
                             asset : Assets \cup {None}]]
    /\ claim \in [Claims -> {"pending", "gone"} \cup Assets]
    /\ pv \in [Assets -> {"none", "saved", "bound", "released"}]
    /\ identity \in [Assets -> {"none", "ours", "missing", "other"}]
    /\ seen \in [Controllers -> [Claims -> {"none", "pending", "bound"}]]
    /\ queue \in [Controllers -> SUBSET Claims]
    /\ worker \in [Controllers -> [Claims -> {"idle", "acquire", "lead"}]]
    /\ told \in [Controllers -> [Claims -> SUBSET BOOLEAN]]
    /\ provisionErr \in [Controllers -> [Claims -> BOOLEAN]]
    /\ op \in [Ops -> [pc : {"free", "check", "provision", "failed", "save", "undo", "undoing"},
                       ctl : Controllers \cup {None}, claim : Claims \cup {None},
                       asset : Assets \cup {None}, tries : 0..(SaveTries - 1),
                       attached : BOOLEAN]]
    /\ volWorker \in [Controllers -> [Assets -> {"idle", "delete", "remove"}]]
    /\ orphans \subseteq Assets
    /\ faultsLeft \in 0..MaxFaults

\* A claim that is bound keeps its storage: no retry, no second provisioning of
\* the claim after a lost lock or from a stale cache, no undo of a failed save and
\* no deletion of a spare PV takes the asset of the PV the claim is bound to.
BoundKeepsStorage ==
    \A c \in Claims : claim[c] \in Assets => life[claim[c]] = "ready"

Working(a) ==
    \/ \E o \in Ops : op[o].asset = a
    \/ \E c \in Callers : Plugin!Provisioning(c) /\ call[c].asset = a
    \/ \E c \in Callers : call[c].status = "pv" /\ call[c].asset = a

\* Storage without a PV object is in the hands of an operation, or was given up
\* on record: a failed Provision, an undo that failed to the last try, a crash.
\* No other path through save, undo and delete loses an asset.
Accounted ==
    \A a \in Assets : life[a] \in {"making", "ready"} =>
        pv[a] # "none" \/ Working(a) \/ a \in orphans

\* What the comment of controller.go:1105 says where the undo begins: "we don't
\* have appropriate PV object for it".
UndoOnlyUnsaved == \A o \in Ops : op[o].pc = "undo" => pv[op[o].asset] = "none"

\* A claim that is not deleted gets bound in the end: no crash, lost lock or racy
\* read of provisionErr loses it, and calls for another claim that never return
\* (the metadata request of block.go:215 has no timeout) do not hold up its
\* workers for longer than a term.
EventuallyBound == \A c \in Claims \ Hanging : <>(claim[c] # "pending")

\* A released PV is removed in the end with its asset, also after a crash between
\* the two, unless its identity was edited.
EventuallyRemoved ==
    \A a \in Assets : pv[a] = "released" ~> pv[a] = "none" \/ identity[a] # "ours"
=============================================================================
