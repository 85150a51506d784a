-------------------------- MODULE BlockProvisioner --------------------------
(***************************************************************************)
(* The block volume plugin (pkg/provisioner/block/block.go): concurrent    *)
(* calls of Provision and Delete against the OCI block storage service.    *)
(*                                                                         *)
(* A call is a row of the functions pc, req, cvol, ctxLeft, pollLeft and   *)
(* result.  It advances from one remote request to the next: the code      *)
(* between two requests is one atomic step, other calls, the service and   *)
(* the clock move in between.                                              *)
(*                                                                         *)
(* Two clocks bound a call: the context made at block.go:189, which every  *)
(* later request of the call inherits, and the timer of wait.PollImmediate *)
(* which starts after the first poll.  Both are counted down by Tick.      *)
(***************************************************************************)
EXTENDS VolumeSize, FiniteSets

CONSTANTS
    Callers,          \* goroutines that call the plugin
    Claims,           \* names of persistent volume claims
    Requests,         \* the VolumeOptions that Provision may be called with
    VolIDs,           \* OCIDs the service can still hand out
    NoVol, NoReq,     \* no volume, no request
    ClientTimeout,    \* client.Timeout(), client.go:184, in ticks
    BlockTimeout,     \* block.timeout, core/provisioner.go:104, in ticks
    RegionKnown,      \* is OCI_SHORT_REGION set in the environment?
    ApiFaults         \* kinds of trouble the environment may cause

AccessModes == {"ReadWriteOnce", "ReadOnlyMany", "ReadWriteMany"}
NoCapacity == -1      \* the claim has no storage request

\* "create", "get", "delete": the request or its answer gets lost; "metadata":
\* the instance metadata endpoint fails; "user": somebody else deletes volumes;
\* "auth": a delete answers 404 because credentials are no longer accepted.
FaultKinds == {"create", "get", "delete", "metadata", "user", "auth"}

ASSUME BlockAssumption ==
    /\ Requests \subseteq [claim: Claims, modes: SUBSET AccessModes,
                           capacity: Capacities \cup {NoCapacity},
                           rounding: RoundingParams]
    /\ NoVol \notin VolIDs /\ NoReq \notin Requests \cup VolIDs
    /\ ClientTimeout \in Nat \ {0}
    /\ BlockTimeout \in Nat \ {0}
    /\ RegionKnown \in BOOLEAN
    /\ ApiFaults \subseteq FaultKinds

\* core/provisioner.go:104,106 and client.go:184 both say three minutes.
ASSUME TimeoutAssumption == ClientTimeout <= BlockTimeout

VARIABLES
    volState,    \* lifecycle state of each volume at the service
    volSize,     \* its size, in units of 1MiB
    volClaim,    \* the claim its display name was made from
    pc,          \* where each call stands
    req,         \* the request of a call of Provision
    cvol,        \* the volume the call works on
    ctxLeft,     \* ticks until the context of the call expires
    pollLeft,    \* ticks until the poll timer fires
    result,      \* "ok" or the reason of the error, once the call is done
    pvs          \* the PVs that callers got and have not deleted

service == <<volState, volSize, volClaim>>
calls   == <<pc, req, cvol, ctxLeft, pollLeft, result>>
vars    == <<volState, volSize, volClaim, pc, req, cvol, ctxLeft, pollLeft,
             result, pvs>>

\* RESTORING, the state of a volume that is made from a backup, is treated by
\* the code like PROVISIONING and has no state of its own here.
LifecycleStates ==
    {"ABSENT", "PROVISIONING", "AVAILABLE", "FAULTY", "TERMINATING", "TERMINATED"}
Dying == {"TERMINATING", "TERMINATED"}

PCs == {"idle", "create", "firstPoll", "poll", "cleanup", "region",
        "delete", "done"}
\* Where a call holds a context with a deadline and waits for the service.
Bounded == {"create", "firstPoll", "poll", "cleanup", "delete"}

Results == {"none", "ok", "accessMode", "capacity", "create", "get", "state",
            "timeout", "metadata", "annotation", "delete"}

PVs == [vol: VolIDs, req: Requests, capacity: Capacities]

TypeOK ==
    /\ volState \in [VolIDs -> LifecycleStates]
    /\ volSize \in [VolIDs -> Int]
    /\ volClaim \in [VolIDs -> Claims \cup {NoReq}]
    /\ pc \in [Callers -> PCs]
    /\ req \in [Callers -> Requests \cup {NoReq}]
    /\ cvol \in [Callers -> VolIDs \cup {NoVol}]
    /\ ctxLeft \in [Callers -> 0..ClientTimeout]
    /\ pollLeft \in [Callers -> 0..BlockTimeout]
    /\ result \in [Callers -> Results]
    /\ pvs \subseteq PVs

Init ==
    /\ volState = [v \in VolIDs |-> "ABSENT"]
    /\ volSize = [v \in VolIDs |-> 0]
    /\ volClaim = [v \in VolIDs |-> NoReq]
    /\ pc = [c \in Callers |-> "idle"]
    /\ req = [c \in Callers |-> NoReq]
    /\ cvol = [c \in Callers |-> NoVol]
    /\ ctxLeft = [c \in Callers |-> 0]
    /\ pollLeft = [c \in Callers |-> 0]
    /\ result = [c \in Callers |-> "none"]
    /\ pvs = {}

\* The call ends with the given result.
Return(c, r) ==
    /\ pc' = [pc EXCEPT ![c] = "done"]
    /\ result' = [result EXCEPT ![c] = r]

Goto(c, step) ==
    /\ pc' = [pc EXCEPT ![c] = step]
    /\ UNCHANGED result

-----------------------------------------------------------------------------
(* Provision *)

\* Checks on the request, then a context with a deadline (block.go:147-190).
Provision(c, r) ==
    /\ pc[c] = "idle"
    /\ req' = [req EXCEPT ![c] = r]
    /\ \/ /\ r.modes \ {"ReadWriteOnce"} # {}
          /\ Return(c, "accessMode")
          /\ UNCHANGED ctxLeft
       \/ /\ r.modes \subseteq {"ReadWriteOnce"}
          /\ r.capacity = NoCapacity
          /\ Return(c, "capacity")
          /\ UNCHANGED ctxLeft
       \/ /\ r.modes \subseteq {"ReadWriteOnce"}
          /\ r.capacity # NoCapacity
          /\ ctxLeft' = [ctxLeft EXCEPT ![c] = ClientTimeout]
          /\ Goto(c, "create")
    /\ UNCHANGED <<service, cvol, pollLeft, pvs>>

\* The service makes volume v for the request of call c.  A size below one
\* unit is refused.
Created(c, v) ==
    LET size == VolSizeMB(req[c].capacity, req[c].rounding) IN
    /\ volState[v] = "ABSENT"
    /\ size > 0
    /\ volState' = [volState EXCEPT ![v] = "PROVISIONING"]
    /\ volSize' = [volSize EXCEPT ![v] = size]
    /\ volClaim' = [volClaim EXCEPT ![v] = req[c].claim]

\* Mutant: a volume with the display name of the claim is taken as it is.
CreateVolumeOrReuse(c) ==
    /\ pc[c] = "create"
    /\ ctxLeft[c] > 0
    /\ \E v \in VolIDs :
         /\ \/ Created(c, v)
            \/ volClaim[v] = req[c].claim /\ UNCHANGED service
         /\ cvol' = [cvol EXCEPT ![c] = v]
    /\ Goto(c, "firstPoll")
    /\ UNCHANGED <<req, ctxLeft, pollLeft, pvs>>

\* The volume is made and the answer arrives in time.
CreateVolume(c) ==
    /\ pc[c] = "create"
    /\ ctxLeft[c] > 0
    /\ \E v \in VolIDs :
         /\ Created(c, v)
         /\ cvol' = [cvol EXCEPT ![c] = v]
    /\ Goto(c, "firstPoll")
    /\ UNCHANGED <<req, ctxLeft, pollLeft, pvs>>

\* The service refuses or does not get the request (quota, throttling, ...).
CreateVolumeRefused(c) ==
    /\ pc[c] = "create"
    /\ "create" \in ApiFaults \/ ctxLeft[c] = 0
         \/ VolSizeMB(req[c].capacity, req[c].rounding) <= 0
    /\ Return(c, "create")
    /\ UNCHANGED <<service, req, cvol, ctxLeft, pollLeft, pvs>>

\* The volume is made, its OCID never arrives or arrives after the deadline:
\* the SDK returns the error of the context then (common/retry.go:107-111).
CreateVolumeAnswerLost(c) ==
    /\ pc[c] = "create"
    /\ "create" \in ApiFaults \/ ctxLeft[c] = 0
    /\ \E v \in VolIDs : Created(c, v)
    /\ Return(c, "create")
    /\ UNCHANGED <<req, cvol, ctxLeft, pollLeft, pvs>>

\* The polls of wait.PollImmediate: one at once, then the timer is started,
\* one at each interval, and a last one after the timer has fired.
Polling(c) == pc[c] \in {"firstPoll", "poll"}
LastPoll(c) == pc[c] = "poll" /\ pollLeft[c] = 0

\* Mutant: each poll has a context of its own.
GetVolumeAlwaysAnswers(c) == TRUE

\* A poll inherits the context of the call.
GetVolumeAnswers(c) == ctxLeft[c] > 0

\* GetVolume fails, which ends the wait at once (lines 110-112).
PollFails(c) ==
    /\ Polling(c)
    /\ "get" \in ApiFaults \/ ~GetVolumeAnswers(c)
    /\ pc' = [pc EXCEPT ![c] = "cleanup"]
    /\ result' = [result EXCEPT ![c] = "get"]
    /\ UNCHANGED <<service, req, cvol, ctxLeft, pollLeft, pvs>>

\* Mutant: any volume whose making is over counts as ready.
ReadyOnceMade == {"AVAILABLE", "FAULTY"} \cup Dying

ReadyStates == {"AVAILABLE"}

PollReady(c) ==
    /\ Polling(c)
    /\ GetVolumeAnswers(c)
    /\ volState[cvol[c]] \in ReadyStates
    /\ Goto(c, "region")
    /\ UNCHANGED <<service, req, cvol, ctxLeft, pollLeft, pvs>>

PollBroken(c) ==
    /\ Polling(c)
    /\ GetVolumeAnswers(c)
    /\ volState[cvol[c]] \in {"FAULTY"} \cup Dying
    /\ pc' = [pc EXCEPT ![c] = "cleanup"]
    /\ result' = [result EXCEPT ![c] = "state"]
    /\ UNCHANGED <<service, req, cvol, ctxLeft, pollLeft, pvs>>

\* Not there yet: poll again, or give up after the last poll.
PollAgain(c) ==
    /\ Polling(c)
    /\ GetVolumeAnswers(c)
    /\ volState[cvol[c]] = "PROVISIONING"
    /\ IF LastPoll(c)
       THEN /\ pc' = [pc EXCEPT ![c] = "cleanup"]
            /\ result' = [result EXCEPT ![c] = "timeout"]
            /\ UNCHANGED pollLeft
       ELSE /\ Goto(c, "poll")
            /\ pollLeft' = IF pc[c] = "firstPoll"
                           THEN [pollLeft EXCEPT ![c] = BlockTimeout]
                           ELSE pollLeft
    /\ UNCHANGED <<service, req, cvol, ctxLeft, pvs>>

\* Mutant: the wait ends without deleting the volume.
ReturnWithoutCleanup(c) ==
    /\ pc[c] = "cleanup"
    /\ Return(c, result[c])
    /\ UNCHANGED <<service, req, cvol, ctxLeft, pollLeft, pvs>>

\* Mutant: the delete is repeated until it has had its effect.
CleanupRetried(c) ==
    /\ pc[c] = "cleanup"
    /\ \/ /\ ctxLeft[c] > 0
          /\ volState' = [volState EXCEPT ![cvol[c]] = "TERMINATING"]
          /\ Return(c, result[c])
       \/ /\ ctxLeft[c] = 0 \/ "delete" \in ApiFaults
          /\ UNCHANGED <<volState, pc, result>>
    /\ UNCHANGED <<volSize, volClaim, req, cvol, ctxLeft, pollLeft, pvs>>

\* Lines 201-208.  The context of the delete request is a child of the one of
\* the call.  After the deadline the HTTP client gives the request up: it is
\* not sent, or just makes it onto an idle connection.  The answer is ignored.
Cleanup(c) ==
    /\ pc[c] = "cleanup"
    /\ \/ /\ volState[cvol[c]] \notin Dying
          /\ volState' = [volState EXCEPT ![cvol[c]] = "TERMINATING"]
       \/ /\ \/ ctxLeft[c] = 0
             \/ "delete" \in ApiFaults
             \/ volState[cvol[c]] \in Dying
          /\ UNCHANGED volState
    /\ Return(c, result[c])
    /\ UNCHANGED <<volSize, volClaim, req, cvol, ctxLeft, pollLeft, pvs>>

\* The short region comes from the environment or from the metadata endpoint;
\* when that fails the available volume is abandoned (lines 213-220).
Region(c) ==
    /\ pc[c] = "region"
    /\ \/ Return(c, "ok")
       \/ ~RegionKnown /\ "metadata" \in ApiFaults /\ Return(c, "metadata")
    /\ UNCHANGED <<service, req, cvol, ctxLeft, pollLeft, pvs>>

-----------------------------------------------------------------------------
(* Delete *)

\* Mutant: a missing annotation is read as an empty OCID.
DeleteUnchecked(c, pv, annotated) ==
    /\ pc[c] = "idle"
    /\ cvol' = [cvol EXCEPT ![c] = IF annotated THEN pv.vol ELSE ""]
    /\ ctxLeft' = [ctxLeft EXCEPT ![c] = ClientTimeout]
    /\ Goto(c, "delete")
    /\ UNCHANGED <<service, req, pollLeft, pvs>>

\* The PV names its volume in an annotation, which may have been removed.
Delete(c, pv, annotated) ==
    /\ pc[c] = "idle"
    /\ IF annotated
       THEN /\ cvol' = [cvol EXCEPT ![c] = pv.vol]
            /\ ctxLeft' = [ctxLeft EXCEPT ![c] = ClientTimeout]
            /\ Goto(c, "delete")
       ELSE /\ Return(c, "annotation")
            /\ UNCHANGED <<cvol, ctxLeft>>
    /\ UNCHANGED <<service, req, pollLeft, pvs>>

\* Mutant: every answer of the service ends the delete.
DeleteAnswered(status) == TRUE

\* Does an answer with this status end the delete without an error?
DeleteSucceeded(status) == status \in {"deleted", "404"}

\* The answers the service may give to a delete request for v.
DeleteAnswers(v) ==
    (IF volState[v] \in Dying THEN {"404"} ELSE {"deleted"})
        \cup (IF volState[v] = "TERMINATING" THEN {"409"} ELSE {})
        \cup (IF "auth" \in ApiFaults THEN {"404"} ELSE {})
        \cup (IF "delete" \in ApiFaults THEN {"409"} ELSE {})

\* The answer arrives in time.
DeleteVolume(c) ==
    /\ pc[c] = "delete"
    /\ ctxLeft[c] > 0
    /\ \E status \in DeleteAnswers(cvol[c]) :
         /\ volState' = IF status = "deleted"
                        THEN [volState EXCEPT ![cvol[c]] = "TERMINATING"]
                        ELSE volState
         /\ Return(c, IF DeleteSucceeded(status) THEN "ok" ELSE "delete")
    /\ UNCHANGED <<volSize, volClaim, req, cvol, ctxLeft, pollLeft, pvs>>

\* No answer in time; the request may or may not have had its effect.
DeleteVolumeAnswerLost(c) ==
    /\ pc[c] = "delete"
    /\ "delete" \in ApiFaults \/ ctxLeft[c] = 0
    /\ \/ /\ volState[cvol[c]] \notin Dying
          /\ volState' = [volState EXCEPT ![cvol[c]] = "TERMINATING"]
       \/ UNCHANGED volState
    /\ Return(c, "delete")
    /\ UNCHANGED <<volSize, volClaim, req, cvol, ctxLeft, pollLeft, pvs>>

-----------------------------------------------------------------------------
(* The callers, the service and the clock *)

\* The PV that Provision returns (lines 222-247).
PVOf(c) == [vol |-> cvol[c], req |-> req[c],
            capacity |-> PVCapacity(req[c].capacity, req[c].rounding)]

Provisioned(c) == pc[c] = "done" /\ result[c] = "ok" /\ req[c] # NoReq
Deleted(c) == pc[c] = "done" /\ result[c] = "ok" /\ req[c] = NoReq

\* The caller takes the result.
Collect(c) ==
    /\ pc[c] = "done"
    /\ pvs' = IF Provisioned(c) THEN pvs \cup {PVOf(c)}
              ELSE IF Deleted(c) THEN {pv \in pvs : pv.vol # cvol[c]}
              ELSE pvs
    /\ pc' = [pc EXCEPT ![c] = "idle"]
    /\ req' = [req EXCEPT ![c] = NoReq]
    /\ cvol' = [cvol EXCEPT ![c] = NoVol]
    /\ ctxLeft' = [ctxLeft EXCEPT ![c] = 0]
    /\ pollLeft' = [pollLeft EXCEPT ![c] = 0]
    /\ result' = [result EXCEPT ![c] = "none"]
    /\ UNCHANGED service

\* Lifecycle of a volume at the service.
VolumeProgress(v) ==
    /\ \/ /\ volState[v] = "PROVISIONING"
          /\ \E s \in {"AVAILABLE", "FAULTY"} :
               volState' = [volState EXCEPT ![v] = s]
       \/ /\ volState[v] = "TERMINATING"
          /\ volState' = [volState EXCEPT ![v] = "TERMINATED"]
       \/ /\ volState[v] = "AVAILABLE"
          /\ "user" \in ApiFaults
          /\ volState' = [volState EXCEPT ![v] = "TERMINATING"]
    /\ UNCHANGED <<volSize, volClaim, calls, pvs>>

CtxRuns(c) == pc[c] \in Bounded /\ ctxLeft[c] > 0
PollTimerRuns(c) == pc[c] = "poll" /\ pollLeft[c] > 0

\* One unit of time passes for every call.
Tick ==
    /\ \E c \in Callers : CtxRuns(c) \/ PollTimerRuns(c)
    /\ ctxLeft' = [c \in Callers |->
                     IF CtxRuns(c) THEN ctxLeft[c] - 1 ELSE ctxLeft[c]]
    /\ pollLeft' = [c \in Callers |->
                     IF PollTimerRuns(c) THEN pollLeft[c] - 1 ELSE pollLeft[c]]
    /\ UNCHANGED <<service, pc, req, cvol, result, pvs>>

-----------------------------------------------------------------------------
\* What the plugin does once it has been called.
Step(c) ==
    \/ CreateVolume(c)
    \/ CreateVolumeRefused(c)
    \/ CreateVolumeAnswerLost(c)
    \/ PollFails(c)
    \/ PollReady(c)
    \/ PollBroken(c)
    \/ PollAgain(c)
    \/ Cleanup(c)
    \/ Region(c)
    \/ DeleteVolume(c)
    \/ DeleteVolumeAnswerLost(c)

Next ==
    \/ \E c \in Callers :
         \/ \E r \in Requests : Provision(c, r)
         \/ \E pv \in pvs, annotated \in BOOLEAN : Delete(c, pv, annotated)
         \/ Step(c)
         \/ Collect(c)
    \/ \E v \in VolIDs : VolumeProgress(v)
    \/ Tick

Spec == Init /\ [][Next]_vars

\* Every request of a bounded step carries the context of the call, so it
\* comes back at the latest when the deadline has passed, and time passes.
\* Nothing is assumed of the metadata endpoint, whose client has no timeout,
\* of the service, which may leave a volume PROVISIONING, or of the callers.
Fairness ==
    /\ \A c \in Callers : WF_vars(pc[c] \in Bounded /\ Step(c))
    /\ WF_vars(Tick)

FairSpec == Spec /\ Fairness

-----------------------------------------------------------------------------
(* Properties *)

\* A call of Provision that has a volume of its own.
Owns(c) == req[c] # NoReq /\ cvol[c] # NoVol

\* A PV is only ever made for a volume that GetVolume has reported AVAILABLE: no
\* caller holds a PV whose volume is still being made, was never made or turned out
\* FAULTY, and one that is not AVAILABLE any more has been deleted since.
PVsBacked ==
    /\ \A pv \in pvs : volState[pv.vol] \in {"AVAILABLE"} \cup Dying
    /\ \A c \in Callers : Provisioned(c) => volState[cvol[c]] \in {"AVAILABLE"} \cup Dying

\* No volume is handed out twice: not to two calls in flight, not to a call
\* and a PV, not to two PVs, even when both are for the same claim (the
\* display name that CreateVolume sends is not unique and is never looked up).
NotShared ==
    /\ \A c, d \in Callers :
         c # d /\ Owns(c) /\ Owns(d) => cvol[c] # cvol[d]
    /\ \A c \in Callers, pv \in pvs : Owns(c) => cvol[c] # pv.vol
    /\ \A pv, qv \in pvs : pv.vol = qv.vol => pv = qv

\* The volume behind a PV holds the capacity that the PV states, and the PV
\* states at least what the claim asked for, also when roundUpSize overflows.
CapacityCovered ==
    \A pv \in pvs : /\ pv.capacity <= volSize[pv.vol] * Unit
                    /\ pv.req.capacity <= pv.capacity

\* The timer that waitForVolumeAvailable is given never ends the wait: the
\* context of line 189 is older and just as long, so a slow volume always
\* shows as a failed GetVolume and never as wait.ErrWaitTimeout.
ContextEndsWait == \A c \in Callers : result[c] # "timeout"

\* A call of Provision that failed and left its volume alive.
Abandoned(c) ==
    /\ pc[c] = "done" /\ Owns(c) /\ result[c] # "ok"
    /\ volState[cvol[c]] \notin Dying

\* A failed call whose volume was made leaves it alive for three reasons only:
\* its context had expired when it came to line 205, the delete request
\* failed, or the metadata endpoint did (line 217, no delete at all).
AbandonedOnlyIf ==
    \A c \in Callers :
        Abandoned(c) => \/ ctxLeft[c] = 0
                        \/ "delete" \in ApiFaults
                        \/ result[c] = "metadata"

\* What the comment of line 201 says: "Delete the volume if it failed to get
\* in a good state for us".
FailedVolumeDeleted == \A c \in Callers : ~Abandoned(c)

\* When Delete returns no error the volume is gone or going, unless a 404
\* stood for rejected credentials (the note of line 270).
DeleteOkMeansGone ==
    \A c \in Callers : Deleted(c) /\ "auth" \notin ApiFaults =>
                          volState[cvol[c]] \in Dying

\* The volume of a PV that a caller holds is taken down by a Delete of that
\* PV or by an outsider, while no call moves, never by the cleanup of some call
\* of Provision.
PVVolumesSpared ==
    [][\A pv \in pvs :
         volState[pv.vol] \notin Dying /\ volState'[pv.vol] \in Dying =>
            \/ \E c \in Callers : pc[c] = "delete" /\ cvol[c] = pv.vol
            \/ "user" \in ApiFaults /\ UNCHANGED pc]_vars

\* No call stays for ever in a step that is bounded by its context, whatever
\* the service does: also when a volume never becomes AVAILABLE.
BoundedStepsEnd ==
    \A c \in Callers : pc[c] \in Bounded ~> pc[c] \notin Bounded
=============================================================================
