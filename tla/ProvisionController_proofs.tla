---------------------- MODULE ProvisionController_proofs ----------------------
(***************************************************************************)
(* Safety of the provision controller for any number of controllers,       *)
(* claims, assets, goroutines and faults.                                  *)
(***************************************************************************)
EXTENDS ProvisionController, TLAPS

Tries == 0..(SaveTries - 1)

CallRecords == [status : Plugin!Statuses, claim : Claims \cup {None}, asset : Assets \cup {None}]

OpRecords == [pc : {"free", "check", "provision", "failed", "save", "undo", "undoing"},
              ctl : Controllers \cup {None}, claim : Claims \cup {None},
              asset : Assets \cup {None}, tries : Tries, attached : BOOLEAN]

PluginType ==
    /\ life \in [Assets -> Plugin!Lives]
    /\ owner \in [Assets -> Claims \cup {None}]
    /\ call \in [Callers -> CallRecords]

KubeType ==
    /\ claim \in [Claims -> {"pending", "gone"} \cup Assets]
    /\ pv \in [Assets -> {"none", "saved", "bound", "released"}]
    /\ identity \in [Assets -> {"none", "ours", "missing", "other"}]

WorkerType ==
    /\ seen \in [Controllers -> [Claims -> {"none", "pending", "bound"}]]
    /\ queue \in [Controllers -> SUBSET Claims]
    /\ worker \in [Controllers -> [Claims -> {"idle", "acquire", "lead"}]]
    /\ told \in [Controllers -> [Claims -> SUBSET BOOLEAN]]
    /\ provisionErr \in [Controllers -> [Claims -> BOOLEAN]]

OpType == op \in [Ops -> OpRecords]

VolType == volWorker \in [Controllers -> [Assets -> {"idle", "delete", "remove"}]]

\* A goroutine and its call of the plugin.
OpLink(o) ==
    /\ op[o].pc = "free" => op[o].ctl = None /\ op[o].asset = None
    /\ op[o].pc # "free" => op[o].ctl \in Controllers /\ op[o].claim \in Claims
    /\ op[o].asset # None <=> op[o].pc \in {"save", "undo", "undoing"}
    /\ op[o].pc \notin {"provision", "undoing"} => call[o].status = "idle" /\ call[o].asset = None
    /\ op[o].pc = "provision" => /\ call[o].status \in {"provisioning", "pv", "failed"}
                                 /\ call[o].claim \in Claims
    /\ op[o].pc = "undoing" => /\ call[o].status \in {"deleting", "deleted", "failed"}
                               /\ call[o].asset = op[o].asset
    /\ call[o].status = "pv" => call[o].asset # None

\* A worker of the volume queue and its call of the plugin.
VolLink(k, a) ==
    LET c == Deleter(k, a) IN
    /\ volWorker[k][a] # "delete" => call[c].status = "idle" /\ call[c].asset = None
    /\ volWorker[k][a] = "delete" => /\ call[c].status \in {"deleting", "deleted", "failed"}
                                     /\ call[c].asset = a

LinkInv ==
    /\ \A o \in Ops : OpLink(o)
    /\ \A k \in Controllers, a \in Assets : VolLink(k, a)

-----------------------------------------------------------------------------
\* The calls of the goroutines and of the workers are different calls.
LEMMA CallerIs ==
    /\ \A o \in Ops : o \in Callers
    /\ \A k \in Controllers, a \in Assets : Deleter(k, a) \in Callers /\ Deleter(k, a) \notin Ops
    /\ \A j, k \in Controllers, a, b \in Assets : Deleter(j, a) = Deleter(k, b) => j = k /\ a = b
    /\ \A c \in Callers : c \in Ops \/ \E k \in Controllers, a \in Assets : c = Deleter(k, a)
  BY ControllerAssumption DEF Callers, Deleter

\* Steps of the workers of the claim queue.
ClaimStep(k, c) ==
    \/ InformerSees(k, c) \/ Resync(k, c) \/ syncClaim(k, c)
    \/ acquire(k, c) \/ stopAcquiring(k, c) \/ stopLeading(k, c) \/ termEnds(k, c)

VolumeStep(k, a) == deleteVolume(k, a) \/ deleteReturns(k, a) \/ removePV(k, a)

AssetStep(a) == AssetReady(a) \/ FreshOCID(a)

KubeStep == \/ \E a \in Assets : Bind(a) \/ Release(a) \/ EditIdentity(a)
            \/ \E c \in Claims : DeleteClaim(c)

\* What a step of a worker of the claim queue does to the goroutines.
LEMMA ClaimStepOps ==
    ASSUME OpType, NEW k \in Controllers, NEW c \in Claims, ClaimStep(k, c)
    PROVE  /\ UNCHANGED <<plugin, kube, volWorker, orphans, faultsLeft>>
           /\ OpType'
           /\ \A o \in Ops :
                \/ /\ op'[o].pc = op[o].pc /\ op'[o].ctl = op[o].ctl
                   /\ op'[o].claim = op[o].claim /\ op'[o].asset = op[o].asset
                   /\ op'[o].tries = op[o].tries
                \/ /\ op[o].pc = "free" /\ op'[o].pc = "check" /\ op'[o].ctl = k
                   /\ op'[o].claim = c /\ op'[o].asset = None
<1>1. CASE InformerSees(k, c) \/ Resync(k, c) \/ syncClaim(k, c)
  BY <1>1 DEF InformerSees, Resync, syncClaim, OpType
<1>2. CASE acquire(k, c)
  <2>1. UNCHANGED <<plugin, kube, volWorker, orphans, faultsLeft>>
    BY <1>2 DEF acquire
  <2>2. CASE UNCHANGED op
    BY <2>1, <2>2 DEF OpType
  <2>3. CASE ~ UNCHANGED op
    <3> DEFINE new == [Free EXCEPT !.pc = "check", !.ctl = k, !.claim = c, !.attached = TRUE]
    <3>1. op' = [op EXCEPT ![FreeOp] = new] /\ \E o \in Ops : op[o].pc = "free"
      BY <1>2, <2>3 DEF acquire
    <3>2. FreeOp \in Ops /\ op[FreeOp].pc = "free"
      BY <3>1 DEF FreeOp
    <3>3. /\ new.pc = "check" /\ new.ctl = k /\ new.claim = c /\ new.asset = None
          /\ new \in OpRecords
      <4>1. 0 \in Tries
        BY ControllerAssumption DEF Tries
      <4> QED
        BY <4>1 DEF Free, OpRecords
    <3> HIDE DEF new
    <3> QED
      BY <2>1, <3>1, <3>2, <3>3 DEF OpType
  <2> QED
    BY <2>2, <2>3
<1>3. CASE RunReturns(k, c)
  BY <1>3 DEF RunReturns, OpType, OpRecords
<1> QED
  BY <1>1, <1>2, <1>3 DEF ClaimStep, stopAcquiring, stopLeading, termEnds

-----------------------------------------------------------------------------
(* What each step of a goroutine does *)

\* Nothing but the goroutine o and its call changes.
Alone(o) ==
    /\ op' \in [Ops -> OpRecords] /\ call' \in [Callers -> CallRecords]
    /\ \A p \in Ops \ {o} : op'[p] = op[p]
    /\ \A c \in Callers \ {o} : call'[c] = call[c]
    /\ UNCHANGED <<life, owner, claim, volWorker>>

SameButPC(o) ==
    /\ op'[o].ctl = op[o].ctl /\ op'[o].claim = op[o].claim /\ op'[o].asset = op[o].asset

\* A goroutine that is done.
LEMMA FreeIs == Free \in OpRecords /\ Free.pc = "free" /\ Free.ctl = None /\ Free.asset = None
<1>1. 0 \in Tries
  BY ControllerAssumption DEF Tries
<1> QED
  BY <1>1 DEF Free, OpRecords

\* A call that is not made.
LEMMA IdleIs ==
    /\ Plugin!Idle \in CallRecords
    /\ Plugin!Idle.status = "idle" /\ Plugin!Idle.claim = None /\ Plugin!Idle.asset = None
  BY DEF Plugin!Idle, CallRecords, Plugin!Statuses

\* Provision is called, or the goroutine ends, or its error is to be returned.
LEMMA CheckMoves ==
    ASSUME PluginType, OpType, LinkInv, NEW o \in Ops, checkVolume(o)
    PROVE  /\ op[o].pc = "check" /\ Alone(o) /\ UNCHANGED <<pv, identity, orphans>>
           /\ \/ op'[o] = Free /\ call'[o] = call[o]
              \/ op'[o].pc = "failed" /\ SameButPC(o) /\ call'[o] = call[o]
              \/ /\ op'[o].pc = "provision" /\ SameButPC(o)
                 /\ call'[o].status = "provisioning" /\ call'[o].claim = op[o].claim
                 /\ call'[o].asset = None
<1>1. op[o].pc = "check" /\ UNCHANGED <<kube, volWorker, orphans>> /\ op[o].claim \in Claims
  BY DEF checkVolume, LinkInv, OpLink
<1>2. CASE op' = [op EXCEPT ![o] = Free] /\ UNCHANGED plugin
  BY <1>1, <1>2, FreeIs DEF Alone, plugin, kube, OpType, PluginType
<1>3. CASE Goto(o, "failed") /\ UNCHANGED plugin
  BY <1>1, <1>3 DEF Goto, Alone, SameButPC, plugin, kube, OpType, OpRecords, PluginType
<1>4. CASE /\ Plugin!Provision(o, op[o].claim) /\ call'[o].status = "provisioning"
           /\ Goto(o, "provision")
  <2>1. /\ op' \in [Ops -> OpRecords] /\ op'[o].pc = "provision" /\ SameButPC(o)
        /\ \A p \in Ops \ {o} : op'[p] = op[p]
    BY <1>4 DEF Goto, SameButPC, OpType, OpRecords
  <2>2. PICK s \in {"provisioning", "failed"} :
          call' = [call EXCEPT ![o] = [Plugin!Idle EXCEPT !.status = s, !.claim = op[o].claim]]
    BY <1>4 DEF Plugin!Provision
  <2>3. /\ [Plugin!Idle EXCEPT !.status = s, !.claim = op[o].claim] \in CallRecords
        /\ [Plugin!Idle EXCEPT !.status = s, !.claim = op[o].claim].claim = op[o].claim
        /\ [Plugin!Idle EXCEPT !.status = s, !.claim = op[o].claim].asset = None
    BY <1>1 DEF Plugin!Idle, CallRecords, Plugin!Statuses
  <2>4. o \in Callers
    BY CallerIs
  <2>5. /\ call' \in [Callers -> CallRecords] /\ \A c \in Callers \ {o} : call'[c] = call[c]
        /\ call'[o].claim = op[o].claim /\ call'[o].asset = None
    BY <2>2, <2>3, <2>4 DEF PluginType
  <2>6. UNCHANGED <<life, owner>>
    BY <1>4 DEF Plugin!Provision
  <2> QED
    BY <1>1, <1>4, <2>1, <2>5, <2>6 DEF Alone, kube
<1> QED
  BY <1>2, <1>3, <1>4 DEF checkVolume

\* The caller takes the result of its call.
LEMMA CollectMoves ==
    ASSUME PluginType, NEW c \in Callers, Plugin!Collect(c)
    PROVE  /\ call' \in [Callers -> CallRecords]
           /\ call[c].status \in {"pv", "deleted", "failed"}
           /\ call'[c].status = "idle" /\ call'[c].asset = None
           /\ \A d \in Callers \ {c} : call'[d] = call[d]
           /\ UNCHANGED <<life, owner>>
  BY IdleIs DEF Plugin!Collect, PluginType

\* Provision returned a PV, which is to be saved, or failed.
LEMMA ProvisionReturnMoves ==
    ASSUME PluginType, OpType, NEW o \in Ops, provisionReturns(o)
    PROVE  /\ op[o].pc = "provision" /\ Alone(o) /\ UNCHANGED <<pv, identity, orphans>>
           /\ call'[o].status = "idle" /\ call'[o].asset = None
           /\ op'[o].ctl = op[o].ctl /\ op'[o].claim = op[o].claim
           /\ \/ call[o].status = "pv" /\ op'[o].pc = "save" /\ op'[o].asset = call[o].asset
              \/ call[o].status \in {"deleted", "failed"} /\ op'[o].pc = "failed"
                 /\ op'[o].asset = op[o].asset
<1>1. o \in Callers
  BY CallerIs
<1>2. /\ call' \in [Callers -> CallRecords]
      /\ call[o].status \in {"pv", "deleted", "failed"}
      /\ call'[o].status = "idle" /\ call'[o].asset = None
      /\ \A d \in Callers \ {o} : call'[d] = call[d]
      /\ UNCHANGED <<life, owner>>
  BY <1>1, CollectMoves DEF provisionReturns
<1>3. op[o].pc = "provision" /\ UNCHANGED <<kube, volWorker, orphans>>
  BY DEF provisionReturns
<1>4. call[o] \in CallRecords
  BY <1>1 DEF PluginType
<1>5. CASE call[o].status = "pv"
  <2>1. op' = [op EXCEPT ![o].pc = "save", ![o].asset = call[o].asset]
    BY <1>5 DEF provisionReturns
  <2>2. call[o].asset \in Assets \cup {None}
    BY <1>4 DEF CallRecords
  <2>3. /\ op' \in [Ops -> OpRecords] /\ \A p \in Ops \ {o} : op'[p] = op[p]
        /\ op'[o].ctl = op[o].ctl /\ op'[o].claim = op[o].claim
        /\ op'[o].pc = "save" /\ op'[o].asset = call[o].asset
    BY <2>1, <2>2 DEF OpType, OpRecords
  <2> QED
    BY <1>2, <1>3, <1>5, <2>3 DEF Alone, kube
<1>6. CASE call[o].status # "pv"
  <2>1. op' = [op EXCEPT ![o].pc = "failed"]
    BY <1>6 DEF provisionReturns, Goto
  <2> QED
    BY <1>2, <1>3, <1>6, <2>1 DEF Alone, kube, OpType, OpRecords
<1> QED
  BY <1>5, <1>6

\* The goroutine of a failed operation ends.
LEMMA ReturnErrMoves ==
    ASSUME PluginType, OpType, NEW o \in Ops, returnErr(o)
    PROVE  /\ op[o].pc = "failed" /\ Alone(o) /\ UNCHANGED <<pv, identity, orphans>>
           /\ op'[o] = Free /\ call'[o] = call[o]
  BY FreeIs DEF returnErr, Alone, plugin, kube, OpType, PluginType

\* A try that failed is followed by another, or by the undo.
LEMMA SaveFailedMoves ==
    ASSUME OpType, NEW o \in Ops, op[o].pc = "save", SaveFailed(o)
    PROVE  /\ op' \in [Ops -> OpRecords] /\ \A p \in Ops \ {o} : op'[p] = op[p]
           /\ op'[o].pc \in {"save", "undo"} /\ SameButPC(o)
<1>1. op[o].tries \in Tries /\ 0 \in Tries
  BY ControllerAssumption DEF OpType, OpRecords, Tries
<1>2. op[o].tries + 1 < SaveTries => op[o].tries + 1 \in Tries
  BY <1>1, ControllerAssumption DEF Tries
<1>3. CASE op[o].tries + 1 < SaveTries
  <2>1. op' = [op EXCEPT ![o].tries = @ + 1] /\ op[o].tries + 1 \in Tries
    BY <1>2, <1>3 DEF SaveFailed
  <2> QED
    BY <2>1 DEF SameButPC, OpType, OpRecords
<1>4. CASE ~(op[o].tries + 1 < SaveTries)
  <2>1. op' = [op EXCEPT ![o].pc = "undo", ![o].tries = 0]
    BY <1>4 DEF SaveFailed
  <2> QED
    BY <1>1, <2>1 DEF SameButPC, OpType, OpRecords
<1> QED
  BY <1>3, <1>4

\* The PV is saved and the goroutine ends, or it goes on with a try that failed as
\* far as it knows.
LEMMA SaveMoves ==
    ASSUME PluginType, KubeType, OpType, NEW o \in Ops, savePV(o)
    PROVE  /\ op[o].pc = "save" /\ Alone(o) /\ call'[o] = call[o] /\ UNCHANGED orphans
           /\ KubeType'
           /\ \/ /\ op'[o] = Free /\ pv[op[o].asset] = "none"
                 /\ pv' = [pv EXCEPT ![op[o].asset] = "saved"]
              \/ /\ op'[o].pc \in {"save", "undo"} /\ SameButPC(o)
                 /\ \/ UNCHANGED pv
                    \/ /\ "answer" \in Faults /\ pv[op[o].asset] = "none"
                       /\ pv' = [pv EXCEPT ![op[o].asset] = "saved"]
<1>1. op[o].pc = "save" /\ UNCHANGED <<plugin, claim, volWorker, orphans>>
  BY DEF savePV
<1>2. CASE Saved(op[o].asset) /\ op' = [op EXCEPT ![o] = Free]
  <2>1. /\ pv[op[o].asset] = "none" /\ KubeType'
        /\ pv' = [pv EXCEPT ![op[o].asset] = "saved"]
    BY <1>1, <1>2 DEF Saved, KubeType
  <2>2. op' \in [Ops -> OpRecords] /\ op'[o] = Free /\ \A p \in Ops \ {o} : op'[p] = op[p]
    BY <1>2, FreeIs DEF OpType
  <2> QED
    BY <1>1, <2>1, <2>2 DEF Alone, plugin, PluginType
<1>3. CASE SaveFailed(o) /\ (UNCHANGED <<pv, identity>> \/ (Saved(op[o].asset) /\ Fault("answer")))
  <2>1. KubeType' /\ \/ UNCHANGED pv
                     \/ /\ "answer" \in Faults /\ pv[op[o].asset] = "none"
                        /\ pv' = [pv EXCEPT ![op[o].asset] = "saved"]
    BY <1>1, <1>3 DEF Saved, KubeType, Fault
  <2>2. /\ op' \in [Ops -> OpRecords] /\ \A p \in Ops \ {o} : op'[p] = op[p]
        /\ op'[o].pc \in {"save", "undo"} /\ SameButPC(o)
    BY <1>1, <1>3, SaveFailedMoves
  <2> QED
    BY <1>1, <2>1, <2>2 DEF Alone, plugin, PluginType
<1> QED
  BY <1>2, <1>3 DEF savePV

\* Delete is called.
LEMMA DeleteMoves ==
    ASSUME PluginType, NEW c \in Callers, NEW a \in Assets,
           Plugin!Delete(c, a), call'[c].status = "deleting"
    PROVE  /\ call' \in [Callers -> CallRecords]
           /\ call'[c].asset = a
           /\ \A d \in Callers \ {c} : call'[d] = call[d]
           /\ UNCHANGED <<life, owner>>
<1>1. CASE call' = [call EXCEPT ![c] = [Plugin!Idle EXCEPT !.status = "deleting", !.asset = a]]
  <2>1. /\ [Plugin!Idle EXCEPT !.status = "deleting", !.asset = a] \in CallRecords
        /\ [Plugin!Idle EXCEPT !.status = "deleting", !.asset = a].asset = a
    BY DEF Plugin!Idle, CallRecords, Plugin!Statuses
  <2> QED
    BY <1>1, <2>1 DEF PluginType, Plugin!Delete
<1>2. ASSUME NEW b \in {None, a},
             call' = [call EXCEPT ![c] = [Plugin!Idle EXCEPT !.status = "failed", !.asset = b]]
      PROVE  FALSE
  BY <1>2 DEF Plugin!Idle, PluginType
<1> QED
  BY <1>1, <1>2 DEF Plugin!Delete

\* The undo calls Delete.
LEMMA UndoMoves ==
    ASSUME PluginType, OpType, LinkInv, NEW o \in Ops, undo(o)
    PROVE  /\ op[o].pc = "undo" /\ Alone(o) /\ UNCHANGED <<pv, identity, orphans>>
           /\ op'[o].pc = "undoing" /\ SameButPC(o)
           /\ call'[o].status = "deleting" /\ call'[o].asset = op[o].asset
<1>1. /\ op[o].pc = "undo" /\ UNCHANGED <<kube, volWorker, orphans>>
      /\ Plugin!Delete(o, op[o].asset) /\ call'[o].status = "deleting"
      /\ op' = [op EXCEPT ![o].pc = "undoing"]
  BY DEF undo, Goto
<1>2. op[o].asset \in Assets /\ o \in Callers
  BY <1>1, CallerIs DEF LinkInv, OpLink, OpType, OpRecords
<1>3. /\ call' \in [Callers -> CallRecords] /\ call'[o].asset = op[o].asset
      /\ \A d \in Callers \ {o} : call'[d] = call[d]
  BY <1>1, <1>2, DeleteMoves
<1>4. /\ op' \in [Ops -> OpRecords] /\ \A p \in Ops \ {o} : op'[p] = op[p]
      /\ op'[o].pc = "undoing" /\ SameButPC(o)
  BY <1>1 DEF OpType, OpRecords, SameButPC
<1>5. UNCHANGED <<life, owner>>
  BY <1>1 DEF Plugin!Delete
<1> QED
  BY <1>1, <1>3, <1>4, <1>5 DEF Alone, kube

\* The delete has an end, or is tried again, or was tried for the last time.
LEMMA UndoReturnMoves ==
    ASSUME PluginType, OpType, NEW o \in Ops, undoReturns(o)
    PROVE  /\ op[o].pc = "undoing" /\ Alone(o) /\ UNCHANGED <<pv, identity>>
           /\ call'[o].status = "idle" /\ call'[o].asset = None
           /\ \/ /\ call[o].status = "failed" /\ op'[o].pc = "undo" /\ SameButPC(o)
                 /\ UNCHANGED orphans
              \/ /\ call[o].status = "failed" /\ op'[o] = Free
                 /\ orphans' = orphans \cup {op[o].asset}
              \/ call[o].status \in {"pv", "deleted"} /\ op'[o] = Free /\ UNCHANGED orphans
<1>1. op[o].pc = "undoing" /\ UNCHANGED <<kube, volWorker>>
  BY DEF undoReturns
<1>2. /\ call' \in [Callers -> CallRecords]
      /\ call[o].status \in {"pv", "deleted", "failed"}
      /\ call'[o].status = "idle" /\ call'[o].asset = None
      /\ \A d \in Callers \ {o} : call'[d] = call[d]
      /\ UNCHANGED <<life, owner>>
  BY CollectMoves, CallerIs DEF undoReturns
<1>3. CASE call[o].status = "failed" /\ op[o].tries + 1 # SaveTries
  <2>1. /\ op' = [op EXCEPT ![o] = [op[o] EXCEPT !.pc = "undo", !.tries = op[o].tries + 1]]
        /\ UNCHANGED orphans
    BY <1>3 DEF undoReturns
  <2>2. op[o].tries + 1 \in Tries
    <3>1. op[o].tries \in Tries
      BY DEF OpType, OpRecords
    <3> QED
      BY <1>3, <3>1, ControllerAssumption DEF Tries
  <2>3. /\ op' \in [Ops -> OpRecords] /\ \A p \in Ops \ {o} : op'[p] = op[p]
        /\ op'[o].pc = "undo" /\ SameButPC(o)
    BY <2>1, <2>2 DEF OpType, OpRecords, SameButPC
  <2> QED
    BY <1>1, <1>2, <1>3, <2>1, <2>3 DEF Alone, kube
<1>4. CASE ~(call[o].status = "failed" /\ op[o].tries + 1 # SaveTries)
  <2>1. /\ op' = [op EXCEPT ![o] = Free]
        /\ orphans' = IF call[o].status = "failed" THEN orphans \cup {op[o].asset} ELSE orphans
    BY <1>4 DEF undoReturns
  <2>2. op' \in [Ops -> OpRecords] /\ op'[o] = Free /\ \A p \in Ops \ {o} : op'[p] = op[p]
    BY <2>1, FreeIs DEF OpType
  <2> QED
    BY <1>1, <1>2, <2>1, <2>2 DEF Alone, kube
<1> QED
  BY <1>3, <1>4

-----------------------------------------------------------------------------
(* What the other steps do *)

\* Nothing but the worker of a volume and its call changes.
VolAlone(k, a) ==
    /\ VolType' /\ call' \in [Callers -> CallRecords]
    /\ \A j \in Controllers, b \in Assets :
         j # k \/ b # a => volWorker'[j][b] = volWorker[j][b]
    /\ \A d \in Callers \ {Deleter(k, a)} : call'[d] = call[d]
    /\ UNCHANGED <<life, owner, claim, op, orphans>>

\* Delete is called for a PV that is released.
LEMMA DeleteVolumeMoves ==
    ASSUME PluginType, VolType, NEW k \in Controllers, NEW a \in Assets, deleteVolume(k, a)
    PROVE  /\ VolAlone(k, a) /\ UNCHANGED <<pv, identity>>
           /\ volWorker[k][a] = "idle" /\ pv[a] = "released" /\ volWorker'[k][a] = "delete"
           /\ call'[Deleter(k, a)].status = "deleting" /\ call'[Deleter(k, a)].asset = a
<1>1. /\ volWorker[k][a] = "idle" /\ pv[a] = "released"
      /\ volWorker' = [volWorker EXCEPT ![k][a] = "delete"]
      /\ Plugin!Delete(Deleter(k, a), a) /\ call'[Deleter(k, a)].status = "deleting"
      /\ UNCHANGED <<kube, op, orphans>>
  BY DEF deleteVolume, shouldDelete
<1>2. Deleter(k, a) \in Callers
  BY CallerIs
<1>3. /\ call' \in [Callers -> CallRecords] /\ call'[Deleter(k, a)].asset = a
      /\ \A d \in Callers \ {Deleter(k, a)} : call'[d] = call[d]
      /\ UNCHANGED <<life, owner>>
  BY <1>1, <1>2, DeleteMoves
<1>4. /\ VolType' /\ volWorker'[k][a] = "delete"
      /\ \A j \in Controllers, b \in Assets :
           j # k \/ b # a => volWorker'[j][b] = volWorker[j][b]
  BY <1>1 DEF VolType
<1> QED
  BY <1>1, <1>3, <1>4 DEF VolAlone, kube

\* The PV of an asset that is deleted is to be removed.
LEMMA DeleteReturnMoves ==
    ASSUME PluginType, VolType, NEW k \in Controllers, NEW a \in Assets, deleteReturns(k, a)
    PROVE  /\ VolAlone(k, a) /\ UNCHANGED <<pv, identity>>
           /\ volWorker[k][a] = "delete"
           /\ \/ volWorker'[k][a] = "idle"
              \/ volWorker'[k][a] = "remove" /\ call[Deleter(k, a)].status = "deleted"
           /\ call'[Deleter(k, a)].status = "idle" /\ call'[Deleter(k, a)].asset = None
<1> DEFINE c == Deleter(k, a)
<1>1. /\ volWorker[k][a] = "delete" /\ Plugin!Collect(c) /\ UNCHANGED <<kube, op, orphans>>
      /\ volWorker' = [volWorker EXCEPT ![k][a] =
                         IF call[c].status = "deleted" THEN "remove" ELSE "idle"]
  BY DEF deleteReturns
<1>2. c \in Callers
  BY CallerIs
<1> HIDE DEF c
<1>3. /\ call' \in [Callers -> CallRecords]
      /\ call'[c].status = "idle" /\ call'[c].asset = None
      /\ \A d \in Callers \ {c} : call'[d] = call[d]
      /\ UNCHANGED <<life, owner>>
  BY <1>1, <1>2, CollectMoves
<1>4. /\ VolType'
      /\ \A j \in Controllers, b \in Assets :
           j # k \/ b # a => volWorker'[j][b] = volWorker[j][b]
      /\ volWorker'[k][a] = "idle" \/ (volWorker'[k][a] = "remove" /\ call[c].status = "deleted")
  BY <1>1 DEF VolType
<1> QED
  BY <1>1, <1>3, <1>4 DEF VolAlone, kube, c

\* The PV is removed, or all is done again.
LEMMA RemoveMoves ==
    ASSUME PluginType, KubeType, VolType, NEW k \in Controllers, NEW a \in Assets, removePV(k, a)
    PROVE  /\ VolAlone(k, a) /\ KubeType' /\ UNCHANGED call
           /\ volWorker[k][a] = "remove" /\ volWorker'[k][a] = "idle"
           /\ UNCHANGED pv \/ pv' = [pv EXCEPT ![a] = "none"]
<1>1. /\ volWorker[k][a] = "remove" /\ volWorker' = [volWorker EXCEPT ![k][a] = "idle"]
      /\ \/ pv' = [pv EXCEPT ![a] = "none"] /\ identity' = [identity EXCEPT ![a] = "none"]
         \/ UNCHANGED <<pv, identity>>
      /\ UNCHANGED <<plugin, claim, op, orphans>>
  BY DEF removePV
<1>2. KubeType' /\ (UNCHANGED pv \/ pv' = [pv EXCEPT ![a] = "none"])
  BY <1>1 DEF KubeType
<1>3. /\ VolType' /\ volWorker'[k][a] = "idle"
      /\ \A j \in Controllers, b \in Assets :
           j # k \/ b # a => volWorker'[j][b] = volWorker[j][b]
  BY <1>1 DEF VolType
<1> QED
  BY <1>1, <1>2, <1>3 DEF VolAlone, plugin, PluginType

\* The plugin works on a call.
CallAlone(c) ==
    /\ PluginType' /\ call'[c].claim = call[c].claim
    /\ \A d \in Callers \ {c} : call'[d] = call[d]

\* An asset is made, and the call has it or fails without it.
Makes(c, a) ==
    Plugin!Made(c, a) /\ call'[c].status = "provisioning" /\ call'[c].asset = a

MakesUnknown(c, a) ==
    /\ Plugin!Made(c, a)
    /\ call'[c].status = "failed" /\ call'[c].asset = call[c].asset
    /\ pv[a] = "none" => a \in orphans'

\* An asset of the claim is found, a PV is returned, a call fails.
Finds(c) ==
    /\ Shared /\ UNCHANGED <<life, owner>>
    /\ call[c].status = "provisioning" /\ call[c].asset = None
    /\ call'[c].status = "provisioning"
    /\ \E a \in Assets : call'[c].asset = a /\ life[a] # "none"

Returns(c) ==
    /\ UNCHANGED <<life, owner>>
    /\ call[c].status = "provisioning" /\ call'[c].status = "pv"
    /\ call[c].asset # None /\ call'[c].asset = call[c].asset
    /\ life[call[c].asset] \in {"ready", "gone"}

Fails(c) ==
    /\ UNCHANGED <<life, owner>>
    /\ call[c].status \in {"provisioning", "deleting"}
    /\ call'[c].status = "failed" /\ call'[c].asset = call[c].asset
    /\ call[c].status = "provisioning" =>
         \A a \in Assets : /\ a = call[c].asset /\ life[a] \in {"making", "ready"}
                           /\ pv[a] = "none"
                           => a \in orphans'

\* The asset is removed, by a Provision that fails or by a Delete.
Removes(c) ==
    /\ life' = [life EXCEPT ![call[c].asset] = "gone"] /\ UNCHANGED owner
    /\ call'[c].asset = call[c].asset
    /\ \/ /\ ~Shared /\ call[c].status = "provisioning" /\ call[c].asset # None
          /\ call'[c].status = "failed"
       \/ call[c].status = "deleting" /\ call'[c].status \in {"deleted", "failed"}

\* These are the steps of the plugin.
LEMMA PluginMoves ==
    ASSUME PluginType, NEW c \in Callers, PluginWorks(c) \/ PluginFails(c)
    PROVE  /\ UNCHANGED <<claim, pv, identity, op, volWorker>>
           /\ orphans \subseteq orphans' /\ orphans' \subseteq orphans \cup Assets
           /\ CallAlone(c)
           /\ \/ \E a \in Assets : Makes(c, a) \/ MakesUnknown(c, a)
              \/ Finds(c) \/ Returns(c) \/ Fails(c) \/ Removes(c)
<1>1. ASSUME NEW a \in Assets, Plugin!Made(c, a)
      PROVE  life' \in [Assets -> Plugin!Lives] /\ owner' \in [Assets -> Claims \cup {None}]
  BY <1>1 DEF Plugin!Made, Plugin!Lives, PluginType, CallRecords
<1>2. ASSUME NEW status \in {"pv", "deleted", "failed"}, Plugin!Ends(c, status)
      PROVE  /\ call' \in [Callers -> CallRecords] /\ call'[c].status = status
             /\ call'[c].claim = call[c].claim /\ call'[c].asset = call[c].asset
             /\ \A d \in Callers \ {c} : call'[d] = call[d]
  BY <1>2 DEF Plugin!Ends, Plugin!Statuses, PluginType, CallRecords
<1>3. ASSUME NEW a \in Assets, Plugin!Has(c, a)
      PROVE  /\ call' \in [Callers -> CallRecords] /\ call'[c].status = call[c].status
             /\ call'[c].claim = call[c].claim /\ call'[c].asset = a
             /\ \A d \in Callers \ {c} : call'[d] = call[d]
  BY <1>3 DEF Plugin!Has, PluginType, CallRecords
<1>4. ASSUME life' = [life EXCEPT ![call[c].asset] = "gone"]
      PROVE  life' \in [Assets -> Plugin!Lives]
  BY <1>4 DEF PluginType, Plugin!Lives
<1> USE DEF CallAlone, PluginType
<1>5. CASE PluginWorks(c)
  <2>1. UNCHANGED <<claim, pv, identity, op, volWorker, orphans>>
    BY <1>5 DEF PluginWorks, kube
  <2>2. ASSUME NEW a \in Assets, Plugin!Make(c, a)
        PROVE  CallAlone(c) /\ Makes(c, a)
    BY <1>1, <1>3, <2>2 DEF Plugin!Make, Makes, Plugin!Made, Plugin!Provisioning
  <2>3. ASSUME NEW a \in Assets, Plugin!Find(c, a)
        PROVE  CallAlone(c) /\ Finds(c)
    BY <1>3, <2>3 DEF Plugin!Find, Finds, Plugin!Provisioning
  <2>4. ASSUME Plugin!ReturnPV(c) PROVE CallAlone(c) /\ Returns(c)
    BY <1>2, <2>4 DEF Plugin!ReturnPV, Returns, Plugin!Provisioning
  <2>5. ASSUME Plugin!Remove(c) PROVE CallAlone(c) /\ Removes(c)
    BY <1>2, <1>4, <2>5 DEF Plugin!Remove, Removes
  <2> QED
    BY <1>5, <2>1, <2>2, <2>3, <2>4, <2>5 DEF PluginWorks
<1>6. CASE PluginFails(c) /\ Plugin!Provisioning(c)
  <2>1. /\ UNCHANGED <<claim, pv, identity, op, volWorker>>
        /\ orphans' = orphans \cup
               {a \in Assets : /\ life'[a] \in {"making", "ready"} /\ pv[a] = "none"
                               /\ a = call[c].asset \/ life[a] = "none"}
        /\ \/ Plugin!Fail(c) \/ Plugin!FailAndRemove(c)
           \/ \E a \in Assets : Plugin!MakeUnknown(c, a)
    BY <1>6 DEF PluginFails, kube
  <2>2. orphans \subseteq orphans' /\ orphans' \subseteq orphans \cup Assets
    BY <2>1
  <2>3. ASSUME Plugin!Fail(c) PROVE CallAlone(c) /\ Fails(c)
    <3>1. UNCHANGED <<life, owner>> /\ Plugin!Ends(c, "failed")
      BY <2>3 DEF Plugin!Fail
    <3>2. CallAlone(c) /\ call'[c].status = "failed" /\ call'[c].asset = call[c].asset
      BY <1>2, <3>1
    <3>3. \A a \in Assets : /\ a = call[c].asset /\ life[a] \in {"making", "ready"}
                            /\ pv[a] = "none"
                            => a \in orphans'
      BY <2>1, <3>1
    <3> QED
      BY <2>3, <3>1, <3>2, <3>3 DEF Fails, Plugin!Fail
  <2>4. ASSUME Plugin!FailAndRemove(c) PROVE CallAlone(c) /\ Removes(c)
    BY <1>2, <1>4, <2>4 DEF Plugin!FailAndRemove, Removes, Plugin!Provisioning
  <2>5. ASSUME NEW a \in Assets, Plugin!MakeUnknown(c, a)
        PROVE  CallAlone(c) /\ MakesUnknown(c, a)
    <3>1. Plugin!Made(c, a) /\ Plugin!Ends(c, "failed")
      BY <2>5 DEF Plugin!MakeUnknown
    <3>2. life'[a] = "making" /\ life[a] = "none"
      BY <3>1 DEF Plugin!Made
    <3>3. pv[a] = "none" => a \in orphans'
      BY <2>1, <3>2
    <3>4. CallAlone(c) /\ call'[c].status = "failed" /\ call'[c].asset = call[c].asset
      BY <1>1, <1>2, <3>1
    <3> QED
      BY <3>1, <3>3, <3>4 DEF MakesUnknown
  <2> QED
    BY <2>1, <2>2, <2>3, <2>4, <2>5
<1>7. CASE PluginFails(c) /\ ~Plugin!Provisioning(c)
  <2>1. /\ UNCHANGED <<claim, pv, identity, op, volWorker, orphans>>
        /\ Plugin!Fail(c) \/ Plugin!Remove(c)
    BY <1>7 DEF PluginFails, kube
  <2>2. ASSUME Plugin!Fail(c) PROVE CallAlone(c) /\ Fails(c)
    BY <1>2, <1>7, <2>2 DEF Plugin!Fail, Fails, Plugin!Provisioning
  <2>3. ASSUME Plugin!Remove(c) PROVE CallAlone(c) /\ Removes(c)
    BY <1>2, <1>4, <2>3 DEF Plugin!Remove, Removes
  <2> QED
    BY <2>1, <2>2, <2>3
<1> QED
  BY <1>5, <1>6, <1>7

\* The process ends: its goroutines, its volume workers and their calls are gone.
LEMMA CrashMoves ==
    ASSUME PluginType, OpType, VolType, NEW k \in Controllers, Crash(k)
    PROVE  /\ UNCHANGED <<life, owner, claim, pv, identity>>
           /\ OpType' /\ VolType' /\ call' \in [Callers -> CallRecords]
           /\ \A o \in Ops : IF op[o].ctl = k
                             THEN op'[o] = Free /\ call'[o] = Plugin!Idle
                             ELSE op'[o] = op[o] /\ call'[o] = call[o]
           /\ \A j \in Controllers, a \in Assets :
                IF j = k
                THEN volWorker'[j][a] = "idle" /\ call'[Deleter(j, a)] = Plugin!Idle
                ELSE /\ volWorker'[j][a] = volWorker[j][a]
                     /\ call'[Deleter(j, a)] = call[Deleter(j, a)]
           /\ orphans \subseteq orphans' /\ orphans' \subseteq orphans \cup Assets
           /\ \A a \in Assets, o \in Ops :
                /\ life[a] \in {"making", "ready"} /\ pv[a] = "none" /\ op[o].ctl = k
                /\ a \in {op[o].asset, call[o].asset}
                => a \in orphans'
<1>1. UNCHANGED <<life, owner, claim, pv, identity>>
  BY DEF Crash, kube
<1>2. OpType' /\ \A o \in Ops : op'[o] = IF op[o].ctl = k THEN Free ELSE op[o]
  <2>1. op' = [o \in Ops |-> IF op[o].ctl = k THEN Free ELSE op[o]]
    BY DEF Crash
  <2> QED
    BY <2>1, FreeIs DEF OpType
<1>3. /\ VolType'
      /\ \A j \in Controllers, a \in Assets :
           volWorker'[j][a] = IF j = k THEN "idle" ELSE volWorker[j][a]
  <2>1. volWorker' = [volWorker EXCEPT ![k] = [a \in Assets |-> "idle"]]
    BY DEF Crash
  <2> QED
    BY <2>1 DEF VolType
<1>4. /\ call' \in [Callers -> CallRecords]
      /\ \A c \in Callers : call'[c] = IF c \in CallsOf(k) THEN Plugin!Idle ELSE call[c]
  <2>1. call' = [c \in Callers |-> IF c \in CallsOf(k) THEN Plugin!Idle ELSE call[c]]
    BY DEF Crash
  <2> QED
    BY <2>1, IdleIs DEF PluginType
<1>5. \A o \in Ops : o \in CallsOf(k) <=> op[o].ctl = k
  <2>1. \A o \in Ops : o \notin {k} \X Assets
    BY ControllerAssumption
  <2> QED
    BY <2>1 DEF CallsOf
<1>6. \A j \in Controllers, a \in Assets : Deleter(j, a) \in CallsOf(k) <=> j = k
  BY CallerIs DEF CallsOf, Deleter
<1>7. /\ orphans \subseteq orphans' /\ orphans' \subseteq orphans \cup Assets
      /\ \A a \in Assets, o \in Ops :
           /\ life[a] \in {"making", "ready"} /\ pv[a] = "none" /\ op[o].ctl = k
           /\ a \in {op[o].asset, call[o].asset}
           => a \in orphans'
  BY DEF Crash
<1> QED
  BY <1>1, <1>2, <1>3, <1>4, <1>5, <1>6, <1>7, CallerIs

\* An asset becomes ready, or an OCID that nothing refers to becomes a fresh one.
LEMMA AssetMoves ==
    ASSUME PluginType, NEW a \in Assets, AssetStep(a)
    PROVE  /\ PluginType' /\ UNCHANGED <<call, claim, pv, identity, op, volWorker>>
           /\ \/ /\ life[a] = "making" /\ life' = [life EXCEPT ![a] = "ready"]
                 /\ UNCHANGED <<owner, orphans>>
              \/ /\ ~Referred(a) /\ life' = [life EXCEPT ![a] = "none"]
                 /\ owner' = [owner EXCEPT ![a] = None] /\ orphans' = orphans \ {a}
  BY DEF AssetStep, AssetReady, FreshOCID, Plugin!Progress, PluginType, Plugin!Lives, kube

\* Claims are bound and deleted, PVs are bound and released.
LEMMA KubeMoves ==
    ASSUME KubeType, KubeStep
    PROVE  /\ KubeType' /\ UNCHANGED <<life, owner, call, op, volWorker, orphans>>
           /\ \A a \in Assets : pv'[a] = "none" <=> pv[a] = "none"
<1>1. ASSUME NEW a \in Assets, Bind(a)
      PROVE  KubeType' /\ \A b \in Assets : pv'[b] = "none" <=> pv[b] = "none"
  BY <1>1 DEF Bind, KubeType
<1>2. ASSUME NEW a \in Assets, Release(a)
      PROVE  KubeType' /\ \A b \in Assets : pv'[b] = "none" <=> pv[b] = "none"
  BY <1>2 DEF Release, KubeType
<1>3. ASSUME NEW a \in Assets, EditIdentity(a)
      PROVE  KubeType' /\ \A b \in Assets : pv'[b] = "none" <=> pv[b] = "none"
  BY <1>3 DEF EditIdentity, KubeType
<1>4. ASSUME NEW c \in Claims, DeleteClaim(c)
      PROVE  KubeType' /\ \A b \in Assets : pv'[b] = "none" <=> pv[b] = "none"
  BY <1>4 DEF DeleteClaim, KubeType
<1>5. UNCHANGED <<life, owner, call, op, volWorker, orphans>>
  BY DEF KubeStep, Bind, Release, EditIdentity, DeleteClaim, plugin
<1> QED
  BY <1>1, <1>2, <1>3, <1>4, <1>5 DEF KubeStep

\* There are no other steps.
LEMMA StepIs ==
    ASSUME [Next]_vars
    PROVE  \/ \E k \in Controllers, c \in Claims : ClaimStep(k, c)
           \/ \E o \in Ops : Operation(o)
           \/ \E k \in Controllers, a \in Assets : VolumeStep(k, a)
           \/ \E c \in Callers : PluginWorks(c) \/ PluginFails(c)
           \/ \E a \in Assets : AssetStep(a)
           \/ KubeStep
           \/ \E k \in Controllers : Crash(k)
           \/ UNCHANGED vars
  BY DEF Next, ClaimStep, VolumeStep, AssetStep, KubeStep

-----------------------------------------------------------------------------
(* Types *)

\* Steps keep the types of the plugin, of Kubernetes, of the goroutines.
LEMMA NextCoreType ==
    ASSUME PluginType, KubeType, OpType, VolType, orphans \subseteq Assets, LinkInv, [Next]_vars
    PROVE  PluginType' /\ KubeType' /\ OpType' /\ VolType' /\ (orphans \subseteq Assets)'
<1> DEFINE Goal == PluginType' /\ KubeType' /\ OpType' /\ VolType' /\ (orphans \subseteq Assets)'
<1>1. ASSUME NEW k \in Controllers, NEW c \in Claims, ClaimStep(k, c) PROVE Goal
  <2>1. UNCHANGED <<plugin, kube, volWorker, orphans>> /\ OpType'
    BY <1>1, ClaimStepOps
  <2> QED
    BY <2>1 DEF plugin, kube, PluginType, KubeType, VolType
<1>2. ASSUME NEW o \in Ops, Operation(o) PROVE Goal
  <2>1. ASSUME Alone(o), UNCHANGED <<pv, identity>>, (orphans \subseteq Assets)' PROVE Goal
    BY <2>1 DEF Alone, PluginType, KubeType, OpType, VolType
  <2>2. CASE checkVolume(o)
    BY <2>1, <2>2, CheckMoves
  <2>3. CASE provisionReturns(o)
    BY <2>1, <2>3, ProvisionReturnMoves
  <2>4. CASE returnErr(o)
    BY <2>1, <2>4, ReturnErrMoves
  <2>5. CASE savePV(o)
    <3>1. Alone(o) /\ KubeType' /\ UNCHANGED orphans
      BY <2>5, SaveMoves
    <3> QED
      BY <3>1 DEF Alone, PluginType, OpType, VolType
  <2>6. CASE undo(o)
    BY <2>1, <2>6, UndoMoves
  <2>7. CASE undoReturns(o)
    <3>1. op[o].pc = "undoing" /\ op[o].asset \in Assets
      BY <2>7 DEF undoReturns, LinkInv, OpLink, OpType, OpRecords
    <3>2. Alone(o) /\ UNCHANGED <<pv, identity>> /\ orphans' \subseteq orphans \cup {op[o].asset}
      BY <2>7, UndoReturnMoves
    <3> QED
      BY <2>1, <3>1, <3>2
  <2> QED
    BY <1>2, <2>2, <2>3, <2>4, <2>5, <2>6, <2>7 DEF Operation
<1>3. ASSUME NEW k \in Controllers, NEW a \in Assets, VolumeStep(k, a) PROVE Goal
  <2>1. VolAlone(k, a) /\ KubeType'
    <3>1. CASE deleteVolume(k, a)
      BY <3>1, DeleteVolumeMoves DEF VolAlone, KubeType
    <3>2. CASE deleteReturns(k, a)
      BY <3>2, DeleteReturnMoves DEF VolAlone, KubeType
    <3>3. CASE removePV(k, a)
      BY <3>3, RemoveMoves
    <3> QED
      BY <1>3, <3>1, <3>2, <3>3 DEF VolumeStep
  <2> QED
    BY <2>1 DEF VolAlone, PluginType, OpType
<1>4. ASSUME NEW c \in Callers, PluginWorks(c) \/ PluginFails(c) PROVE Goal
  <2>1. /\ UNCHANGED <<claim, pv, identity, op, volWorker>>
        /\ orphans' \subseteq orphans \cup Assets /\ CallAlone(c)
    BY <1>4, PluginMoves
  <2> QED
    BY <2>1 DEF CallAlone, KubeType, OpType, VolType
<1>5. ASSUME NEW a \in Assets, AssetStep(a) PROVE Goal
  <2>1. PluginType' /\ UNCHANGED <<claim, pv, identity, op, volWorker>> /\ orphans' \subseteq orphans
    BY <1>5, AssetMoves
  <2> QED
    BY <2>1 DEF KubeType, OpType, VolType
<1>6. CASE KubeStep
  BY <1>6, KubeMoves DEF PluginType, OpType, VolType
<1>7. ASSUME NEW k \in Controllers, Crash(k) PROVE Goal
  <2>1. /\ UNCHANGED <<life, owner, claim, pv, identity>> /\ OpType' /\ VolType'
        /\ call' \in [Callers -> CallRecords] /\ orphans' \subseteq orphans \cup Assets
    BY <1>7, CrashMoves
  <2> QED
    BY <2>1 DEF PluginType, KubeType
<1>8. CASE UNCHANGED vars
  BY <1>8 DEF vars, PluginType, KubeType, OpType, VolType
<1> QED
  BY <1>1, <1>2, <1>3, <1>4, <1>5, <1>6, <1>7, <1>8, StepIs

\* Steps keep the types of caches, queues and workers.
LEMMA NextWorkerType ==
    ASSUME WorkerType, OpType, LinkInv, [Next]_vars PROVE WorkerType'
<1> USE DEF WorkerType
<1>1. ASSUME NEW k \in Controllers, NEW c \in Claims, ClaimStep(k, c) PROVE WorkerType'
  <2>1. CASE InformerSees(k, c)
    BY <2>1 DEF InformerSees, Current
  <2>2. CASE Resync(k, c)
    BY <2>2 DEF Resync
  <2>3. CASE syncClaim(k, c)
    BY <2>3 DEF syncClaim
  <2>4. CASE acquire(k, c)
    BY <2>4 DEF acquire
  <2>5. CASE RunReturns(k, c)
    BY <2>5 DEF RunReturns
  <2> QED
    BY <1>1, <2>1, <2>2, <2>3, <2>4, <2>5
    DEF ClaimStep, stopAcquiring, stopLeading, termEnds
<1>2. ASSUME NEW c \in Claims, NEW success \in BOOLEAN, Event(c, success)
      PROVE  told' \in [Controllers -> [Claims -> SUBSET BOOLEAN]]
  BY <1>2 DEF Event
<1>3. ASSUME NEW o \in Ops, Operation(o) PROVE WorkerType'
  <2>1. op[o].pc # "free" => op[o].claim \in Claims /\ op[o].ctl \in Controllers
    BY DEF LinkInv, OpLink
  <2>2. CASE checkVolume(o)
    BY <1>2, <2>1, <2>2 DEF checkVolume
  <2>3. CASE provisionReturns(o)
    BY <1>2, <2>1, <2>3 DEF provisionReturns
  <2>4. CASE returnErr(o)
    BY <2>1, <2>4 DEF returnErr
  <2>5. CASE savePV(o)
    BY <1>2, <2>1, <2>5 DEF savePV, SaveFailed
  <2>6. CASE undo(o) \/ undoReturns(o)
    BY <2>6 DEF undo, undoReturns, workers
  <2> QED
    BY <1>3, <2>2, <2>3, <2>4, <2>5, <2>6 DEF Operation
<1>4. ASSUME NEW k \in Controllers, Crash(k) PROVE WorkerType'
  BY <1>4 DEF Crash
<1>5. CASE UNCHANGED workers
  BY <1>5 DEF workers
<1>6. ASSUME NEW k \in Controllers, NEW a \in Assets, VolumeStep(k, a) PROVE UNCHANGED workers
  BY <1>6 DEF VolumeStep, deleteVolume, deleteReturns, removePV
<1>7. ASSUME NEW c \in Callers, PluginWorks(c) \/ PluginFails(c) PROVE UNCHANGED workers
  BY <1>7 DEF PluginWorks, PluginFails
<1>8. ASSUME NEW a \in Assets, AssetStep(a) PROVE UNCHANGED workers
  BY <1>8 DEF AssetStep, AssetReady, FreshOCID
<1>9. ASSUME KubeStep PROVE UNCHANGED workers
  BY <1>9 DEF KubeStep, Bind, Release, EditIdentity, DeleteClaim
<1> QED
  BY <1>1, <1>3, <1>4, <1>5, <1>6, <1>7, <1>8, <1>9, StepIs DEF vars, workers

\* Faults are counted down to zero.
LEMMA NextFaults ==
    ASSUME faultsLeft \in 0..MaxFaults, [Next]_vars PROVE faultsLeft' \in 0..MaxFaults
<1> DEFINE Kept == UNCHANGED faultsLeft \/ \E kind \in FaultKinds : Fault(kind)
<1>1. ASSUME NEW k \in Controllers, NEW c \in Claims, ClaimStep(k, c) PROVE Kept
  BY <1>1 DEF ClaimStep, InformerSees, Resync, syncClaim, acquire, stopAcquiring, stopLeading,
              termEnds, RunReturns
<1>2. ASSUME NEW o \in Ops, Operation(o) PROVE Kept
  BY <1>2 DEF Operation, checkVolume, provisionReturns, returnErr, savePV, undo, undoReturns,
              FaultKinds
<1>3. ASSUME NEW k \in Controllers, NEW a \in Assets, VolumeStep(k, a) PROVE Kept
  BY <1>3 DEF VolumeStep, deleteVolume, deleteReturns, removePV, FaultKinds
<1>4. ASSUME NEW c \in Callers, PluginWorks(c) \/ PluginFails(c) PROVE Kept
  BY <1>4 DEF PluginWorks, PluginFails, FaultKinds
<1>5. ASSUME NEW a \in Assets, AssetStep(a) PROVE Kept
  BY <1>5 DEF AssetStep, AssetReady, FreshOCID
<1>6. ASSUME KubeStep PROVE Kept
  BY <1>6 DEF KubeStep, Bind, Release, EditIdentity, DeleteClaim, FaultKinds
<1>7. ASSUME NEW k \in Controllers, Crash(k) PROVE Kept
  BY <1>7 DEF Crash, FaultKinds
<1>8. ASSUME UNCHANGED vars PROVE Kept
  BY <1>8 DEF vars
<1>9. Kept
  BY <1>1, <1>2, <1>3, <1>4, <1>5, <1>6, <1>7, <1>8, StepIs
<1> QED
  BY <1>9, ControllerAssumption DEF Fault

\* Goroutines, volume workers and their calls of the plugin stay in step.
LEMMA NextLink ==
    ASSUME PluginType, KubeType, OpType, VolType, LinkInv, [Next]_vars PROVE LinkInv'
<1>1. ASSUME NEW k \in Controllers, NEW c \in Claims, ClaimStep(k, c) PROVE LinkInv'
  <2>1. /\ UNCHANGED <<call, volWorker>>
        /\ \A o \in Ops :
             \/ /\ op'[o].pc = op[o].pc /\ op'[o].ctl = op[o].ctl
                /\ op'[o].claim = op[o].claim /\ op'[o].asset = op[o].asset
             \/ /\ op[o].pc = "free" /\ op'[o].pc = "check" /\ op'[o].ctl = k
                /\ op'[o].claim = c /\ op'[o].asset = None
    BY <1>1, ClaimStepOps DEF plugin
  <2> QED
    BY <2>1 DEF LinkInv, OpLink, VolLink
<1>2. ASSUME NEW o \in Ops, Operation(o) PROVE LinkInv'
  <2>1. ASSUME Alone(o), OpLink(o)' PROVE LinkInv'
    <3>1. \A p \in Ops \ {o} : OpLink(p)'
      BY <2>1, CallerIs DEF Alone, LinkInv, OpLink
    <3>2. \A k \in Controllers, a \in Assets : VolLink(k, a)'
      BY <2>1, CallerIs DEF Alone, LinkInv, VolLink
    <3> QED
      BY <2>1, <3>1, <3>2 DEF LinkInv
  <2>2. OpLink(o) /\ op[o] \in OpRecords /\ call[o] \in CallRecords
    BY CallerIs DEF LinkInv, OpType, PluginType
  <2>3. Alone(o) /\ OpLink(o)'
    <3>1. CASE checkVolume(o)
      BY <2>2, <3>1, CheckMoves, FreeIs DEF OpLink, SameButPC
    <3>2. CASE provisionReturns(o)
      BY <2>2, <3>2, ProvisionReturnMoves DEF OpLink
    <3>3. CASE returnErr(o)
      BY <2>2, <3>3, ReturnErrMoves, FreeIs DEF OpLink
    <3>4. CASE savePV(o)
      BY <2>2, <3>4, SaveMoves, FreeIs DEF OpLink, SameButPC
    <3>5. CASE undo(o)
      BY <2>2, <3>5, UndoMoves DEF OpLink, SameButPC
    <3>6. CASE undoReturns(o)
      BY <2>2, <3>6, UndoReturnMoves, FreeIs DEF OpLink, SameButPC
    <3> QED
      BY <1>2, <3>1, <3>2, <3>3, <3>4, <3>5, <3>6 DEF Operation
  <2> QED
    BY <2>1, <2>3
<1>3. ASSUME NEW k \in Controllers, NEW a \in Assets, VolumeStep(k, a) PROVE LinkInv'
  <2>1. VolLink(k, a)
    BY DEF LinkInv
  <2>2. VolAlone(k, a) /\ VolLink(k, a)'
    <3>1. CASE deleteVolume(k, a)
      BY <2>1, <3>1, DeleteVolumeMoves DEF VolLink
    <3>2. CASE deleteReturns(k, a)
      BY <2>1, <3>2, DeleteReturnMoves DEF VolLink
    <3>3. CASE removePV(k, a)
      BY <2>1, <3>3, RemoveMoves DEF VolLink
    <3> QED
      BY <1>3, <3>1, <3>2, <3>3 DEF VolumeStep
  <2>3. \A o \in Ops : OpLink(o)'
    BY <2>2, CallerIs DEF VolAlone, LinkInv, OpLink
  <2>4. ASSUME NEW j \in Controllers, NEW b \in Assets PROVE VolLink(j, b)'
    <3>1. CASE j = k /\ b = a
      BY <2>2, <3>1
    <3>2. CASE j # k \/ b # a
      <4>1. Deleter(j, b) \in Callers \ {Deleter(k, a)}
        BY <3>2, CallerIs
      <4>2. call'[Deleter(j, b)] = call[Deleter(j, b)] /\ volWorker'[j][b] = volWorker[j][b]
        BY <2>2, <3>2, <4>1 DEF VolAlone
      <4> QED
        BY <4>2 DEF LinkInv, VolLink
    <3> QED
      BY <3>1, <3>2
  <2> QED
    BY <2>3, <2>4 DEF LinkInv
<1>4. ASSUME NEW c \in Callers, PluginWorks(c) \/ PluginFails(c) PROVE LinkInv'
  <2>1. /\ UNCHANGED <<op, volWorker>> /\ CallAlone(c)
        /\ \/ \E a \in Assets : Makes(c, a) \/ MakesUnknown(c, a)
           \/ Finds(c) \/ Returns(c) \/ Fails(c) \/ Removes(c)
    BY <1>4, PluginMoves
  <2>2. /\ call'[c].claim = call[c].claim
        /\ \/ /\ call[c].status = "provisioning" /\ call[c].asset = None
              /\ call'[c].status \in {"provisioning", "failed"}
           \/ /\ call[c].status = "provisioning" /\ call'[c].asset = call[c].asset
              /\ call'[c].status = "failed" \/ (call'[c].status = "pv" /\ call[c].asset # None)
           \/ /\ call[c].status = "deleting" /\ call'[c].status \in {"deleted", "failed"}
              /\ call'[c].asset = call[c].asset
    BY <2>1 DEF CallAlone, Makes, MakesUnknown, Finds, Returns, Fails, Removes, Plugin!Made,
                Plugin!Provisioning
  <2>3. ASSUME NEW o \in Ops PROVE OpLink(o)'
    <3>1. CASE o = c
      BY <2>1, <2>2, <3>1 DEF LinkInv, OpLink
    <3>2. CASE o # c
      BY <2>1, <3>2, CallerIs DEF LinkInv, OpLink, CallAlone
    <3> QED
      BY <3>1, <3>2
  <2>4. ASSUME NEW k \in Controllers, NEW a \in Assets PROVE VolLink(k, a)'
    <3>1. CASE Deleter(k, a) = c
      BY <2>1, <2>2, <3>1 DEF LinkInv, VolLink
    <3>2. CASE Deleter(k, a) # c
      BY <2>1, <3>2, CallerIs DEF LinkInv, VolLink, CallAlone
    <3> QED
      BY <3>1, <3>2
  <2> QED
    BY <2>3, <2>4 DEF LinkInv
<1>5. ASSUME NEW k \in Controllers, Crash(k) PROVE LinkInv'
  BY <1>5, CrashMoves, FreeIs, IdleIs DEF LinkInv, OpLink, VolLink
<1>6. CASE UNCHANGED <<call, op, volWorker>>
  BY <1>6 DEF LinkInv, OpLink, VolLink
<1> QED
  BY <1>1, <1>2, <1>3, <1>4, <1>5, <1>6, StepIs, AssetMoves, KubeMoves DEF vars

-----------------------------------------------------------------------------
(* Storage that nobody accounts for *)

TypeInv ==
    PluginType /\ KubeType /\ OpType /\ VolType /\ orphans \subseteq Assets /\ LinkInv

\* Where Delete has succeeded the asset is gone.
DoneInv ==
    /\ \A c \in Callers : call[c].status = "deleted" => life[call[c].asset] = "gone"
    /\ \A k \in Controllers, a \in Assets : volWorker[k][a] = "remove" => life[a] = "gone"

\* Only an undo and a volume worker delete, and they delete what they were given.
LEMMA DeletingIs ==
    ASSUME TypeInv, NEW c \in Callers, call[c].status \in {"deleting", "deleted"}
    PROVE  /\ call[c].asset \in Assets
           /\ \/ c \in Ops /\ op[c].pc = "undoing" /\ op[c].asset = call[c].asset
              \/ \E k \in Controllers, a \in Assets :
                   c = Deleter(k, a) /\ volWorker[k][a] = "delete" /\ call[c].asset = a
<1>1. CASE c \in Ops
  BY <1>1 DEF TypeInv, LinkInv, OpLink, OpType, OpRecords
<1>2. ASSUME NEW k \in Controllers, NEW a \in Assets, c = Deleter(k, a)
      PROVE  volWorker[k][a] = "delete" /\ call[c].asset = a
  BY <1>2 DEF TypeInv, LinkInv, VolLink
<1> QED
  BY <1>1, <1>2, CallerIs

\* Only goroutines provision.
LEMMA ProvisioningIs ==
    ASSUME TypeInv, NEW c \in Callers, call[c].status \in {"provisioning", "pv"}
    PROVE  c \in Ops /\ op[c].pc = "provision" /\ op[c].asset = None /\ call[c].claim \in Claims
<1>1. CASE c \in Ops
  BY <1>1 DEF TypeInv, LinkInv, OpLink
<1>2. ASSUME NEW k \in Controllers, NEW a \in Assets, c = Deleter(k, a) PROVE FALSE
  BY <1>2 DEF TypeInv, LinkInv, VolLink
<1> QED
  BY <1>1, <1>2, CallerIs

\* An asset that is gone stays gone while anything refers to it.
LEMMA NextDone ==
    ASSUME TypeInv, DoneInv, [Next]_vars PROVE DoneInv'
<1> USE DEF DoneInv
<1>1. ASSUME NEW k \in Controllers, NEW c \in Claims, ClaimStep(k, c) PROVE DoneInv'
  BY <1>1, ClaimStepOps DEF TypeInv, plugin
<1>2. ASSUME NEW o \in Ops, Operation(o) PROVE DoneInv'
  <2>1. Alone(o) /\ (call'[o].status # "deleted" \/ call'[o] = call[o])
    <3> USE DEF TypeInv
    <3>1. CASE checkVolume(o)
      BY <3>1, CheckMoves
    <3>2. CASE provisionReturns(o)
      BY <3>2, ProvisionReturnMoves
    <3>3. CASE returnErr(o)
      BY <3>3, ReturnErrMoves
    <3>4. CASE savePV(o)
      BY <3>4, SaveMoves
    <3>5. CASE undo(o)
      BY <3>5, UndoMoves
    <3>6. CASE undoReturns(o)
      BY <3>6, UndoReturnMoves
    <3> QED
      BY <1>2, <3>1, <3>2, <3>3, <3>4, <3>5, <3>6 DEF Operation
  <2> QED
    BY <2>1 DEF Alone
<1>3. ASSUME NEW k \in Controllers, NEW a \in Assets, VolumeStep(k, a) PROVE DoneInv'
  <2> DEFINE c == Deleter(k, a)
  <2>1. /\ VolAlone(k, a)
        /\ call'[c].status # "deleted" \/ call'[c] = call[c]
        /\ volWorker'[k][a] = "remove" => volWorker[k][a] = "delete" /\ call[c].status = "deleted"
    <3> USE DEF TypeInv
    <3>1. CASE deleteVolume(k, a)
      BY <3>1, DeleteVolumeMoves
    <3>2. CASE deleteReturns(k, a)
      BY <3>2, DeleteReturnMoves
    <3>3. CASE removePV(k, a)
      BY <3>3, RemoveMoves
    <3> QED
      BY <1>3, <3>1, <3>2, <3>3 DEF VolumeStep
  <2>2. volWorker'[k][a] = "remove" => life[a] = "gone"
    <3>1. volWorker[k][a] = "delete" => call[c].asset = a
      BY DEF TypeInv, LinkInv, VolLink
    <3>2. c \in Callers
      BY CallerIs
    <3> QED
      BY <2>1, <3>1, <3>2
  <2> HIDE DEF c
  <2>3. \A d \in Callers : call'[d].status = "deleted" => life[call'[d].asset] = "gone"
    BY <2>1 DEF VolAlone, c
  <2>4. \A j \in Controllers, b \in Assets : volWorker'[j][b] = "remove" => life[b] = "gone"
    BY <2>1, <2>2 DEF VolAlone
  <2>5. life' = life
    BY <2>1 DEF VolAlone
  <2> QED
    BY <2>3, <2>4, <2>5
<1>4. ASSUME NEW c \in Callers, PluginWorks(c) \/ PluginFails(c) PROVE DoneInv'
  <2>1. /\ UNCHANGED volWorker /\ CallAlone(c)
        /\ \/ \E a \in Assets : Makes(c, a) \/ MakesUnknown(c, a)
           \/ Finds(c) \/ Returns(c) \/ Fails(c) \/ Removes(c)
    BY <1>4, PluginMoves DEF TypeInv
  <2>2. ASSUME NEW a \in Assets, life[a] = "gone" PROVE life'[a] = "gone"
    <3>1. life \in [Assets -> Plugin!Lives]
      BY DEF TypeInv, PluginType
    <3> QED
      BY <2>1, <2>2, <3>1 DEF Makes, MakesUnknown, Plugin!Made, Finds, Returns, Fails, Removes
  <2>3. ASSUME call'[c].status = "deleted"
        PROVE  call'[c].asset \in Assets /\ life'[call'[c].asset] = "gone"
    <3>1. Removes(c) /\ call[c].status = "deleting"
      BY <2>1, <2>3 DEF Makes, MakesUnknown, Finds, Returns, Fails, Removes
    <3>2. call[c].asset \in Assets
      BY <3>1, DeletingIs
    <3> QED
      BY <3>1, <3>2 DEF Removes, TypeInv, PluginType
  <2>4. ASSUME NEW d \in Callers \ {c}, call'[d].status = "deleted"
        PROVE  life'[call'[d].asset] = "gone"
    <3>1. call'[d] = call[d]
      BY <2>1 DEF CallAlone
    <3>2. call[d].asset \in Assets /\ life[call[d].asset] = "gone"
      BY <2>4, <3>1, DeletingIs
    <3> QED
      BY <2>2, <3>1, <3>2
  <2> QED
    BY <2>1, <2>2, <2>3, <2>4
<1>5. ASSUME NEW a \in Assets, AssetStep(a) PROVE DoneInv'
  <2>1. /\ UNCHANGED <<call, volWorker>>
        /\ \/ life[a] = "making" /\ life' = [life EXCEPT ![a] = "ready"]
           \/ ~Referred(a) /\ life' = [life EXCEPT ![a] = "none"]
    BY <1>5, AssetMoves DEF TypeInv
  <2>2. ASSUME NEW b \in Assets, life[b] = "gone",
               b # a \/ Referred(a)
        PROVE  life'[b] = "gone"
    BY <2>1, <2>2 DEF TypeInv, PluginType
  <2>3. ASSUME NEW c \in Callers, call[c].status = "deleted"
        PROVE  life'[call[c].asset] = "gone"
    <3>1. call[c].asset \in Assets /\ life[call[c].asset] = "gone"
      BY <2>3, DeletingIs
    <3> QED
      BY <2>2, <3>1 DEF Referred
  <2>4. ASSUME NEW k \in Controllers, NEW b \in Assets, volWorker[k][b] = "remove"
        PROVE  life'[b] = "gone"
    BY <2>2, <2>4 DEF Referred
  <2> QED
    BY <2>1, <2>3, <2>4
<1>6. ASSUME NEW k \in Controllers, Crash(k) PROVE DoneInv'
  <2>1. /\ UNCHANGED life
        /\ \A o \in Ops : call'[o] = Plugin!Idle \/ call'[o] = call[o]
        /\ \A j \in Controllers, a \in Assets :
             /\ call'[Deleter(j, a)] = Plugin!Idle \/ call'[Deleter(j, a)] = call[Deleter(j, a)]
             /\ volWorker'[j][a] = "idle" \/ volWorker'[j][a] = volWorker[j][a]
    BY <1>6, CrashMoves DEF TypeInv
  <2>2. \A c \in Callers : call'[c] = Plugin!Idle \/ call'[c] = call[c]
    BY <2>1, CallerIs
  <2> QED
    BY <2>1, <2>2, IdleIs
<1>7. CASE UNCHANGED <<call, volWorker, life>>
  BY <1>7
<1> QED
  BY <1>1, <1>2, <1>3, <1>4, <1>5, <1>6, <1>7, StepIs, KubeMoves DEF vars, TypeInv

\* The hands an asset can be in are those of goroutines.
LEMMA WorkingIs ==
    ASSUME TypeInv, NEW a \in Assets
    PROVE  Working(a) <=> \E o \in Ops : \/ op[o].asset = a
                                         \/ /\ call[o].status \in {"provisioning", "pv"}
                                            /\ call[o].asset = a
<1>1. ASSUME NEW c \in Callers, Plugin!Provisioning(c) \/ call[c].status = "pv" PROVE c \in Ops
  BY <1>1, ProvisioningIs DEF Plugin!Provisioning
<1> QED
  BY <1>1, CallerIs DEF Working, Plugin!Provisioning

\* No step loses an asset.
LEMMA NextAccounted ==
    ASSUME TypeInv, TypeInv', DoneInv, Accounted, [Next]_vars PROVE Accounted'
<1> DEFINE Hand(o, a) == \/ op[o].asset = a
                         \/ call[o].status \in {"provisioning", "pv"} /\ call[o].asset = a
<1> SUFFICES ASSUME NEW a \in Assets, life'[a] \in {"making", "ready"}, pv'[a] = "none",
                    a \notin orphans'
             PROVE  Working(a)'
  BY DEF Accounted
<1> SUFFICES \E o \in Ops : Hand(o, a)'
  <2>1. ASSUME NEW o \in Ops, Hand(o, a)' PROVE Working(a)'
    BY <2>1, CallerIs DEF Working, Plugin!Provisioning
  <2> QED
    BY <2>1
<1>1. ASSUME life[a] \in {"making", "ready"}, pv[a] = "none", a \notin orphans
      PROVE  \E o \in Ops : Hand(o, a)
  BY <1>1, WorkingIs DEF Accounted
<1>2. None # a
  BY ControllerAssumption
<1>3. ASSUME NEW k \in Controllers, NEW c \in Claims, ClaimStep(k, c)
      PROVE  \E o \in Ops : Hand(o, a)'
  <2>1. /\ UNCHANGED <<life, call, pv, orphans>>
        /\ \A o \in Ops : op'[o].asset = op[o].asset \/ op[o].pc = "free"
    BY <1>3, ClaimStepOps DEF TypeInv, plugin, kube
  <2>2. \A o \in Ops : op[o].pc = "free" => op[o].asset = None
    BY DEF TypeInv, LinkInv, OpLink
  <2> QED
    BY <1>1, <1>2, <2>1, <2>2
<1>4. ASSUME NEW o \in Ops, Operation(o) PROVE \E p \in Ops : Hand(p, a)'
  <2>1. OpLink(o) /\ o \in Callers
    BY CallerIs DEF TypeInv, LinkInv
  <2>2. /\ Alone(o) /\ orphans \subseteq orphans'
        /\ pv[a] = "none"
        /\ Hand(o, a) => Hand(o, a)'
    <3> USE DEF TypeInv
    <3>1. CASE checkVolume(o)
      BY <1>2, <2>1, <3>1, CheckMoves DEF OpLink, SameButPC
    <3>2. CASE provisionReturns(o)
      BY <1>2, <2>1, <3>2, ProvisionReturnMoves DEF OpLink
    <3>3. CASE returnErr(o)
      BY <1>2, <2>1, <3>3, ReturnErrMoves DEF OpLink
    <3>4. CASE savePV(o)
      <4>1. op[o].pc = "save" /\ Alone(o) /\ UNCHANGED orphans /\ call'[o] = call[o]
        BY <3>4, SaveMoves
      <4>2. CASE UNCHANGED pv /\ SameButPC(o)
        BY <4>1, <4>2 DEF SameButPC
      <4>3. CASE pv' = [pv EXCEPT ![op[o].asset] = "saved"]
        <5>1. op[o].asset # a
          BY <4>3 DEF KubeType
        <5>2. call[o].status = "idle"
          BY <2>1, <4>1 DEF OpLink
        <5> QED
          BY <4>1, <4>3, <5>1, <5>2 DEF KubeType
      <4> QED
        BY <3>4, <4>2, <4>3, SaveMoves
    <3>5. CASE undo(o)
      BY <1>2, <2>1, <3>5, UndoMoves DEF OpLink, SameButPC
    <3>6. CASE undoReturns(o)
      <4>1. /\ op[o].pc = "undoing" /\ Alone(o) /\ UNCHANGED pv /\ orphans \subseteq orphans'
            /\ \/ SameButPC(o)
               \/ orphans' = orphans \cup {op[o].asset}
               \/ call[o].status \in {"pv", "deleted"}
        BY <3>6, UndoReturnMoves
      <4>2. call[o].status \in {"deleting", "deleted", "failed"} /\ call[o].asset = op[o].asset
        BY <2>1, <4>1 DEF OpLink
      <4>3. life[a] \in {"making", "ready"}
        BY <4>1 DEF Alone
      <4>4. op[o].asset = a => op'[o].asset = a
        BY <2>1, <4>1, <4>2, <4>3 DEF DoneInv, SameButPC
      <4> QED
        BY <4>1, <4>2, <4>4
    <3> QED
      BY <1>4, <3>1, <3>2, <3>3, <3>4, <3>5, <3>6 DEF Operation
  <2>3. PICK p \in Ops : Hand(p, a)
    BY <1>1, <2>2 DEF Alone
  <2>4. p # o => Hand(p, a)'
    BY <2>2, <2>3, CallerIs DEF Alone
  <2> QED
    BY <2>2, <2>3, <2>4
<1>5. ASSUME NEW k \in Controllers, NEW b \in Assets, VolumeStep(k, b)
      PROVE  \E o \in Ops : Hand(o, a)'
  <2>1. /\ VolAlone(k, b)
        /\ UNCHANGED pv \/ (pv' = [pv EXCEPT ![b] = "none"] /\ volWorker[k][b] = "remove")
    <3> USE DEF TypeInv
    <3>1. CASE deleteVolume(k, b)
      BY <3>1, DeleteVolumeMoves
    <3>2. CASE deleteReturns(k, b)
      BY <3>2, DeleteReturnMoves
    <3>3. CASE removePV(k, b)
      BY <3>3, RemoveMoves
    <3> QED
      BY <1>5, <3>1, <3>2, <3>3 DEF VolumeStep
  <2>2. pv[a] = "none"
    BY <2>1 DEF VolAlone, DoneInv, TypeInv, KubeType
  <2>3. PICK o \in Ops : Hand(o, a)
    BY <1>1, <2>1, <2>2 DEF VolAlone
  <2>4. Hand(o, a)'
    BY <2>1, <2>3, CallerIs DEF VolAlone
  <2> QED
    BY <2>4
<1>6. ASSUME NEW c \in Callers, PluginWorks(c) \/ PluginFails(c)
      PROVE  \E o \in Ops : Hand(o, a)'
  <2>1. /\ UNCHANGED <<pv, op>> /\ CallAlone(c) /\ orphans \subseteq orphans'
        /\ \/ \E b \in Assets : Makes(c, b) \/ MakesUnknown(c, b)
           \/ Finds(c) \/ Returns(c) \/ Fails(c) \/ Removes(c)
    BY <1>6, PluginMoves DEF TypeInv
  <2>2. life \in [Assets -> Plugin!Lives]
    BY DEF TypeInv, PluginType
  <2>3. CASE Makes(c, a)
    BY <2>3, ProvisioningIs DEF Makes, Plugin!Made, Plugin!Provisioning
  <2>4. CASE ~Makes(c, a)
    <3>1. life[a] \in {"making", "ready"}
      BY <2>1, <2>2, <2>4 DEF Makes, MakesUnknown, Plugin!Made, Finds, Returns, Fails, Removes
    <3>2. PICK o \in Ops : Hand(o, a)
      BY <1>1, <2>1, <3>1
    <3>3. CASE o # c \/ op[o].asset = a
      BY <2>1, <3>2, <3>3, CallerIs DEF CallAlone
    <3>4. CASE o = c /\ op[o].asset # a
      <4>1. call[c].status \in {"provisioning", "pv"} /\ call[c].asset = a
        BY <3>2, <3>4
      <4>2. Returns(c)
        BY <1>2, <2>1, <2>2, <3>1, <4>1
        DEF Makes, MakesUnknown, Plugin!Made, Finds, Fails, Removes
      <4> QED
        BY <3>4, <4>1, <4>2 DEF Returns
    <3> QED
      BY <3>3, <3>4
  <2> QED
    BY <2>3, <2>4
<1>7. ASSUME NEW b \in Assets, AssetStep(b) PROVE \E o \in Ops : Hand(o, a)'
  <2>1. /\ UNCHANGED <<call, pv, op>>
        /\ \/ /\ life[b] = "making" /\ life' = [life EXCEPT ![b] = "ready"] /\ UNCHANGED orphans
           \/ life' = [life EXCEPT ![b] = "none"] /\ orphans' = orphans \ {b}
    BY <1>7, AssetMoves DEF TypeInv
  <2>2. life[a] \in {"making", "ready"} /\ a \notin orphans
    BY <2>1 DEF TypeInv, PluginType
  <2> QED
    BY <1>1, <2>1, <2>2
<1>8. CASE KubeStep
  BY <1>1, <1>8, KubeMoves DEF TypeInv
<1>9. ASSUME NEW k \in Controllers, Crash(k) PROVE \E o \in Ops : Hand(o, a)'
  <2>1. /\ UNCHANGED <<life, pv>> /\ orphans \subseteq orphans'
        /\ \A o \in Ops : op[o].ctl # k => op'[o] = op[o] /\ call'[o] = call[o]
        /\ \A o \in Ops : op[o].ctl = k /\ life[a] \in {"making", "ready"} /\ pv[a] = "none" =>
                            a \notin {op[o].asset, call[o].asset}
    BY <1>9, CrashMoves DEF TypeInv
  <2> QED
    BY <1>1, <2>1
<1>10. CASE UNCHANGED vars
  BY <1>1, <1>10 DEF vars
<1> QED
  BY <1>3, <1>4, <1>5, <1>6, <1>7, <1>8, <1>9, <1>10, StepIs

-----------------------------------------------------------------------------
(* A plugin with one asset per PV: who may touch an asset *)

\* The goroutine has the asset, or its call of the plugin has.
Holds(o, a) == op[o].asset = a \/ call[o].asset = a

Provides(o, a) == call[o].status = "provisioning" /\ call[o].asset = a

Offers(o, a) == \/ call[o].status = "pv" /\ call[o].asset = a
                \/ op[o].pc = "save" /\ op[o].asset = a

\* An asset has one holder, and none once it has a PV; volume workers only have
\* to do with PVs that are released; a bound claim is the owner of its PV.
Exclusive(a) ==
    /\ \A o, p \in Ops : Holds(o, a) /\ Holds(p, a) => o = p
    /\ \A o \in Ops : Holds(o, a) =>
         /\ pv[a] = "none" /\ life[a] # "none"
         /\ \A k \in Controllers : volWorker[k][a] = "idle"
    /\ \A o \in Ops : Provides(o, a) => life[a] # "gone"
    /\ \A o \in Ops : Offers(o, a) => life[a] = "ready"
    /\ \A k \in Controllers : volWorker[k][a] # "idle" =>
         pv[a] \in {"none", "released"} /\ life[a] # "none"
    /\ pv[a] # "none" => life[a] # "none"
    /\ pv[a] \in {"saved", "bound"} => life[a] = "ready"
    /\ life[a] # "none" => owner[a] \in Claims
    /\ \A c \in Claims : claim[c] = a => pv[a] = "bound" /\ owner[a] = c

ExclusiveInv == \A a \in Assets : Exclusive(a)

\* Asset a stays as it is, and no new hand is laid on it.
LEMMA HandsOff ==
    ASSUME NEW a \in Assets, Exclusive(a),
           life'[a] = life[a], pv'[a] = pv[a], owner'[a] = owner[a], UNCHANGED claim,
           \A o \in Ops : /\ Holds(o, a)' => Holds(o, a)
                          /\ Provides(o, a)' => Provides(o, a)
                          /\ Offers(o, a)' => Offers(o, a) \/ life[a] = "ready",
           \A k \in Controllers : volWorker'[k][a] \in {"idle", volWorker[k][a]}
    PROVE  Exclusive(a)'
<1>1. /\ \A o, p \in Ops : Holds(o, a)' /\ Holds(p, a)' => o = p
      /\ \A o \in Ops : Holds(o, a)' =>
           /\ pv'[a] = "none" /\ life'[a] # "none"
           /\ \A k \in Controllers : volWorker'[k][a] = "idle"
  BY DEF Exclusive
<1>2. /\ \A o \in Ops : Provides(o, a)' => life'[a] # "gone"
      /\ \A o \in Ops : Offers(o, a)' => life'[a] = "ready"
  BY DEF Exclusive
<1>3. \A k \in Controllers : volWorker'[k][a] # "idle" =>
         pv'[a] \in {"none", "released"} /\ life'[a] # "none"
  BY DEF Exclusive
<1> QED
  BY <1>1, <1>2, <1>3 DEF Exclusive

\* The steps of the claim queue.
LEMMA ClaimExclusive ==
    ASSUME TypeInv, NEW a \in Assets, Exclusive(a),
           NEW k \in Controllers, NEW c \in Claims, ClaimStep(k, c)
    PROVE  Exclusive(a)'
<1>1. /\ UNCHANGED <<life, owner, call, claim, pv, volWorker>>
      /\ \A o \in Ops : \/ op'[o].pc = op[o].pc /\ op'[o].asset = op[o].asset
                        \/ op[o].pc = "free" /\ op'[o].pc = "check" /\ op'[o].asset = None
  BY ClaimStepOps DEF TypeInv, plugin, kube
<1>2. a # None
  BY ControllerAssumption
<1>3. \A o \in Ops : /\ Holds(o, a)' => Holds(o, a)
                     /\ Provides(o, a)' => Provides(o, a)
                     /\ Offers(o, a)' => Offers(o, a)
  BY <1>1, <1>2 DEF Holds, Provides, Offers
<1> QED
  BY <1>1, <1>3, HandsOff

\* The steps of a goroutine, if no answer is lost.
LEMMA OperationExclusive ==
    ASSUME TypeInv, NEW a \in Assets, Exclusive(a), "answer" \notin Faults,
           NEW o \in Ops, Operation(o)
    PROVE  Exclusive(a)'
<1>1. OpLink(o) /\ o \in Callers /\ a # None
  BY CallerIs, ControllerAssumption DEF TypeInv, LinkInv
<1>2. ASSUME Alone(o), pv'[a] = pv[a],
             Holds(o, a)' => Holds(o, a),
             Provides(o, a)' => Provides(o, a),
             Offers(o, a)' => Offers(o, a) \/ life[a] = "ready"
      PROVE  Exclusive(a)'
  <2>1. \A p \in Ops \ {o} : op'[p] = op[p] /\ call'[p] = call[p]
    BY <1>2, CallerIs DEF Alone
  <2>2. \A p \in Ops : /\ Holds(p, a)' => Holds(p, a)
                       /\ Provides(p, a)' => Provides(p, a)
                       /\ Offers(p, a)' => Offers(p, a) \/ life[a] = "ready"
    BY <1>2, <2>1 DEF Holds, Provides, Offers
  <2> QED
    BY <1>2, <2>2, HandsOff DEF Alone
<1> USE DEF TypeInv
<1>3. CASE checkVolume(o)
  BY <1>1, <1>2, <1>3, CheckMoves, FreeIs DEF OpLink, SameButPC, Holds, Provides, Offers
<1>4. CASE provisionReturns(o)
  BY <1>1, <1>2, <1>4, ProvisionReturnMoves DEF OpLink, Holds, Provides, Offers
<1>5. CASE returnErr(o)
  BY <1>1, <1>2, <1>5, ReturnErrMoves, FreeIs DEF OpLink, Holds, Provides, Offers
<1>6. CASE savePV(o)
  <2>1. op[o].pc = "save" /\ Alone(o) /\ call'[o] = call[o]
    BY <1>6, SaveMoves
  <2>2. CASE op'[o].pc \in {"save", "undo"} /\ SameButPC(o) /\ UNCHANGED pv
    BY <1>2, <2>1, <2>2 DEF SameButPC, Holds, Provides, Offers
  <2>3. CASE /\ op'[o] = Free /\ pv[op[o].asset] = "none"
             /\ pv' = [pv EXCEPT ![op[o].asset] = "saved"]
    <3>1. CASE op[o].asset # a
      <4>1. pv'[a] = pv[a]
        BY <2>3, <3>1 DEF KubeType
      <4> QED
        BY <1>1, <1>2, <2>1, <2>3, <4>1, FreeIs DEF Holds, Provides, Offers
    <3>2. CASE op[o].asset = a
      <4>1. /\ life[a] = "ready" /\ owner[a] \in Claims /\ Holds(o, a)
            /\ \A k \in Controllers : volWorker[k][a] = "idle"
            /\ \A p \in Ops : Holds(p, a) => p = o
            /\ \A c \in Claims : claim[c] # a
        BY <2>1, <2>3, <3>2 DEF Exclusive, Offers, Holds
      <4>2. \A p \in Ops : ~Holds(p, a)'
        <5>1. call[o].asset = None
          BY <1>1, <2>1 DEF OpLink
        <5>2. ~Holds(o, a)'
          BY <1>1, <2>1, <2>3, <5>1, FreeIs DEF Holds
        <5>3. \A p \in Ops \ {o} : op'[p] = op[p] /\ call'[p] = call[p]
          BY <2>1, CallerIs DEF Alone
        <5> QED
          BY <4>1, <5>2, <5>3 DEF Holds
      <4>3. \A p \in Ops : ~Provides(p, a)' /\ ~Offers(p, a)'
        BY <4>2 DEF Holds, Provides, Offers
      <4>4. pv'[a] = "saved" /\ UNCHANGED <<life, owner, claim, volWorker>>
        BY <2>1, <2>3, <3>2 DEF KubeType, Alone
      <4> QED
        BY <4>1, <4>2, <4>3, <4>4 DEF Exclusive
    <3> QED
      BY <3>1, <3>2
  <2> QED
    BY <1>6, <2>2, <2>3, SaveMoves
<1>7. CASE undo(o)
  BY <1>1, <1>2, <1>7, UndoMoves DEF OpLink, SameButPC, Holds, Provides, Offers
<1>8. CASE undoReturns(o)
  <2>1. /\ op[o].pc = "undoing" /\ Alone(o) /\ UNCHANGED pv
        /\ call'[o].status = "idle" /\ call'[o].asset = None
        /\ (op'[o].pc = "undo" /\ SameButPC(o)) \/ op'[o] = Free
    BY <1>8, UndoReturnMoves
  <2> QED
    BY <1>1, <1>2, <2>1, FreeIs DEF SameButPC, Holds, Provides, Offers
<1> QED
  BY <1>3, <1>4, <1>5, <1>6, <1>7, <1>8 DEF Operation

\* The steps of a volume worker.
LEMMA VolumeExclusive ==
    ASSUME TypeInv, NEW a \in Assets, Exclusive(a),
           NEW k \in Controllers, NEW b \in Assets, VolumeStep(k, b)
    PROVE  Exclusive(a)'
<1>1. ASSUME VolAlone(k, b)
      PROVE  /\ UNCHANGED <<life, owner, claim>>
             /\ \A o \in Ops : /\ Holds(o, a)' <=> Holds(o, a)
                               /\ Provides(o, a)' <=> Provides(o, a)
                               /\ Offers(o, a)' <=> Offers(o, a)
             /\ \A j \in Controllers : j # k \/ b # a => volWorker'[j][a] = volWorker[j][a]
  <2>1. \A o \in Ops : op'[o] = op[o] /\ call'[o] = call[o]
    BY <1>1, CallerIs DEF VolAlone
  <2> QED
    BY <1>1, <2>1 DEF VolAlone, Holds, Provides, Offers
<1> USE DEF TypeInv
<1>2. CASE deleteVolume(k, b)
  <2>1. VolAlone(k, b) /\ UNCHANGED pv /\ pv[b] = "released"
    BY <1>2, DeleteVolumeMoves
  <2>2. CASE a # b
    BY <1>1, <2>1, <2>2, HandsOff
  <2>3. CASE a = b
    BY <1>1, <2>1, <2>3 DEF Exclusive
  <2> QED
    BY <2>2, <2>3
<1>3. CASE deleteReturns(k, b)
  <2>1. /\ VolAlone(k, b) /\ UNCHANGED pv
        /\ volWorker[k][b] = "delete" /\ volWorker'[k][b] \in {"idle", "remove"}
    BY <1>3, DeleteReturnMoves
  <2>2. CASE a # b
    BY <1>1, <2>1, <2>2, HandsOff
  <2>3. CASE a = b
    BY <1>1, <2>1, <2>3 DEF Exclusive
  <2> QED
    BY <2>2, <2>3
<1>4. CASE removePV(k, b)
  <2>1. /\ VolAlone(k, b)
        /\ UNCHANGED pv \/ pv' = [pv EXCEPT ![b] = "none"]
        /\ volWorker[k][b] = "remove" /\ volWorker'[k][b] = "idle"
    BY <1>4, RemoveMoves
  <2>2. CASE pv'[a] = pv[a]
    BY <1>1, <2>1, <2>2, HandsOff
  <2>3. CASE pv'[a] # pv[a]
    <3>1. a = b /\ pv'[a] = "none" /\ pv[a] = "released"
      BY <2>1, <2>3 DEF KubeType, Exclusive
    <3> QED
      BY <1>1, <2>1, <3>1 DEF Exclusive
  <2> QED
    BY <2>2, <2>3
<1> QED
  BY <1>2, <1>3, <1>4 DEF VolumeStep

\* The steps of the plugin.
LEMMA PluginExclusive ==
    ASSUME TypeInv, NEW a \in Assets, Exclusive(a), ~Shared,
           NEW c \in Callers, PluginWorks(c) \/ PluginFails(c)
    PROVE  Exclusive(a)'
<1>1. /\ UNCHANGED <<claim, pv, op, volWorker>> /\ CallAlone(c)
      /\ \/ \E b \in Assets : Makes(c, b) \/ MakesUnknown(c, b)
         \/ Returns(c) \/ Fails(c) \/ Removes(c)
  BY PluginMoves DEF TypeInv, Finds
<1>2. a # None
  BY ControllerAssumption
<1>3. \A o \in Ops \ {c} : op'[o] = op[o] /\ call'[o] = call[o]
  BY <1>1, CallerIs DEF CallAlone
<1>4. \A o \in Ops \ {c} : /\ Holds(o, a)' <=> Holds(o, a)
                           /\ Provides(o, a)' <=> Provides(o, a)
                           /\ Offers(o, a)' <=> Offers(o, a)
  BY <1>3 DEF Holds, Provides, Offers
<1>5. ASSUME life'[a] = life[a], owner'[a] = owner[a],
             c \in Ops => /\ Holds(c, a)' => Holds(c, a)
                          /\ Provides(c, a)' => Provides(c, a)
                          /\ Offers(c, a)' => Offers(c, a) \/ life[a] = "ready"
      PROVE  Exclusive(a)'
  BY <1>1, <1>4, <1>5, HandsOff
<1>6. ASSUME NEW b \in Assets, Plugin!Made(c, b)
      PROVE  /\ call[c].status = "provisioning" /\ call[c].asset = None
             /\ c \in Ops /\ op[c].asset = None
             /\ b # a => life'[a] = life[a] /\ owner'[a] = owner[a]
             /\ b = a => /\ life[a] = "none" /\ life'[a] = "making" /\ owner'[a] \in Claims
                         /\ \A o \in Ops : ~Holds(o, a)
                         /\ \A k \in Controllers : volWorker[k][a] = "idle"
                         /\ pv[a] = "none"
                         /\ \A d \in Claims : claim[d] # a
  <2>1. /\ call[c].status = "provisioning" /\ call[c].asset = None /\ life[b] = "none"
        /\ life' = [life EXCEPT ![b] = "making"]
        /\ owner' = [owner EXCEPT ![b] = call[c].claim]
    BY <1>6 DEF Plugin!Made, Plugin!Provisioning
  <2>2. c \in Ops /\ op[c].asset = None /\ call[c].claim \in Claims
    BY <2>1, ProvisioningIs
  <2>3. /\ b # a => life'[a] = life[a] /\ owner'[a] = owner[a]
        /\ b = a => life[a] = "none" /\ life'[a] = "making" /\ owner'[a] \in Claims
    BY <2>1, <2>2 DEF TypeInv, PluginType
  <2>4. b = a => /\ \A o \in Ops : ~Holds(o, a)
                 /\ \A k \in Controllers : volWorker[k][a] = "idle"
                 /\ pv[a] = "none"
                 /\ \A d \in Claims : claim[d] # a
    BY <2>1 DEF Exclusive
  <2> QED
    BY <2>1, <2>2, <2>3, <2>4
<1>7. ASSUME NEW b \in Assets, Makes(c, b) PROVE Exclusive(a)'
  <2>1. Plugin!Made(c, b) /\ call'[c].status = "provisioning" /\ call'[c].asset = b
    BY <1>7, <1>6 DEF Makes
  <2>2. CASE b # a
    BY <1>1, <1>5, <1>6, <2>1, <2>2 DEF Holds, Provides, Offers
  <2>3. CASE b = a
    <3>1. \A o \in Ops : /\ Holds(o, a)' => o = c
                         /\ ~Offers(o, a)'
      BY <1>1, <1>4, <1>6, <2>1, <2>3 DEF Holds, Offers
    <3> QED
      BY <1>1, <1>6, <2>1, <2>3, <3>1 DEF Exclusive
  <2> QED
    BY <2>2, <2>3
<1>8. ASSUME NEW b \in Assets, MakesUnknown(c, b) PROVE Exclusive(a)'
  <2>1. Plugin!Made(c, b) /\ call'[c].status = "failed" /\ call'[c].asset = call[c].asset
    BY <1>8 DEF MakesUnknown
  <2>2. CASE b # a
    BY <1>1, <1>5, <1>6, <2>1, <2>2 DEF Holds, Provides, Offers
  <2>3. CASE b = a
    <3>1. \A o \in Ops : ~Holds(o, a)'
      BY <1>1, <1>2, <1>4, <1>6, <2>1, <2>3 DEF Holds
    <3>2. \A o \in Ops : ~Provides(o, a)' /\ ~Offers(o, a)'
      BY <3>1 DEF Holds, Provides, Offers
    <3> QED
      BY <1>1, <1>6, <2>1, <2>3, <3>1, <3>2 DEF Exclusive
  <2> QED
    BY <2>2, <2>3
<1>9. CASE Returns(c)
  <2>1. c \in Ops
    BY <1>9, ProvisioningIs DEF Returns
  <2>2. Provides(c, a) => life[a] = "ready"
    BY <1>9, <2>1 DEF Exclusive, Returns, Provides
  <2> QED
    BY <1>1, <1>5, <1>9, <2>2 DEF Returns, Holds, Provides, Offers
<1>10. CASE Fails(c)
  BY <1>1, <1>5, <1>10 DEF Fails, Holds, Provides, Offers
<1>11. CASE Removes(c)
  <2>1. /\ life' = [life EXCEPT ![call[c].asset] = "gone"] /\ UNCHANGED owner
        /\ call'[c].asset = call[c].asset /\ call'[c].status \in {"deleted", "failed"}
        /\ call[c].status \in {"provisioning", "deleting"}
    BY <1>11 DEF Removes
  <2>2. CASE call[c].asset # a
    <3>1. life'[a] = life[a]
      BY <2>1, <2>2 DEF TypeInv, PluginType
    <3> QED
      BY <1>1, <1>5, <2>1, <3>1 DEF Holds, Provides, Offers
  <2>3. CASE call[c].asset = a
    <3>1. life'[a] = "gone"
      BY <2>1, <2>3 DEF TypeInv, PluginType
    <3>2. CASE c \in Ops
      <4>1. Holds(c, a) /\ pv[a] = "none"
        BY <2>3, <3>2 DEF Holds, Exclusive
      <4>2. \A o \in Ops : Holds(o, a) => o = c
        BY <3>2, <4>1 DEF Exclusive
      <4>3. op[c].pc # "save"
        BY <2>1, <3>2 DEF TypeInv, LinkInv, OpLink
      <4>4. \A o \in Ops : /\ Holds(o, a)' => Holds(o, a)
                           /\ ~Provides(o, a)' /\ ~Offers(o, a)'
        BY <1>1, <1>4, <2>1, <3>2, <4>2, <4>3 DEF Holds, Provides, Offers
      <4>5. \A o, p \in Ops : Holds(o, a)' /\ Holds(p, a)' => o = p
        BY <4>2, <4>4
      <4>6. /\ \A k \in Controllers : volWorker[k][a] = "idle"
            /\ owner[a] \in Claims
            /\ \A d \in Claims : claim[d] # a
        BY <3>2, <4>1 DEF Exclusive
      <4> QED
        BY <1>1, <2>1, <3>1, <4>1, <4>4, <4>5, <4>6 DEF Exclusive
    <3>3. CASE c \notin Ops
      <4>1. PICK k \in Controllers : volWorker[k][a] = "delete"
        BY <2>1, <2>3, <3>3, DeletingIs, ProvisioningIs
      <4>2. pv[a] \in {"none", "released"} /\ life[a] # "none" /\ \A o \in Ops : ~Holds(o, a)
        BY <4>1 DEF Exclusive
      <4>3. \A o \in Ops : ~Holds(o, a)' /\ ~Provides(o, a)' /\ ~Offers(o, a)'
        BY <1>4, <3>3, <4>2 DEF Holds, Provides, Offers
      <4> QED
        BY <1>1, <2>1, <3>1, <4>2, <4>3 DEF Exclusive
    <3> QED
      BY <3>2, <3>3
  <2> QED
    BY <2>2, <2>3
<1> QED
  BY <1>1, <1>7, <1>8, <1>9, <1>10, <1>11

\* The steps of the service.
LEMMA AssetExclusive ==
    ASSUME TypeInv, NEW a \in Assets, Exclusive(a), NEW b \in Assets, AssetStep(b)
    PROVE  Exclusive(a)'
<1>1. /\ UNCHANGED <<call, claim, pv, op, volWorker>>
      /\ \/ /\ life[b] = "making" /\ life' = [life EXCEPT ![b] = "ready"]
            /\ UNCHANGED owner
         \/ /\ ~Referred(b) /\ life' = [life EXCEPT ![b] = "none"]
            /\ owner' = [owner EXCEPT ![b] = None]
  BY AssetMoves DEF TypeInv
<1>2. \A o \in Ops : /\ Holds(o, a)' <=> Holds(o, a)
                     /\ Provides(o, a)' <=> Provides(o, a)
                     /\ Offers(o, a)' <=> Offers(o, a)
  BY <1>1 DEF Holds, Provides, Offers
<1>3. CASE b # a
  <2>1. life'[a] = life[a] /\ owner'[a] = owner[a]
    BY <1>1, <1>3 DEF TypeInv, PluginType
  <2> QED
    BY <1>1, <1>2, <2>1, HandsOff
<1>4. CASE b = a /\ life[b] = "making" /\ life' = [life EXCEPT ![b] = "ready"] /\ UNCHANGED owner
  <2>1. life'[a] = "ready"
    BY <1>4 DEF TypeInv, PluginType
  <2> QED
    BY <1>1, <1>2, <1>4, <2>1 DEF Exclusive
<1>5. CASE b = a /\ ~Referred(b) /\ life' = [life EXCEPT ![b] = "none"]
  <2>1. life'[a] = "none"
    BY <1>5 DEF TypeInv, PluginType
  <2>2. /\ pv[a] = "none" /\ \A d \in Claims : claim[d] # a
        /\ \A k \in Controllers : volWorker[k][a] = "idle"
        /\ \A o \in Ops : ~Holds(o, a)
    BY <1>5, CallerIs DEF Referred, Holds
  <2>3. \A o \in Ops : ~Holds(o, a)' /\ ~Provides(o, a)' /\ ~Offers(o, a)'
    BY <1>2, <2>2 DEF Holds, Provides, Offers
  <2> QED
    BY <1>1, <2>1, <2>2, <2>3 DEF Exclusive
<1> QED
  BY <1>1, <1>3, <1>4, <1>5

\* The steps of Kubernetes.
LEMMA KubeExclusive ==
    ASSUME TypeInv, ExclusiveInv, KubeStep, NEW a \in Assets PROVE Exclusive(a)'
<1>1. KubeType' /\ UNCHANGED <<life, owner, call, op, volWorker>>
  BY KubeMoves DEF TypeInv
<1>2. \A o \in Ops : /\ Holds(o, a)' <=> Holds(o, a)
                     /\ Provides(o, a)' <=> Provides(o, a)
                     /\ Offers(o, a)' <=> Offers(o, a)
  BY <1>1 DEF Holds, Provides, Offers
<1>3. Exclusive(a)
  BY DEF ExclusiveInv
<1>4. ASSUME NEW b \in Assets, Bind(b) PROVE Exclusive(a)'
  <2>1. /\ pv[b] = "saved" /\ claim[owner[b]] = "pending"
        /\ pv' = [pv EXCEPT ![b] = "bound"] /\ claim' = [claim EXCEPT ![owner[b]] = b]
    BY <1>4 DEF Bind
  <2>2. owner[b] \in Claims
    BY <2>1 DEF ExclusiveInv, Exclusive
  <2>3. CASE b # a
    <3>1. pv'[a] = pv[a] /\ \A d \in Claims : claim'[d] = a => claim[d] = a
      BY <2>1, <2>2, <2>3 DEF TypeInv, KubeType
    <3> QED
      BY <1>1, <1>2, <1>3, <3>1 DEF Exclusive
  <2>4. CASE b = a
    <3>1. /\ pv'[a] = "bound"
          /\ \A d \in Claims : claim'[d] = a => d = owner[a]
      <4>1. \A d \in Claims : claim[d] # a
        BY <1>3, <2>1, <2>4 DEF Exclusive
      <4> QED
        BY <2>1, <2>2, <2>4, <4>1 DEF TypeInv, KubeType
    <3> QED
      BY <1>1, <1>2, <1>3, <2>1, <2>4, <3>1 DEF Exclusive
  <2> QED
    BY <2>3, <2>4
<1>5. ASSUME NEW b \in Assets, Release(b) PROVE Exclusive(a)'
  <2>1. /\ pv[b] \in {"saved", "bound"} /\ claim[owner[b]] # b
        /\ pv' = [pv EXCEPT ![b] = "released"] /\ UNCHANGED claim
    BY <1>5 DEF Release
  <2>2. CASE b # a
    <3>1. pv'[a] = pv[a]
      BY <2>1, <2>2 DEF TypeInv, KubeType
    <3> QED
      BY <1>1, <1>2, <1>3, <2>1, <3>1, HandsOff
  <2>3. CASE b = a
    <3>1. pv'[a] = "released" /\ \A d \in Claims : claim[d] # a
      BY <1>3, <2>1, <2>3 DEF TypeInv, KubeType, Exclusive
    <3> QED
      BY <1>1, <1>2, <1>3, <2>1, <2>3, <3>1 DEF Exclusive
  <2> QED
    BY <2>2, <2>3
<1>6. ASSUME NEW b \in Assets, EditIdentity(b) PROVE Exclusive(a)'
  BY <1>1, <1>2, <1>3, <1>6, HandsOff DEF EditIdentity
<1>7. ASSUME NEW c \in Claims, DeleteClaim(c) PROVE Exclusive(a)'
  <2>1. UNCHANGED pv /\ \A d \in Claims : claim'[d] = a => claim[d] = a
    BY <1>7, ControllerAssumption DEF DeleteClaim, TypeInv, KubeType
  <2> QED
    BY <1>1, <1>2, <1>3, <2>1 DEF Exclusive
<1> QED
  BY <1>4, <1>5, <1>6, <1>7 DEF KubeStep

\* A crash.
LEMMA CrashExclusive ==
    ASSUME TypeInv, NEW a \in Assets, Exclusive(a), NEW k \in Controllers, Crash(k)
    PROVE  Exclusive(a)'
<1>1. /\ UNCHANGED <<life, owner, claim, pv>>
      /\ \A o \in Ops : \/ op'[o] = Free /\ call'[o] = Plugin!Idle
                        \/ op'[o] = op[o] /\ call'[o] = call[o]
      /\ \A j \in Controllers : volWorker'[j][a] \in {"idle", volWorker[j][a]}
  BY CrashMoves DEF TypeInv
<1>2. a # None
  BY ControllerAssumption
<1>3. \A o \in Ops : /\ Holds(o, a)' => Holds(o, a)
                     /\ Provides(o, a)' => Provides(o, a)
                     /\ Offers(o, a)' => Offers(o, a)
  BY <1>1, <1>2, FreeIs, IdleIs DEF Holds, Provides, Offers
<1> QED
  BY <1>1, <1>3, HandsOff

\* No step lays hands on what another has.
LEMMA NextExclusive ==
    ASSUME TypeInv, ExclusiveInv, ~Shared, "answer" \notin Faults, [Next]_vars
    PROVE  ExclusiveInv'
<1> SUFFICES ASSUME NEW a \in Assets PROVE Exclusive(a)'
  BY DEF ExclusiveInv
<1>1. Exclusive(a)
  BY DEF ExclusiveInv
<1>2. CASE UNCHANGED vars
  BY <1>1, <1>2, HandsOff DEF vars, Holds, Provides, Offers
<1> QED
  BY <1>1, <1>2, StepIs, ClaimExclusive, OperationExclusive, VolumeExclusive, PluginExclusive,
     AssetExclusive, KubeExclusive, CrashExclusive

-----------------------------------------------------------------------------
(* The theorems *)

Inv ==
    /\ TypeInv /\ WorkerType /\ faultsLeft \in 0..MaxFaults
    /\ DoneInv /\ Accounted

\* In the beginning there is nothing to do and nothing to lose.
LEMMA InitInv == Init => Inv /\ ExclusiveInv
<1> SUFFICES ASSUME Init PROVE Inv /\ ExclusiveInv
  OBVIOUS
<1>1. /\ life = [a \in Assets |-> "none"] /\ owner = [a \in Assets |-> None]
      /\ call = [c \in Callers |-> Plugin!Idle]
      /\ claim = [c \in Claims |-> "pending"]
      /\ pv = [a \in Assets |-> "none"] /\ identity = [a \in Assets |-> "none"]
      /\ op = [o \in Ops |-> Free]
      /\ volWorker = [k \in Controllers |-> [a \in Assets |-> "idle"]] /\ orphans = {}
  BY DEF Init, Plugin!Init, Callers
<1>2. PluginType
  BY <1>1, IdleIs DEF PluginType, Plugin!Lives
<1>3. KubeType /\ VolType /\ orphans \subseteq Assets
  BY <1>1 DEF KubeType, VolType
<1>4. OpType
  BY <1>1, FreeIs DEF OpType
<1>5. WorkerType
  BY DEF Init, WorkerType
<1>6. faultsLeft \in 0..MaxFaults
  BY ControllerAssumption DEF Init
<1>7. /\ \A o \in Ops : op[o] = Free /\ call[o] = Plugin!Idle
      /\ \A c \in Callers : call[c] = Plugin!Idle
      /\ \A k \in Controllers, a \in Assets :
           volWorker[k][a] = "idle" /\ call[Deleter(k, a)] = Plugin!Idle
  BY <1>1, CallerIs
<1>8. LinkInv
  BY <1>7, FreeIs, IdleIs DEF LinkInv, OpLink, VolLink
<1>9. DoneInv
  BY <1>7, IdleIs DEF DoneInv
<1>10. Accounted
  BY <1>1 DEF Accounted
<1>11. ExclusiveInv
  <2> SUFFICES ASSUME NEW a \in Assets PROVE Exclusive(a)
    BY DEF ExclusiveInv
  <2>1. a # None /\ a # "pending"
    BY ControllerAssumption
  <2>2. \A o \in Ops : ~Holds(o, a) /\ ~Provides(o, a) /\ ~Offers(o, a)
    BY <1>7, <2>1, FreeIs, IdleIs DEF Holds, Provides, Offers
  <2> QED
    BY <1>1, <2>1, <2>2 DEF Exclusive
<1> QED
  BY <1>2, <1>3, <1>4, <1>5, <1>6, <1>8, <1>9, <1>10, <1>11 DEF Inv, TypeInv

\* No step leads out of the invariant.
LEMMA NextInv == Inv /\ [Next]_vars => Inv'
<1> SUFFICES ASSUME Inv, [Next]_vars PROVE Inv'
  OBVIOUS
<1>1. TypeInv'
  BY NextCoreType, NextLink DEF Inv, TypeInv
<1>2. WorkerType'
  BY NextWorkerType DEF Inv, TypeInv
<1>3. (faultsLeft \in 0..MaxFaults)'
  BY NextFaults DEF Inv
<1>4. DoneInv'
  BY NextDone DEF Inv
<1>5. Accounted'
  BY <1>1, NextAccounted DEF Inv
<1> QED
  BY <1>1, <1>2, <1>3, <1>4, <1>5 DEF Inv

\* Every reachable state satisfies the invariant.
LEMMA InvHolds == Spec => []Inv
  BY InitInv, NextInv, PTL DEF Spec

\* The variables have their types: an operation never counts more tries than
\* createProvisionedPVRetryCount allows.
THEOREM TypeCorrect == Spec => []TypeOK
<1>1. Inv => TypeOK
  BY DEF Inv, TypeInv, PluginType, KubeType, WorkerType, OpType, VolType, CallRecords, OpRecords,
         Tries, TypeOK
<1> QED
  BY <1>1, InvHolds, PTL

\* Whatever the number of controllers, goroutines and faults, with crashes and lost
\* answers, and for a plugin of either kind: storage without a PV object is in
\* the hands of an operation or was given up on record.
THEOREM NothingUnaccounted == Spec => []Accounted
<1>1. Inv => Accounted
  BY DEF Inv
<1> QED
  BY <1>1, InvHolds, PTL

\* Every asset of an exclusive plugin has one holder at a time.
LEMMA ExclusiveHolds ==
    ASSUME ~Shared, "answer" \notin Faults PROVE Spec => [](Inv /\ ExclusiveInv)
<1>1. Inv /\ ExclusiveInv /\ [Next]_vars => ExclusiveInv'
  BY NextExclusive DEF Inv
<1> QED
  BY <1>1, InitInv, NextInv, PTL DEF Spec

\* With one asset per PV, and as long as no answer to the creation of a PV is lost,
\* nothing takes the storage of a claim that is bound: not the undo of a failed
\* save, not a goroutine that lost its lock, not a second provisioning of the
\* claim, not the deletion of a spare PV.
THEOREM StorageKept ==
    ASSUME ~Shared, "answer" \notin Faults PROVE Spec => []BoundKeepsStorage
<1>1. ExclusiveInv => BoundKeepsStorage
  BY DEF ExclusiveInv, Exclusive, BoundKeepsStorage
<1> QED
  BY <1>1, ExclusiveHolds, PTL

\* On the same two conditions the undo deletes only what has no PV object, as the
\* comment in the code says; the run ctl_shared shows what becomes of it without
\* the first.
THEOREM UndoSparesSaved ==
    ASSUME ~Shared, "answer" \notin Faults PROVE Spec => []UndoOnlyUnsaved
<1>1. Inv /\ ExclusiveInv => UndoOnlyUnsaved
  <2> SUFFICES ASSUME Inv, ExclusiveInv, NEW o \in Ops, op[o].pc = "undo"
               PROVE  pv[op[o].asset] = "none"
    BY DEF UndoOnlyUnsaved
  <2>1. op[o].asset \in Assets
    BY DEF Inv, TypeInv, OpType, OpRecords, LinkInv, OpLink
  <2> QED
    BY <2>1 DEF ExclusiveInv, Exclusive, Holds
<1> QED
  BY <1>1, ExclusiveHolds, PTL
===============================================================================
