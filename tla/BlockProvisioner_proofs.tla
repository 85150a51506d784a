----------------------- MODULE BlockProvisioner_proofs -----------------------
(***************************************************************************)
(* Safety of the block plugin for any number of callers, claims, volumes   *)
(* and ticks, and for every combination of faults.                         *)
(***************************************************************************)
EXTENDS BlockRefinement, VolumeSize_proofs

ValidReq(c) == req[c] \in Requests /\ req[c].capacity \in Capacities

\* Which of its fields a call has at each step.
CallOK(c) ==
    /\ pc[c] = "idle" => req[c] = NoReq /\ cvol[c] = NoVol
    /\ pc[c] = "create" => ValidReq(c) /\ cvol[c] = NoVol
    /\ pc[c] \in {"firstPoll", "poll", "cleanup", "region"} =>
          ValidReq(c) /\ cvol[c] \in VolIDs
    /\ pc[c] = "delete" => req[c] = NoReq /\ cvol[c] \in VolIDs
    /\ result[c] = "ok" => /\ pc[c] = "done"
                           /\ cvol[c] \in VolIDs
                           /\ req[c] # NoReq => ValidReq(c)

CallsOK == \A c \in Callers : CallOK(c)

TypeInv == TypeOK /\ CallsOK

-----------------------------------------------------------------------------
\* The initial state is typed and every call is idle.
LEMMA InitType == Init => TypeInv
  BY BlockAssumption DEF Init, TypeInv, TypeOK, CallsOK, CallOK, ValidReq,
     PCs, Results, LifecycleStates

\* CreateVolume with a checked request leaves a typed service: the size is an integer.
LEMMA CreatedType ==
    ASSUME TypeInv, NEW c \in Callers, pc[c] = "create",
           NEW v \in VolIDs, Created(c, v)
    PROVE  /\ volState' \in [VolIDs -> LifecycleStates]
           /\ volSize' \in [VolIDs -> Int]
           /\ volClaim' \in [VolIDs -> Claims \cup {NoReq}]
<1>1. ValidReq(c) /\ req[c].rounding \in RoundingParams /\ req[c].claim \in Claims
  BY BlockAssumption DEF TypeInv, CallsOK, CallOK, ValidReq
<1>2. VolSizeMB(req[c].capacity, req[c].rounding) \in Int
  BY <1>1, VolumeCoversCapacity DEF ValidReq
<1> QED  BY <1>1, <1>2 DEF Created, TypeInv, TypeOK, LifecycleStates

\* Every step of a call, the service or the clock keeps types and call fields.
LEMMA NextType == TypeInv /\ [Next]_vars => TypeInv'
<1> SUFFICES ASSUME TypeInv, [Next]_vars PROVE TypeInv'
  OBVIOUS
<1> USE DEF TypeInv, TypeOK, CallsOK, CallOK, ValidReq, PCs, Results, service,
            calls, Return, Goto
<1>1. ASSUME NEW c \in Callers, NEW r \in Requests, Provision(c, r)
      PROVE  TypeInv'
  BY <1>1, BlockAssumption DEF Provision
<1>2. ASSUME NEW c \in Callers, NEW pv \in pvs, NEW a \in BOOLEAN, Delete(c, pv, a)
      PROVE  TypeInv'
  BY <1>2, BlockAssumption DEF Delete, PVs
<1>3. ASSUME NEW c \in Callers, CreateVolume(c)
      PROVE  TypeInv'
  BY <1>3, CreatedType, BlockAssumption DEF CreateVolume
<1>4. ASSUME NEW c \in Callers, CreateVolumeRefused(c)
      PROVE  TypeInv'
  BY <1>4, BlockAssumption DEF CreateVolumeRefused
<1>5. ASSUME NEW c \in Callers, CreateVolumeAnswerLost(c)
      PROVE  TypeInv'
  BY <1>5, CreatedType, BlockAssumption DEF CreateVolumeAnswerLost
<1>6. ASSUME NEW c \in Callers, PollFails(c)
      PROVE  TypeInv'
  BY <1>6, BlockAssumption DEF PollFails, Polling
<1>7. ASSUME NEW c \in Callers, PollReady(c)
      PROVE  TypeInv'
  BY <1>7, BlockAssumption DEF PollReady, Polling
<1>8. ASSUME NEW c \in Callers, PollBroken(c)
      PROVE  TypeInv'
  BY <1>8, BlockAssumption DEF PollBroken, Polling
<1>9. ASSUME NEW c \in Callers, PollAgain(c)
      PROVE  TypeInv'
  BY <1>9, BlockAssumption DEF PollAgain, Polling
<1>10. ASSUME NEW c \in Callers, Cleanup(c)
       PROVE  TypeInv'
  BY <1>10, BlockAssumption DEF Cleanup, LifecycleStates
<1>11. ASSUME NEW c \in Callers, Region(c)
       PROVE  TypeInv'
  BY <1>11, BlockAssumption DEF Region
<1>12. ASSUME NEW c \in Callers, DeleteVolume(c)
       PROVE  TypeInv'
  BY <1>12, BlockAssumption DEF DeleteVolume, LifecycleStates
<1>13. ASSUME NEW c \in Callers, DeleteVolumeAnswerLost(c)
       PROVE  TypeInv'
  BY <1>13, BlockAssumption DEF DeleteVolumeAnswerLost, LifecycleStates
<1>14. ASSUME NEW c \in Callers, Collect(c)
       PROVE  TypeInv'
  <2>1. Provisioned(c) => PVOf(c) \in PVs
    <3>1. Provisioned(c) => ValidReq(c) /\ req[c].rounding \in RoundingParams
                            /\ cvol[c] \in VolIDs
      BY BlockAssumption DEF Provisioned
    <3>2. ASSUME ValidReq(c), req[c].rounding \in RoundingParams
          PROVE  PVCapacity(req[c].capacity, req[c].rounding) \in Capacities
      BY <3>2, PVCapacityType
    <3> QED  BY <3>1, <3>2 DEF PVOf, PVs
  <2>2. pvs' \subseteq PVs
    BY <1>14, <2>1 DEF Collect
  <2> QED  BY <1>14, <2>2, BlockAssumption DEF Collect
<1>15. ASSUME NEW v \in VolIDs, VolumeProgress(v)
       PROVE  TypeInv'
  BY <1>15, BlockAssumption DEF VolumeProgress, LifecycleStates
<1>16. ASSUME Tick
       PROVE  TypeInv'
  BY <1>16, BlockAssumption DEF Tick, CtxRuns, PollTimerRuns
<1>17. CASE UNCHANGED vars
  BY <1>17 DEF vars
<1> QED
  BY <1>1, <1>2, <1>3, <1>4, <1>5, <1>6, <1>7, <1>8, <1>9, <1>10, <1>11, <1>12,
     <1>13, <1>14, <1>15, <1>16, <1>17 DEF Next, Step

\* Every variable keeps its type, and a call has a request and a volume at the
\* steps that use them: no step dereferences a volume it does not have.
THEOREM TypeCorrect == Spec => []TypeOK
<1>1. TypeInv => TypeOK
  BY DEF TypeInv
<1> QED  BY <1>1, InitType, NextType, PTL DEF Spec

-----------------------------------------------------------------------------
(* The service, as the plugin sees it: a volume never falls back. *)

Made(s) == s # "ABSENT"
Settled(s) == s = "AVAILABLE" \/ s \in Dying

\* Lifecycle and size of a volume: once made, settled or dying it stays so.
LEMMA VolumesMoveForward ==
    ASSUME TypeInv, [Next]_vars, NEW w \in VolIDs
    PROVE  /\ Made(volState[w]) => Made(volState'[w]) /\ volSize'[w] = volSize[w]
           /\ Settled(volState[w]) => Settled(volState'[w])
           /\ volState[w] \in Dying => volState'[w] \in Dying
<1> DEFINE Forward ==
      /\ Made(volState[w]) => Made(volState'[w]) /\ volSize'[w] = volSize[w]
      /\ Settled(volState[w]) => Settled(volState'[w])
      /\ volState[w] \in Dying => volState'[w] \in Dying
<1> USE DEF TypeInv, TypeOK, CallsOK, CallOK, ValidReq, Made, Settled, Dying, service, calls
<1>1. ASSUME NEW c \in Callers, NEW r \in Requests, Provision(c, r)
      PROVE  Forward
  BY <1>1 DEF Provision
<1>2. ASSUME NEW c \in Callers, NEW pv \in pvs, NEW a \in BOOLEAN, Delete(c, pv, a)
      PROVE  Forward
  BY <1>2 DEF Delete
<1>3. ASSUME NEW c \in Callers, CreateVolume(c)
      PROVE  Forward
  BY <1>3 DEF CreateVolume, Created
<1>4. ASSUME NEW c \in Callers, CreateVolumeRefused(c)
      PROVE  Forward
  BY <1>4 DEF CreateVolumeRefused
<1>5. ASSUME NEW c \in Callers, CreateVolumeAnswerLost(c)
      PROVE  Forward
  BY <1>5 DEF CreateVolumeAnswerLost, Created
<1>6. ASSUME NEW c \in Callers, PollFails(c)
      PROVE  Forward
  BY <1>6 DEF PollFails, Polling
<1>7. ASSUME NEW c \in Callers, PollReady(c)
      PROVE  Forward
  BY <1>7 DEF PollReady, Polling
<1>8. ASSUME NEW c \in Callers, PollBroken(c)
      PROVE  Forward
  BY <1>8 DEF PollBroken, Polling
<1>9. ASSUME NEW c \in Callers, PollAgain(c)
      PROVE  Forward
  BY <1>9 DEF PollAgain, Polling
<1>10. ASSUME NEW c \in Callers, Cleanup(c)
       PROVE  Forward
  BY <1>10 DEF Cleanup
<1>11. ASSUME NEW c \in Callers, Region(c)
       PROVE  Forward
  BY <1>11 DEF Region
<1>12. ASSUME NEW c \in Callers, DeleteVolume(c)
       PROVE  Forward
  BY <1>12 DEF DeleteVolume
<1>13. ASSUME NEW c \in Callers, DeleteVolumeAnswerLost(c)
       PROVE  Forward
  BY <1>13 DEF DeleteVolumeAnswerLost
<1>14. ASSUME NEW c \in Callers, Collect(c)
       PROVE  Forward
  BY <1>14 DEF Collect
<1>15. ASSUME NEW v \in VolIDs, VolumeProgress(v)
       PROVE  Forward
  BY <1>15 DEF VolumeProgress, calls
<1>16. ASSUME Tick
       PROVE  Forward
  BY <1>16 DEF Tick, CtxRuns, PollTimerRuns, Bounded
<1>17. CASE UNCHANGED vars
  BY <1>17 DEF vars
<1> QED
  BY <1>1, <1>2, <1>3, <1>4, <1>5, <1>6, <1>7, <1>8, <1>9, <1>10, <1>11,
     <1>12, <1>13, <1>14, <1>15, <1>16, <1>17 DEF Next, Step

-----------------------------------------------------------------------------
(* The two clocks *)

\* The context of a call runs out no later than its poll timer.
ClockInv ==
    \A c \in Callers : /\ pc[c] = "poll" => ctxLeft[c] <= pollLeft[c]
                       /\ result[c] # "timeout"

\* The context of a polling call never outlives its poll timer.
LEMMA NextClock == TypeInv /\ ClockInv /\ [Next]_vars => ClockInv'
<1> SUFFICES ASSUME TypeInv, ClockInv, [Next]_vars PROVE ClockInv'
  OBVIOUS
<1> USE BlockAssumption, TimeoutAssumption
<1> USE DEF TypeInv, TypeOK, ClockInv, Return, Goto
<1>1. ASSUME NEW c \in Callers, NEW r \in Requests, Provision(c, r)
      PROVE  ClockInv'
  BY <1>1 DEF Provision
<1>2. ASSUME NEW c \in Callers, NEW pv \in pvs, NEW a \in BOOLEAN, Delete(c, pv, a)
      PROVE  ClockInv'
  BY <1>2 DEF Delete
<1>3. ASSUME NEW c \in Callers, CreateVolume(c)
      PROVE  ClockInv'
  BY <1>3 DEF CreateVolume, Created
<1>4. ASSUME NEW c \in Callers, CreateVolumeRefused(c)
      PROVE  ClockInv'
  BY <1>4 DEF CreateVolumeRefused
<1>5. ASSUME NEW c \in Callers, CreateVolumeAnswerLost(c)
      PROVE  ClockInv'
  BY <1>5 DEF CreateVolumeAnswerLost, Created
<1>6. ASSUME NEW c \in Callers, PollFails(c)
      PROVE  ClockInv'
  BY <1>6 DEF PollFails, Polling
<1>7. ASSUME NEW c \in Callers, PollReady(c)
      PROVE  ClockInv'
  BY <1>7 DEF PollReady, Polling
<1>8. ASSUME NEW c \in Callers, PollBroken(c)
      PROVE  ClockInv'
  BY <1>8 DEF PollBroken, Polling
<1>9. ASSUME NEW c \in Callers, PollAgain(c)
      PROVE  ClockInv'
  BY <1>9 DEF PollAgain, Polling, LastPoll, GetVolumeAnswers
<1>10. ASSUME NEW c \in Callers, Cleanup(c)
       PROVE  ClockInv'
  BY <1>10 DEF Cleanup
<1>11. ASSUME NEW c \in Callers, Region(c)
       PROVE  ClockInv'
  BY <1>11 DEF Region
<1>12. ASSUME NEW c \in Callers, DeleteVolume(c)
       PROVE  ClockInv'
  BY <1>12 DEF DeleteVolume, DeleteSucceeded
<1>13. ASSUME NEW c \in Callers, DeleteVolumeAnswerLost(c)
       PROVE  ClockInv'
  BY <1>13 DEF DeleteVolumeAnswerLost
<1>14. ASSUME NEW c \in Callers, Collect(c)
       PROVE  ClockInv'
  BY <1>14 DEF Collect
<1>15. ASSUME NEW v \in VolIDs, VolumeProgress(v)
       PROVE  ClockInv'
  BY <1>15 DEF VolumeProgress, calls
<1>16. ASSUME Tick
       PROVE  ClockInv'
  BY <1>16 DEF Tick, CtxRuns, PollTimerRuns, Bounded
<1>17. CASE UNCHANGED vars
  BY <1>17 DEF vars
<1> QED
  BY <1>1, <1>2, <1>3, <1>4, <1>5, <1>6, <1>7, <1>8, <1>9, <1>10, <1>11,
     <1>12, <1>13, <1>14, <1>15, <1>16, <1>17 DEF Next, Step

\* waitForVolumeAvailable never returns wait.ErrWaitTimeout: whenever the poll
\* timer has fired, the context made before it has expired, and GetVolume
\* fails.  This needs the plugin's timeout to be at least the client's.
THEOREM WaitEndsByContext == Spec => []ContextEndsWait
<1>1. Init => ClockInv
  BY DEF Init, ClockInv
<1>2. ClockInv => ContextEndsWait
  BY DEF ClockInv, ContextEndsWait
<1> QED  BY <1>1, <1>2, InitType, NextType, NextClock, PTL DEF Spec

-----------------------------------------------------------------------------
(* Ownership of volumes *)

\* Volumes in hand have been made, so that a new one is none of them.
HeldMade ==
    /\ \A c \in Callers : Owns(c) => Made(volState[cvol[c]])
    /\ \A pv \in pvs : Made(volState[pv.vol])

OwnInv == HeldMade /\ NotShared

\* CreateVolume only hands out OCIDs that no call and no PV has.
LEMMA NextOwn == TypeInv /\ OwnInv /\ [Next]_vars => OwnInv'
<1> SUFFICES ASSUME TypeInv, OwnInv, [Next]_vars PROVE OwnInv'
  OBVIOUS
<1> DEFINE Kept == \A w \in VolIDs : Made(volState[w]) => Made(volState'[w])
<1>0. Kept
  BY VolumesMoveForward
<1> USE <1>0, BlockAssumption
<1> USE DEF TypeInv, TypeOK, CallsOK, CallOK, OwnInv, HeldMade, NotShared, Owns,
            Return, Goto, PVs
<1>1. ASSUME NEW c \in Callers, NEW r \in Requests, Provision(c, r)
      PROVE  OwnInv'
  BY <1>1 DEF Provision
<1>2. ASSUME NEW c \in Callers, NEW pv \in pvs, NEW a \in BOOLEAN, Delete(c, pv, a)
      PROVE  OwnInv'
  BY <1>2 DEF Delete, PVs
<1>3. ASSUME NEW c \in Callers, CreateVolume(c)
      PROVE  OwnInv'
  BY <1>3 DEF CreateVolume, Created, Made
<1>4. ASSUME NEW c \in Callers, CreateVolumeRefused(c)
      PROVE  OwnInv'
  BY <1>4 DEF CreateVolumeRefused
<1>5. ASSUME NEW c \in Callers, CreateVolumeAnswerLost(c)
      PROVE  OwnInv'
  BY <1>5 DEF CreateVolumeAnswerLost, Created
<1>6. ASSUME NEW c \in Callers, PollFails(c)
      PROVE  OwnInv'
  BY <1>6 DEF PollFails, Polling
<1>7. ASSUME NEW c \in Callers, PollReady(c)
      PROVE  OwnInv'
  BY <1>7 DEF PollReady, Polling
<1>8. ASSUME NEW c \in Callers, PollBroken(c)
      PROVE  OwnInv'
  BY <1>8 DEF PollBroken, Polling
<1>9. ASSUME NEW c \in Callers, PollAgain(c)
      PROVE  OwnInv'
  BY <1>9 DEF PollAgain, Polling
<1>10. ASSUME NEW c \in Callers, Cleanup(c)
       PROVE  OwnInv'
  BY <1>10 DEF Cleanup
<1>11. ASSUME NEW c \in Callers, Region(c)
       PROVE  OwnInv'
  BY <1>11 DEF Region
<1>12. ASSUME NEW c \in Callers, DeleteVolume(c)
       PROVE  OwnInv'
  BY <1>12 DEF DeleteVolume
<1>13. ASSUME NEW c \in Callers, DeleteVolumeAnswerLost(c)
       PROVE  OwnInv'
  BY <1>13 DEF DeleteVolumeAnswerLost
<1>14. ASSUME NEW c \in Callers, Collect(c)
       PROVE  OwnInv'
  BY <1>14 DEF Collect, Provisioned, PVOf, service
<1>15. ASSUME NEW v \in VolIDs, VolumeProgress(v)
       PROVE  OwnInv'
  BY <1>15 DEF VolumeProgress, calls
<1>16. ASSUME Tick
       PROVE  OwnInv'
  BY <1>16 DEF Tick, CtxRuns, PollTimerRuns, Bounded
<1>17. CASE UNCHANGED vars
  BY <1>17 DEF vars
<1> QED
  BY <1>1, <1>2, <1>3, <1>4, <1>5, <1>6, <1>7, <1>8, <1>9, <1>10, <1>11,
     <1>12, <1>13, <1>14, <1>15, <1>16, <1>17 DEF Next, Step

\* No volume is ever given to two calls or two PVs, although nothing in a
\* create request ties it to the claim: each success has an OCID of its own.
THEOREM NeverShared == Spec => []NotShared
<1>1. Init => OwnInv
  BY DEF Init, OwnInv, HeldMade, NotShared, Owns
<1>2. OwnInv => NotShared
  BY DEF OwnInv
<1> QED  BY <1>1, <1>2, InitType, NextType, NextOwn, PTL DEF Spec

-----------------------------------------------------------------------------
(* What a PV stands for *)

\* Past the polls the volume has been seen AVAILABLE.
BackedInv ==
    /\ \A pv \in pvs : Settled(volState[pv.vol])
    /\ \A c \in Callers :
         pc[c] = "region" \/ Provisioned(c) => Settled(volState[cvol[c]])

\* Only a poll that saw AVAILABLE leads to a PV, and volumes do not fall back.
LEMMA NextBacked == TypeInv /\ BackedInv /\ [Next]_vars => BackedInv'
<1> SUFFICES ASSUME TypeInv, BackedInv, [Next]_vars PROVE BackedInv'
  OBVIOUS
<1> DEFINE Kept == \A w \in VolIDs : Settled(volState[w]) => Settled(volState'[w])
<1>0. Kept
  BY VolumesMoveForward
<1> USE <1>0, BlockAssumption
<1> USE DEF TypeInv, TypeOK, CallsOK, CallOK, BackedInv, Provisioned, Settled,
            Dying, Return, Goto, PVs
<1>1. ASSUME NEW c \in Callers, NEW r \in Requests, Provision(c, r)
      PROVE  BackedInv'
  BY <1>1 DEF Provision
<1>2. ASSUME NEW c \in Callers, NEW pv \in pvs, NEW a \in BOOLEAN, Delete(c, pv, a)
      PROVE  BackedInv'
  BY <1>2 DEF Delete, PVs
<1>3. ASSUME NEW c \in Callers, CreateVolume(c)
      PROVE  BackedInv'
  BY <1>3 DEF CreateVolume, Created
<1>4. ASSUME NEW c \in Callers, CreateVolumeRefused(c)
      PROVE  BackedInv'
  BY <1>4 DEF CreateVolumeRefused
<1>5. ASSUME NEW c \in Callers, CreateVolumeAnswerLost(c)
      PROVE  BackedInv'
  BY <1>5 DEF CreateVolumeAnswerLost, Created
<1>6. ASSUME NEW c \in Callers, PollFails(c)
      PROVE  BackedInv'
  BY <1>6 DEF PollFails, Polling
<1>7. ASSUME NEW c \in Callers, PollReady(c)
      PROVE  BackedInv'
  BY <1>7 DEF PollReady, Polling, ReadyStates
<1>8. ASSUME NEW c \in Callers, PollBroken(c)
      PROVE  BackedInv'
  BY <1>8 DEF PollBroken, Polling
<1>9. ASSUME NEW c \in Callers, PollAgain(c)
      PROVE  BackedInv'
  BY <1>9 DEF PollAgain, Polling
<1>10. ASSUME NEW c \in Callers, Cleanup(c)
       PROVE  BackedInv'
  BY <1>10 DEF Cleanup
<1>11. ASSUME NEW c \in Callers, Region(c)
       PROVE  BackedInv'
  BY <1>11 DEF Region
<1>12. ASSUME NEW c \in Callers, DeleteVolume(c)
       PROVE  BackedInv'
  BY <1>12 DEF DeleteVolume
<1>13. ASSUME NEW c \in Callers, DeleteVolumeAnswerLost(c)
       PROVE  BackedInv'
  BY <1>13 DEF DeleteVolumeAnswerLost
<1>14. ASSUME NEW c \in Callers, Collect(c)
       PROVE  BackedInv'
  BY <1>14 DEF Collect, PVOf, service
<1>15. ASSUME NEW v \in VolIDs, VolumeProgress(v)
       PROVE  BackedInv'
  BY <1>15 DEF VolumeProgress, calls
<1>16. ASSUME Tick
       PROVE  BackedInv'
  BY <1>16 DEF Tick, CtxRuns, PollTimerRuns, Bounded
<1>17. CASE UNCHANGED vars
  BY <1>17 DEF vars
<1> QED
  BY <1>1, <1>2, <1>3, <1>4, <1>5, <1>6, <1>7, <1>8, <1>9, <1>10, <1>11,
     <1>12, <1>13, <1>14, <1>15, <1>16, <1>17 DEF Next, Step

\* Nobody gets a PV for a volume that is not there yet or is FAULTY, whatever fails.
THEOREM PVsAlwaysBacked == Spec => []PVsBacked
<1>1. Init => BackedInv
  BY DEF Init, BackedInv, Provisioned
<1>2. BackedInv => PVsBacked
  BY DEF BackedInv, PVsBacked, Settled, Dying
<1> QED  BY <1>1, <1>2, InitType, NextType, NextBacked, PTL DEF Spec

\* The volume that a call or a PV holds has the size computed from its request.
SizeOf(r) == VolSizeMB(r.capacity, r.rounding)

SizeInv ==
    /\ \A c \in Callers : Owns(c) => /\ ValidReq(c)
                                     /\ volSize[cvol[c]] = SizeOf(req[c])
                                     /\ SizeOf(req[c]) > 0
    /\ \A pv \in pvs : /\ pv.req.capacity \in Capacities
                       /\ volSize[pv.vol] = SizeOf(pv.req)
                       /\ SizeOf(pv.req) > 0
                       /\ pv.capacity = PVCapacity(pv.req.capacity, pv.req.rounding)

\* A volume keeps the size that was computed for the request of its owner.
LEMMA NextSize == TypeInv /\ OwnInv /\ SizeInv /\ [Next]_vars => SizeInv'
<1> SUFFICES ASSUME TypeInv, OwnInv, SizeInv, [Next]_vars PROVE SizeInv'
  OBVIOUS
<1> DEFINE Kept == \A w \in VolIDs : Made(volState[w]) => volSize'[w] = volSize[w]
<1>0. Kept
  BY VolumesMoveForward
<1> USE <1>0, BlockAssumption
<1> USE DEF TypeInv, TypeOK, CallsOK, CallOK, ValidReq, OwnInv, HeldMade,
            SizeInv, Owns, Return, Goto, PVs
<1>1. ASSUME NEW c \in Callers, NEW r \in Requests, Provision(c, r)
      PROVE  SizeInv'
  BY <1>1 DEF Provision
<1>2. ASSUME NEW c \in Callers, NEW pv \in pvs, NEW a \in BOOLEAN, Delete(c, pv, a)
      PROVE  SizeInv'
  BY <1>2 DEF Delete, PVs
<1>3. ASSUME NEW c \in Callers, CreateVolume(c)
      PROVE  SizeInv'
  BY <1>3 DEF CreateVolume, Created, SizeOf
<1>4. ASSUME NEW c \in Callers, CreateVolumeRefused(c)
      PROVE  SizeInv'
  BY <1>4 DEF CreateVolumeRefused
<1>5. ASSUME NEW c \in Callers, CreateVolumeAnswerLost(c)
      PROVE  SizeInv'
  BY <1>5 DEF CreateVolumeAnswerLost, Created
<1>6. ASSUME NEW c \in Callers, PollFails(c)
      PROVE  SizeInv'
  BY <1>6 DEF PollFails, Polling
<1>7. ASSUME NEW c \in Callers, PollReady(c)
      PROVE  SizeInv'
  BY <1>7 DEF PollReady, Polling
<1>8. ASSUME NEW c \in Callers, PollBroken(c)
      PROVE  SizeInv'
  BY <1>8 DEF PollBroken, Polling
<1>9. ASSUME NEW c \in Callers, PollAgain(c)
      PROVE  SizeInv'
  BY <1>9 DEF PollAgain, Polling
<1>10. ASSUME NEW c \in Callers, Cleanup(c)
       PROVE  SizeInv'
  BY <1>10 DEF Cleanup
<1>11. ASSUME NEW c \in Callers, Region(c)
       PROVE  SizeInv'
  BY <1>11 DEF Region
<1>12. ASSUME NEW c \in Callers, DeleteVolume(c)
       PROVE  SizeInv'
  BY <1>12 DEF DeleteVolume
<1>13. ASSUME NEW c \in Callers, DeleteVolumeAnswerLost(c)
       PROVE  SizeInv'
  BY <1>13 DEF DeleteVolumeAnswerLost
<1>14. ASSUME NEW c \in Callers, Collect(c)
       PROVE  SizeInv'
  BY <1>14 DEF Collect, Provisioned, PVOf, service
<1>15. ASSUME NEW v \in VolIDs, VolumeProgress(v)
       PROVE  SizeInv'
  BY <1>15 DEF VolumeProgress, calls
<1>16. ASSUME Tick
       PROVE  SizeInv'
  BY <1>16 DEF Tick, CtxRuns, PollTimerRuns, Bounded
<1>17. CASE UNCHANGED vars
  BY <1>17 DEF vars
<1> QED
  BY <1>1, <1>2, <1>3, <1>4, <1>5, <1>6, <1>7, <1>8, <1>9, <1>10, <1>11,
     <1>12, <1>13, <1>14, <1>15, <1>16, <1>17 DEF Next, Step

\* The volume behind a PV holds what the PV states and the claim asked for, for
\* every capacity, minimum size and integer width.
THEOREM CapacityAlwaysCovered == Spec => []CapacityCovered
<1>1. Init => OwnInv /\ SizeInv
  BY DEF Init, OwnInv, HeldMade, NotShared, SizeInv, Owns
<1>2. TypeInv /\ SizeInv => CapacityCovered
  <2> SUFFICES ASSUME TypeInv, SizeInv, NEW pv \in pvs
               PROVE  /\ pv.capacity <= volSize[pv.vol] * Unit
                      /\ pv.req.capacity <= pv.capacity
    BY DEF CapacityCovered
  <2>1. pv.req.capacity \in Capacities /\ pv.req.rounding \in RoundingParams
    BY BlockAssumption DEF SizeInv, TypeInv, TypeOK, PVs
  <2> QED  BY <2>1, VolumeCoversCapacity DEF SizeInv, SizeOf
<1> QED  BY <1>1, <1>2, InitType, NextType, NextOwn, NextSize, PTL DEF Spec

-----------------------------------------------------------------------------
(* What failed calls and deletes leave behind *)

LeftInv == AbandonedOnlyIf /\ DeleteOkMeansGone

\* The outcome of Cleanup, Region and DeleteVolume outlasts later steps.
LEMMA NextLeft == TypeInv /\ LeftInv /\ [Next]_vars => LeftInv'
<1> SUFFICES ASSUME TypeInv, LeftInv, [Next]_vars PROVE LeftInv'
  OBVIOUS
<1> DEFINE Kept == \A w \in VolIDs : volState[w] \in Dying => volState'[w] \in Dying
<1>0. Kept
  BY VolumesMoveForward
<1> USE <1>0, BlockAssumption
<1> USE DEF TypeInv, TypeOK, CallsOK, CallOK, ValidReq, LeftInv, AbandonedOnlyIf,
            DeleteOkMeansGone, Abandoned, Deleted, Owns, Return, Goto, PVs
<1>1. ASSUME NEW c \in Callers, NEW r \in Requests, Provision(c, r)
      PROVE  LeftInv'
  BY <1>1 DEF Provision
<1>2. ASSUME NEW c \in Callers, NEW pv \in pvs, NEW a \in BOOLEAN, Delete(c, pv, a)
      PROVE  LeftInv'
  BY <1>2 DEF Delete, PVs
<1>3. ASSUME NEW c \in Callers, CreateVolume(c)
      PROVE  LeftInv'
  BY <1>3 DEF CreateVolume, Created
<1>4. ASSUME NEW c \in Callers, CreateVolumeRefused(c)
      PROVE  LeftInv'
  BY <1>4 DEF CreateVolumeRefused
<1>5. ASSUME NEW c \in Callers, CreateVolumeAnswerLost(c)
      PROVE  LeftInv'
  BY <1>5 DEF CreateVolumeAnswerLost, Created
<1>6. ASSUME NEW c \in Callers, PollFails(c)
      PROVE  LeftInv'
  BY <1>6 DEF PollFails, Polling
<1>7. ASSUME NEW c \in Callers, PollReady(c)
      PROVE  LeftInv'
  BY <1>7 DEF PollReady, Polling
<1>8. ASSUME NEW c \in Callers, PollBroken(c)
      PROVE  LeftInv'
  BY <1>8 DEF PollBroken, Polling
<1>9. ASSUME NEW c \in Callers, PollAgain(c)
      PROVE  LeftInv'
  BY <1>9 DEF PollAgain, Polling
<1>10. ASSUME NEW c \in Callers, Cleanup(c)
       PROVE  LeftInv'
  BY <1>10 DEF Cleanup, Dying
<1>11. ASSUME NEW c \in Callers, Region(c)
       PROVE  LeftInv'
  BY <1>11 DEF Region
<1>12. ASSUME NEW c \in Callers, DeleteVolume(c)
       PROVE  LeftInv'
  BY <1>12 DEF DeleteVolume, DeleteAnswers, DeleteSucceeded, Dying
<1>13. ASSUME NEW c \in Callers, DeleteVolumeAnswerLost(c)
       PROVE  LeftInv'
  BY <1>13 DEF DeleteVolumeAnswerLost
<1>14. ASSUME NEW c \in Callers, Collect(c)
       PROVE  LeftInv'
  BY <1>14 DEF Collect, service
<1>15. ASSUME NEW v \in VolIDs, VolumeProgress(v)
       PROVE  LeftInv'
  BY <1>15 DEF VolumeProgress, calls
<1>16. ASSUME Tick
       PROVE  LeftInv'
  BY <1>16 DEF Tick, CtxRuns, PollTimerRuns, Bounded
<1>17. CASE UNCHANGED vars
  BY <1>17 DEF vars
<1> QED
  BY <1>1, <1>2, <1>3, <1>4, <1>5, <1>6, <1>7, <1>8, <1>9, <1>10, <1>11,
     <1>12, <1>13, <1>14, <1>15, <1>16, <1>17 DEF Next, Step

\* A failed Provision whose volume was made leaves it alive only after the
\* deadline, after a failed delete request, or for want of a region.
THEOREM AbandonedOnlyThen == Spec => []AbandonedOnlyIf
<1>1. Init => LeftInv
  BY DEF Init, LeftInv, AbandonedOnlyIf, DeleteOkMeansGone, Abandoned, Deleted
<1>2. LeftInv => AbandonedOnlyIf
  BY DEF LeftInv
<1> QED  BY <1>1, <1>2, InitType, NextType, NextLeft, PTL DEF Spec

\* When Delete returns nil the volume is gone for good, unless credentials are
\* rejected with a 404, also when two deletes of one PV race.
THEOREM DeleteIsDurable == Spec => []DeleteOkMeansGone
<1>1. Init => LeftInv
  BY DEF Init, LeftInv, AbandonedOnlyIf, DeleteOkMeansGone, Abandoned, Deleted
<1>2. LeftInv => DeleteOkMeansGone
  BY DEF LeftInv
<1> QED  BY <1>1, <1>2, InitType, NextType, NextLeft, PTL DEF Spec
-----------------------------------------------------------------------------
(* Who takes a volume down *)

\* What one step may do to the volumes of PVs.
Spares ==
    \A pv \in pvs :
        volState[pv.vol] \notin Dying /\ volState'[pv.vol] \in Dying =>
            \/ \E c \in Callers : pc[c] = "delete" /\ cvol[c] = pv.vol
            \/ "user" \in ApiFaults /\ UNCHANGED pc

\* Cleanup, the only step of Provision that deletes, has a volume of its own.
LEMMA NextSpares == TypeInv /\ OwnInv /\ [Next]_vars => Spares
<1> SUFFICES ASSUME TypeInv, OwnInv, [Next]_vars PROVE Spares
  OBVIOUS
<1> USE BlockAssumption
<1> USE DEF Spares, TypeInv, TypeOK, CallsOK, CallOK, ValidReq, OwnInv, NotShared,
            Owns, PVs, Dying, service, calls
<1>1. ASSUME NEW c \in Callers, NEW v \in VolIDs, Created(c, v)
      PROVE  Spares
  BY <1>1 DEF Created
<1>2. ASSUME NEW c \in Callers, Cleanup(c)
      PROVE  Spares
  BY <1>2 DEF Cleanup
<1>3. ASSUME NEW c \in Callers, DeleteVolume(c)
      PROVE  Spares
  BY <1>3 DEF DeleteVolume
<1>4. ASSUME NEW c \in Callers, DeleteVolumeAnswerLost(c)
      PROVE  Spares
  BY <1>4 DEF DeleteVolumeAnswerLost
<1>5. ASSUME NEW v \in VolIDs, VolumeProgress(v)
      PROVE  Spares
  BY <1>5 DEF VolumeProgress
<1>6. ASSUME UNCHANGED volState
      PROVE  Spares
  BY <1>6
<1> QED
  BY <1>1, <1>2, <1>3, <1>4, <1>5, <1>6
  DEF Next, Step, Provision, Delete, CreateVolume, CreateVolumeRefused,
      CreateVolumeAnswerLost, PollFails, PollReady, PollBroken, PollAgain, Region,
      Collect, Tick, vars

\* No Provision that fails, late or early, takes the volume of a PV with it: only a
\* Delete of that PV does, or somebody outside.
THEOREM PVVolumesAlwaysSpared == Spec => PVVolumesSpared
<1>1. Init => OwnInv
  BY DEF Init, OwnInv, HeldMade, NotShared, Owns
<1>2. TypeInv /\ OwnInv /\ [Next]_vars => [Spares]_vars
  BY NextSpares
<1> QED  BY <1>1, <1>2, InitType, NextType, NextOwn, PTL DEF Spec, PVVolumesSpared, Spares

-----------------------------------------------------------------------------
(* The plugin interface *)

\* The status of a call, without the order of the cases.
LEMMA StatusIs ==
    ASSUME NEW step \in PCs, NEW r, NEW res
    PROVE  /\ step = "idle" => StatusOf(step, r, res) = "idle"
           /\ step = "done" /\ res # "ok" => StatusOf(step, r, res) = "failed"
           /\ step = "done" /\ res = "ok" =>
                StatusOf(step, r, res) = IF r # NoReq THEN "pv" ELSE "deleted"
           /\ step \notin {"idle", "done"} =>
                StatusOf(step, r, res) = IF r # NoReq THEN "provisioning" ELSE "deleting"
  BY DEF StatusOf, PCs

\* The life of an asset, likewise.
LEMMA LifeIs ==
    ASSUME NEW s \in LifecycleStates
    PROVE  /\ s = "ABSENT" <=> LifeOf(s) = "none"
           /\ s = "AVAILABLE" <=> LifeOf(s) = "ready"
           /\ s \in Dying <=> LifeOf(s) = "gone"
           /\ s \in {"PROVISIONING", "FAULTY"} <=> LifeOf(s) = "making"
  BY DEF LifeOf, LifecycleStates, Dying

\* A step of the plugin on volume w is a step of the contract on asset w.
LEMMA LifeMoves ==
    ASSUME TypeInv, NEW w \in VolIDs, NEW s \in LifecycleStates,
           volState' = [volState EXCEPT ![w] = s]
    PROVE  assetLife' = [assetLife EXCEPT ![w] = LifeOf(s)]
  BY DEF TypeInv, TypeOK, assetLife

\* The call of the contract that call c is, after a step.
After(c) == CallOf(pc'[c], req'[c], result'[c], cvol'[c])

\* A step of call c leaves the other calls of the contract alone.
LEMMA CallMoves ==
    ASSUME TypeInv, NEW c \in Callers,
           \A d \in Callers \ {c} : /\ pc'[d] = pc[d] /\ req'[d] = req[d]
                                    /\ cvol'[d] = cvol[d] /\ result'[d] = result[d]
    PROVE  contractCall' = [contractCall EXCEPT ![c] = After(c)]
  BY DEF contractCall, After

\* A call that goes on or ends keeps its claim and its asset.
LEMMA CallEnds ==
    ASSUME TypeInv, NEW c \in Callers, NEW step \in PCs, NEW res,
           pc' = [pc EXCEPT ![c] = step], result' = [result EXCEPT ![c] = res],
           UNCHANGED <<req, cvol>>
    PROVE  /\ contractCall' =
                [contractCall EXCEPT ![c].status = StatusOf(step, req[c], res)]
           /\ step = "done" /\ res # "ok" =>
                contractCall' = [contractCall EXCEPT ![c].status = "failed"]
<1>1. contractCall' = [contractCall EXCEPT ![c].status = StatusOf(step, req[c], res)]
  BY CallMoves DEF After, contractCall, CallOf, TypeInv, TypeOK
<1>2. step = "done" /\ res # "ok" => StatusOf(step, req[c], res) = "failed"
  BY StatusIs
<1> QED  BY <1>1, <1>2

\* Each step of the plugin is one of the contract, or changes nothing it speaks of.
LEMMA NextKeeps ==
    ASSUME "auth" \notin ApiFaults
    PROVE  TypeInv /\ OwnInv /\ BackedInv /\ [Next]_vars
             => [Contract!Next]_(Contract!vars)
<1> SUFFICES ASSUME TypeInv, OwnInv, BackedInv, [Next]_vars
             PROVE  Contract!Next \/ UNCHANGED <<assetLife, volClaim, contractCall>>
  BY DEF Contract!vars
<1> USE BlockAssumption
<1> DEFINE Quiet == UNCHANGED <<assetLife, volClaim, contractCall>>
           Status(c) == contractCall[c].status
<1>0. ASSUME UNCHANGED volState PROVE assetLife' = assetLife
  BY <1>0 DEF assetLife
\* What the contract sees of a call before the step.
<1>a. ASSUME NEW c \in Callers
      PROVE  /\ contractCall[c].claim = IF req[c] # NoReq THEN req[c].claim ELSE NoReq
             /\ contractCall[c].asset = IF cvol[c] # NoVol THEN cvol[c] ELSE NoReq
             /\ pc[c] = "idle" => Status(c) = "idle"
             /\ pc[c] = "done" /\ result[c] # "ok" => Status(c) = "failed"
             /\ pc[c] = "done" /\ result[c] = "ok" =>
                  Status(c) = IF req[c] # NoReq THEN "pv" ELSE "deleted"
             /\ pc[c] \notin {"idle", "done"} =>
                  Status(c) = IF req[c] # NoReq THEN "provisioning" ELSE "deleting"
  BY StatusIs DEF contractCall, CallOf, TypeInv, TypeOK
<1>1. ASSUME NEW c \in Callers, NEW r \in Requests, Provision(c, r)
      PROVE  Contract!Provision(c, r.claim)
  <2>1. contractCall' = [contractCall EXCEPT ![c] = After(c)]
    BY <1>1, CallMoves DEF Provision, TypeInv, TypeOK, Return, Goto
  <2>2. Status(c) = "idle"
    BY <1>1, <1>a DEF Provision
  <2>3. PICK s \in {"provisioning", "failed"} :
          After(c) = [status |-> s, claim |-> r.claim, asset |-> NoReq]
    BY <1>1, StatusIs DEF After, Provision, CallOf, PCs, TypeInv, TypeOK, CallsOK, CallOK,
                Return, Goto
  <2>4. UNCHANGED <<assetLife, volClaim>>
    BY <1>0, <1>1 DEF Provision, service
  <2> QED  BY <2>1, <2>2, <2>3, <2>4 DEF Contract!Provision, Contract!Idle
<1>2. ASSUME NEW c \in Callers, NEW pv \in pvs, NEW a \in BOOLEAN, Delete(c, pv, a)
      PROVE  Contract!Delete(c, pv.vol)
  <2>1. contractCall' = [contractCall EXCEPT ![c] = After(c)]
    BY <1>2, CallMoves DEF Delete, TypeInv, TypeOK, Return, Goto
  <2>2. Status(c) = "idle"
    BY <1>2, <1>a DEF Delete
  <2>3. \/ After(c) = [status |-> "deleting", claim |-> NoReq, asset |-> pv.vol]
        \/ After(c) = [status |-> "failed", claim |-> NoReq, asset |-> NoReq]
    BY <1>2, StatusIs DEF After, Delete, CallOf, PCs, TypeInv, TypeOK, CallsOK, CallOK,
                Return, Goto, PVs
  <2>4. UNCHANGED <<assetLife, volClaim>>
    BY <1>0, <1>2 DEF Delete, service
  <2> QED  BY <2>1, <2>2, <2>3, <2>4 DEF Contract!Delete, Contract!Idle
\* A volume that is made: the service hands out an OCID that was not used before.
<1>b. ASSUME NEW c \in Callers, NEW v \in VolIDs, pc[c] = "create", Created(c, v)
      PROVE  Contract!Made(c, v)
  <2>1. Status(c) = "provisioning" /\ contractCall[c].asset = NoReq
        /\ contractCall[c].claim = req[c].claim
    BY <1>a, <1>b DEF TypeInv, CallsOK, CallOK, ValidReq
  <2>2. assetLife[v] = "none" /\ LifeOf("PROVISIONING") = "making"
    BY <1>b, LifeIs DEF Created, assetLife, LifecycleStates
  <2>3. assetLife' = [assetLife EXCEPT ![v] = "making"]
    BY <1>b, <2>2, LifeMoves DEF Created, LifecycleStates
  <2> QED  BY <1>b, <2>1, <2>2, <2>3 DEF Created, Contract!Made, Contract!Provisioning
<1>3. ASSUME NEW c \in Callers, CreateVolume(c)
      PROVE  \E v \in VolIDs : Contract!Make(c, v)
  <2>1. PICK v \in VolIDs : Created(c, v) /\ cvol' = [cvol EXCEPT ![c] = v]
    BY <1>3 DEF CreateVolume
  <2>2. contractCall' = [contractCall EXCEPT ![c] = After(c)]
    BY <1>3, <2>1, CallMoves DEF CreateVolume, TypeInv, TypeOK, Goto
  <2>3. After(c) = [contractCall[c] EXCEPT !.asset = v]
    BY <1>3, <2>1, StatusIs DEF After, CreateVolume, CallOf, PCs, TypeInv, TypeOK, CallsOK,
                CallOK, Goto, contractCall
  <2> QED  BY <1>3, <1>b, <2>1, <2>2, <2>3 DEF CreateVolume, Contract!Make, Contract!Has
<1>4. ASSUME NEW c \in Callers, CreateVolumeRefused(c)
      PROVE  Contract!Fail(c)
  <2>1. contractCall' = [contractCall EXCEPT ![c].status = "failed"]
    BY <1>4, CallEnds DEF CreateVolumeRefused, Return, PCs
  <2>2. Status(c) \in {"provisioning", "deleting"}
    BY <1>4, <1>a DEF CreateVolumeRefused
  <2> QED  BY <1>0, <1>4, <2>1, <2>2
           DEF CreateVolumeRefused, service, Contract!Fail, Contract!Ends
<1>5. ASSUME NEW c \in Callers, CreateVolumeAnswerLost(c)
      PROVE  \E v \in VolIDs : Contract!MakeUnknown(c, v)
  <2>1. contractCall' = [contractCall EXCEPT ![c].status = "failed"]
    BY <1>5, CallEnds DEF CreateVolumeAnswerLost, Return, PCs
  <2> QED  BY <1>b, <1>5, <2>1
           DEF CreateVolumeAnswerLost, Contract!MakeUnknown, Contract!Ends
\* The polls are hidden by the contract.
<1>c. ASSUME NEW c \in Callers, NEW step \in PCs \ {"idle", "done"}, NEW res,
             pc[c] \notin {"idle", "done"}, pc' = [pc EXCEPT ![c] = step],
             result' = [result EXCEPT ![c] = res],
             UNCHANGED <<volState, volClaim, req, cvol>>
      PROVE  Quiet
  <2>1. contractCall' = [contractCall EXCEPT ![c].status = StatusOf(step, req[c], res)]
    BY <1>c, CallEnds
  <2>2. StatusOf(step, req[c], res) = Status(c)
    BY <1>c, <1>a, StatusIs
  <2>3. [contractCall EXCEPT ![c].status = Status(c)] = contractCall
    BY DEF contractCall, CallOf
  <2>4. contractCall' = contractCall
    BY <2>1, <2>2, <2>3
  <2> QED  BY <1>0, <1>c, <2>4
<1>6. ASSUME NEW c \in Callers, PollFails(c)
      PROVE  Quiet
  BY <1>6, <1>c DEF PollFails, Polling, PCs, service
<1>7. ASSUME NEW c \in Callers, PollReady(c)
      PROVE  Quiet
  <2>1. result' = [result EXCEPT ![c] = result[c]]
    BY <1>7 DEF PollReady, Goto, TypeInv, TypeOK
  <2> QED  BY <1>7, <1>c, <2>1 DEF PollReady, Polling, PCs, service, Goto
<1>8. ASSUME NEW c \in Callers, PollBroken(c)
      PROVE  Quiet
  BY <1>8, <1>c DEF PollBroken, Polling, PCs, service
<1>9. ASSUME NEW c \in Callers, PollAgain(c)
      PROVE  Quiet
  <2>1. CASE LastPoll(c)
    BY <1>9, <1>c, <2>1 DEF PollAgain, Polling, PCs, service
  <2>2. CASE ~LastPoll(c)
    <3>1. result' = [result EXCEPT ![c] = result[c]]
      BY <1>9, <2>2 DEF PollAgain, Goto, TypeInv, TypeOK
    <3> QED  BY <1>9, <1>c, <2>2, <3>1 DEF PollAgain, Polling, PCs, service, Goto
  <2> QED  BY <2>1, <2>2
<1>10. ASSUME NEW c \in Callers, Cleanup(c)
       PROVE  Contract!FailAndRemove(c) \/ Contract!Fail(c)
  <2>1. contractCall' = [contractCall EXCEPT ![c].status = "failed"]
    BY <1>10, CallEnds DEF Cleanup, Return, PCs, TypeInv, CallsOK, CallOK
  <2>2. Status(c) = "provisioning" /\ contractCall[c].asset = cvol[c]
        /\ cvol[c] \in VolIDs
    BY <1>10, <1>a DEF Cleanup, TypeInv, CallsOK, CallOK, ValidReq
  <2>3. CASE UNCHANGED volState
    BY <1>0, <1>10, <2>1, <2>2, <2>3 DEF Cleanup, Contract!Fail, Contract!Ends
  <2>4. CASE /\ volState[cvol[c]] \notin Dying
             /\ volState' = [volState EXCEPT ![cvol[c]] = "TERMINATING"]
    <3>1. assetLife' = [assetLife EXCEPT ![cvol[c]] = "gone"]
      BY <2>2, <2>4, LifeMoves, LifeIs DEF LifecycleStates, Dying
    <3>2. assetLife[cvol[c]] # "gone"
      BY <2>2, <2>4, LifeIs DEF assetLife, TypeInv, TypeOK
    <3> QED  BY <1>10, <2>1, <2>2, <3>1, <3>2
             DEF Cleanup, Contract!FailAndRemove, Contract!Provisioning, Contract!Ends
  <2> QED  BY <1>10, <2>3, <2>4 DEF Cleanup
<1>11. ASSUME NEW c \in Callers, Region(c)
       PROVE  Contract!ReturnPV(c) \/ Contract!Fail(c)
  <2>1. /\ Status(c) = "provisioning" /\ contractCall[c].asset = cvol[c]
        /\ cvol[c] \in VolIDs /\ req[c] # NoReq
    BY <1>11, <1>a DEF Region, TypeInv, CallsOK, CallOK, ValidReq
  <2>2. UNCHANGED <<assetLife, volClaim, req, cvol>>
    BY <1>0, <1>11 DEF Region, service
  <2>3. CASE Return(c, "ok")
    <3>1. contractCall' = [contractCall EXCEPT ![c].status = StatusOf("done", req[c], "ok")]
      BY <2>2, <2>3, CallEnds DEF Return, PCs
    <3>2. StatusOf("done", req[c], "ok") = "pv"
      BY <2>1, StatusIs DEF PCs
    <3>3. assetLife[cvol[c]] \in {"ready", "gone"}
      BY <1>11, <2>1, LifeIs DEF Region, BackedInv, Settled, assetLife, TypeInv, TypeOK
    <3> QED  BY <2>1, <2>2, <3>1, <3>2, <3>3
             DEF Contract!ReturnPV, Contract!Provisioning, Contract!Ends
  <2>4. CASE Return(c, "metadata")
    <3>1. contractCall' =
            [contractCall EXCEPT ![c].status = StatusOf("done", req[c], "metadata")]
      BY <2>2, <2>4, CallEnds DEF Return, PCs
    <3>2. StatusOf("done", req[c], "metadata") = "failed"
      BY StatusIs DEF PCs
    <3> QED  BY <2>1, <2>2, <3>1, <3>2 DEF Contract!Fail, Contract!Ends
  <2> QED  BY <1>11, <2>3, <2>4 DEF Region
\* A delete request that had its effect, now or before.
<1>d. ASSUME NEW c \in Callers, pc[c] = "delete", NEW res,
             Return(c, res), UNCHANGED <<req, cvol, volClaim>>,
             \/ volState' = [volState EXCEPT ![cvol[c]] = "TERMINATING"]
             \/ volState[cvol[c]] \in Dying /\ UNCHANGED volState
      PROVE  Contract!Remove(c)
  <2>1. /\ Status(c) = "deleting" /\ contractCall[c].asset = cvol[c]
        /\ cvol[c] \in VolIDs /\ req[c] = NoReq
    BY <1>d, <1>a DEF TypeInv, CallsOK, CallOK
  <2>2. assetLife' = [assetLife EXCEPT ![cvol[c]] = "gone"]
    <3>1. CASE volState' = [volState EXCEPT ![cvol[c]] = "TERMINATING"]
      BY <2>1, <3>1, LifeMoves, LifeIs DEF LifecycleStates, Dying
    <3>2. CASE volState[cvol[c]] \in Dying /\ UNCHANGED volState
      <4>1. assetLife[cvol[c]] = "gone"
        BY <2>1, <3>2, LifeIs DEF assetLife, TypeInv, TypeOK
      <4>2. [assetLife EXCEPT ![cvol[c]] = assetLife[cvol[c]]] = assetLife
        BY DEF assetLife
      <4> QED  BY <1>0, <3>2, <4>1, <4>2
    <3> QED  BY <1>d, <3>1, <3>2
  <2>3. contractCall' = [contractCall EXCEPT ![c].status = StatusOf("done", req[c], res)]
    BY <1>d, CallEnds DEF Return, PCs
  <2>4. StatusOf("done", req[c], res) \in {"deleted", "failed"}
    BY <2>1, StatusIs DEF PCs
  <2> QED  BY <1>d, <2>1, <2>2, <2>3, <2>4 DEF Contract!Remove, Contract!Ends
\* A delete request without effect, of which the caller is told.
<1>e. ASSUME NEW c \in Callers, pc[c] = "delete", Return(c, "delete"),
             UNCHANGED <<req, cvol, volClaim, volState>>
      PROVE  Contract!Fail(c)
  <2>1. Status(c) = "deleting"
    BY <1>e, <1>a DEF TypeInv, CallsOK, CallOK
  <2>2. contractCall' = [contractCall EXCEPT ![c].status = "failed"]
    BY <1>e, CallEnds DEF Return, PCs
  <2> QED  BY <1>0, <1>e, <2>1, <2>2 DEF Contract!Fail, Contract!Ends
<1>12. ASSUME NEW c \in Callers, DeleteVolume(c)
       PROVE  Contract!Remove(c) \/ Contract!Fail(c)
  BY <1>12, <1>d, <1>e DEF DeleteVolume, DeleteAnswers, DeleteSucceeded
<1>13. ASSUME NEW c \in Callers, DeleteVolumeAnswerLost(c)
       PROVE  Contract!Remove(c) \/ Contract!Fail(c)
  BY <1>13, <1>d, <1>e DEF DeleteVolumeAnswerLost
<1>14. ASSUME NEW c \in Callers, Collect(c)
       PROVE  Contract!Collect(c)
  <2>1. Status(c) \in {"pv", "deleted", "failed"}
    BY <1>14, <1>a DEF Collect
  <2>2. contractCall' = [contractCall EXCEPT ![c] = After(c)]
    BY <1>14, CallMoves DEF Collect, TypeInv, TypeOK
  <2>3. After(c) = [status |-> "idle", claim |-> NoReq, asset |-> NoReq]
    BY <1>14, StatusIs DEF After, Collect, CallOf, PCs, TypeInv, TypeOK
  <2> QED  BY <1>0, <1>14, <2>1, <2>2, <2>3 DEF Collect, service, Contract!Collect, Contract!Idle
<1>15. ASSUME NEW v \in VolIDs, VolumeProgress(v)
       PROVE  Contract!Progress(v) \/ Quiet
  <2>1. UNCHANGED <<volClaim, contractCall>>
    BY <1>15 DEF VolumeProgress, calls, contractCall
  <2>2. ASSUME NEW s \in LifecycleStates, volState' = [volState EXCEPT ![v] = s]
        PROVE  assetLife' = [assetLife EXCEPT ![v] = LifeOf(s)]
    BY <2>2, LifeMoves
  <2>3. assetLife[v] = LifeOf(volState[v]) /\ [assetLife EXCEPT ![v] = assetLife[v]] = assetLife
    BY DEF assetLife
  <2>4. CASE volState[v] = "PROVISIONING" /\ volState' = [volState EXCEPT ![v] = "AVAILABLE"]
    BY <2>1, <2>2, <2>3, <2>4, LifeIs DEF Contract!Progress, LifecycleStates
  <2>5. CASE volState[v] = "PROVISIONING" /\ volState' = [volState EXCEPT ![v] = "FAULTY"]
    BY <2>1, <2>2, <2>3, <2>5, LifeIs DEF LifecycleStates
  <2>6. CASE volState[v] = "TERMINATING" /\ volState' = [volState EXCEPT ![v] = "TERMINATED"]
    BY <2>1, <2>2, <2>3, <2>6, LifeIs DEF LifecycleStates, Dying
  <2>7. CASE /\ volState[v] = "AVAILABLE" /\ "user" \in ApiFaults
             /\ volState' = [volState EXCEPT ![v] = "TERMINATING"]
    BY <2>1, <2>2, <2>3, <2>7, LifeIs DEF Contract!Progress, LifecycleStates, Dying
  <2> QED  BY <1>15, <2>4, <2>5, <2>6, <2>7 DEF VolumeProgress
<1>16. ASSUME Tick
       PROVE  Quiet
  BY <1>0, <1>16 DEF Tick, service, contractCall
<1>17. CASE UNCHANGED vars
  BY <1>0, <1>17 DEF vars, contractCall
<1>18. ASSUME NEW c \in Callers, Step(c)
       PROVE  Contract!Work(c) \/ Quiet
  BY <1>3, <1>4, <1>5, <1>6, <1>7, <1>8, <1>9, <1>10, <1>11, <1>12, <1>13, <1>18
     DEF Step, Contract!Work
<1>19. ASSUME NEW r \in Requests PROVE r.claim \in Claims
  OBVIOUS
<1>20. ASSUME NEW pv \in pvs PROVE pv.vol \in VolIDs
  BY DEF TypeInv, TypeOK, PVs
<1> QED
  BY <1>1, <1>2, <1>14, <1>15, <1>16, <1>17, <1>18, <1>19, <1>20 DEF Next, Contract!Next

\* The block plugin implements the plugin interface with an asset of its own for
\* every PV, for any number of callers and volumes, whatever is lost or late, unless
\* the service answers 404 to rejected credentials (block.go:270).
THEOREM BlockImplementsContract ==
    ASSUME "auth" \notin ApiFaults
    PROVE  Spec => KeepsContract
<1>1. Init => OwnInv /\ BackedInv
  BY DEF Init, OwnInv, HeldMade, NotShared, Owns, BackedInv, Provisioned
<1>2. Init => Contract!Init
  BY StatusIs, LifeIs DEF Init, Contract!Init, Contract!Idle, contractCall, assetLife,
     CallOf, PCs, LifecycleStates
<1> QED
  BY <1>1, <1>2, InitType, NextType, NextOwn, NextBacked, NextKeeps, PTL
     DEF Spec, KeepsContract, Contract!Spec
=============================================================================
