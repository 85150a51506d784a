------------------------ MODULE FssProvisioner_proofs ------------------------
(***************************************************************************)
(* Safety of the file storage plugin for any number of callers, claims,    *)
(* file systems, exports and faults.                                       *)
(***************************************************************************)
EXTENDS FssRefinement, FiniteSetTheorems, TLAPS

Looking  == {"awaitMountTarget", "privateIP", "listFileSystems", "createFileSystem"}
Building == {"awaitFileSystem", "findExport", "createExport", "awaitExport"}
Removing == {"deleteExport", "deleteFileSystem"}

\* Which of its fields a call has at each step.
CallOK(c) ==
    /\ pc[c] = "idle" => req[c] = None /\ cfs[c] = None /\ cexp[c] = None
    /\ pc[c] \in Looking =>
          /\ req[c] \in Requests /\ MountTarget(c) \in MountTargets
          /\ cfs[c] = None /\ cexp[c] = None
    /\ pc[c] \in Building =>
          /\ req[c] \in Requests /\ MountTarget(c) \in MountTargets
          /\ cfs[c] \in FsIDs
          /\ IF pc[c] = "awaitExport" THEN cexp[c] \in ExpIDs ELSE cexp[c] = None
    /\ pc[c] \in Removing => /\ req[c] = None
                             /\ cfs[c] \in FsIDs /\ cexp[c] \in ExpIDs
    /\ result[c] = "ok" => /\ pc[c] = "done"
                           /\ cfs[c] \in FsIDs /\ cexp[c] \in ExpIDs

CallsOK == \A c \in Callers : CallOK(c)

TypeInv == TypeOK /\ CallsOK

\* The initial state is typed and every call is idle.
LEMMA InitType == Init => TypeInv
  BY FssAssumption DEF Init, TypeInv, TypeOK, CallsOK, CallOK, PCs, States,
     Looking, Building, Removing

\* Every step of a call, its callers or the service keeps types and call fields.
LEMMA NextType == TypeInv /\ [Next]_vars => TypeInv'
<1> SUFFICES ASSUME TypeInv, [Next]_vars PROVE TypeInv'
  OBVIOUS
<1> USE FssAssumption
<1> USE DEF TypeInv, TypeOK, CallsOK, CallOK, PCs, States, Looking, Building,
            Removing, MountTarget, getMountTargetID, service, locals, env,
            Goto, Return, End, Fail, Fault
<1>1. ASSUME NEW c \in Callers, NEW r \in Requests,
             MayProvision(r.claim), Provision(c, r)
      PROVE  TypeInv'
  <2>1. r.annotation \in MountTargets \cup {None} /\ r.parameter \in MountTargets \cup {None}
    OBVIOUS
  <2>2. TypeOK'
    BY <1>1 DEF Provision
  <2>3. CallsOK'
    BY <1>1, <2>1 DEF Provision
  <2> QED  BY <2>2, <2>3
<1>2. ASSUME NEW c \in Callers, NEW pv \in pvs, NEW a \in BOOLEAN,
             MayDelete(pv), Delete(c, pv, a)
      PROVE  TypeInv'
  BY <1>2 DEF Delete, PVs
<1>3. ASSUME NEW c \in Callers, awaitMountTarget(c)
      PROVE  TypeInv'
  BY <1>3 DEF awaitMountTarget, Poll
<1>4. ASSUME NEW c \in Callers, GetPrivateIp(c)
      PROVE  TypeInv'
  BY <1>4 DEF GetPrivateIp
<1>5. ASSUME NEW c \in Callers, getFileSystemByDisplayName(c)
      PROVE  TypeInv'
  BY <1>5 DEF getFileSystemByDisplayName, Listed
<1>6. ASSUME NEW c \in Callers, CreateFileSystem(c)
      PROVE  TypeInv'
  BY <1>6 DEF CreateFileSystem, FileSystemMade
<1>7. ASSUME NEW c \in Callers, CreateFileSystemFails(c)
      PROVE  TypeInv'
  <2>1. req[c].claim \in Claims /\ req[c].ad \in ADs
    BY <1>7 DEF CreateFileSystemFails
  <2>2. fsState' \in [FsIDs -> States \ {"FAILED"}] /\ fsName' \in [FsIDs -> Claims \cup {None}]
        /\ fsAD' \in [FsIDs -> ADs \cup {None}]
    BY <1>7, <2>1 DEF CreateFileSystemFails, FileSystemMade
  <2>3. UNCHANGED <<mtState, expState, expFs, expSet, req, cfs, cexp, pvs, released>>
    BY <1>7 DEF CreateFileSystemFails, FileSystemMade
  <2>4. End(c, "error") /\ faultsLeft' \in 0..MaxFaults
    BY <1>7 DEF CreateFileSystemFails
  <2> QED  BY <2>2, <2>3, <2>4
<1>8. ASSUME NEW c \in Callers, awaitFileSystem(c)
      PROVE  TypeInv'
  BY <1>8 DEF awaitFileSystem, Poll
<1>9. ASSUME NEW c \in Callers, findExport(c)
      PROVE  TypeInv'
  BY <1>9 DEF findExport, Usable
<1>10. ASSUME NEW c \in Callers, CreateExport(c)
       PROVE  TypeInv'
  BY <1>10 DEF CreateExport, ExportMade
<1>11. ASSUME NEW c \in Callers, CreateExportFails(c)
       PROVE  TypeInv'
  <2>1. cfs[c] \in FsIDs /\ MountTarget(c) \in MountTargets
    BY <1>11 DEF CreateExportFails
  <2>2. expState' \in [ExpIDs -> States \ {"FAILED"}] /\ expFs' \in [ExpIDs -> FsIDs \cup {None}]
        /\ expSet' \in [ExpIDs -> MountTargets \cup {None}]
    BY <1>11, <2>1 DEF CreateExportFails, ExportMade
  <2>3. UNCHANGED <<mtState, fsState, fsName, fsAD, req, cfs, cexp, pvs, released>>
    BY <1>11 DEF CreateExportFails, ExportMade
  <2>4. End(c, "error") /\ faultsLeft' \in 0..MaxFaults
    BY <1>11 DEF CreateExportFails
  <2> QED  BY <2>2, <2>3, <2>4
<1>12. ASSUME NEW c \in Callers, awaitExport(c)
       PROVE  TypeInv'
  BY <1>12 DEF awaitExport, Poll
<1>13. ASSUME NEW c \in Callers, DeleteExport(c)
       PROVE  TypeInv'
  BY <1>13 DEF DeleteExport
<1>14. ASSUME NEW c \in Callers, DeleteFileSystem(c)
       PROVE  TypeInv'
  BY <1>14 DEF DeleteFileSystem
<1>15. ASSUME NEW c \in Callers, DeleteFails(c)
       PROVE  TypeInv'
  BY <1>15 DEF DeleteFails
<1>16. ASSUME NEW c \in Callers, Collect(c)
       PROVE  TypeInv'
  BY <1>16 DEF Collect, PVOf, PVs, Provisioned
<1>17. ASSUME NEW claim \in Claims, Release(claim)
       PROVE  TypeInv'
  BY <1>17 DEF Release
<1>18. ASSUME NEW f \in FsIDs, FileSystemProgress(f)
       PROVE  TypeInv'
  BY <1>18 DEF FileSystemProgress, NextStates
<1>19. ASSUME NEW e \in ExpIDs, ExportProgress(e)
       PROVE  TypeInv'
  BY <1>19 DEF ExportProgress, NextStates
<1>20. ASSUME NEW m \in MountTargets, MountTargetProgress(m)
       PROVE  TypeInv'
  BY <1>20 DEF MountTargetProgress
<1>21. CASE UNCHANGED vars
  BY <1>21 DEF vars
<1> QED
  BY <1>1, <1>2, <1>3, <1>4, <1>5, <1>6, <1>7, <1>8, <1>9, <1>10, <1>11,
     <1>12, <1>13, <1>14, <1>15, <1>16, <1>17, <1>18, <1>19, <1>20, <1>21 DEF
     Next, Step, Call

\* Every variable keeps its type, and a call has a request, a mount target, a
\* file system and an export at the steps that dereference them.
THEOREM TypeCorrect == Spec => []TypeOK
<1>1. TypeInv => TypeOK
  BY DEF TypeInv
<1> QED  BY <1>1, InitType, NextType, PTL DEF Spec

-----------------------------------------------------------------------------
(* The service: resources keep their identity and never come back. *)

\* A file system keeps its name and domain once made, and never falls back.
LEMMA FileSystemsMoveForward ==
    ASSUME TypeInv, [Next]_vars, NEW g \in FsIDs
    PROVE  /\ fsState[g] # "ABSENT" => /\ fsState'[g] # "ABSENT"
                                       /\ fsName'[g] = fsName[g]
                                       /\ fsAD'[g] = fsAD[g]
           /\ fsState[g] \notin Pending => fsState'[g] \notin Pending
           /\ fsState[g] \in Dying => fsState'[g] \in Dying
           /\ fsState[g] = "GONE" => fsState'[g] = "GONE"
<1> DEFINE Forward ==
      /\ fsState[g] # "ABSENT" => /\ fsState'[g] # "ABSENT"
                                  /\ fsName'[g] = fsName[g]
                                  /\ fsAD'[g] = fsAD[g]
      /\ fsState[g] \notin Pending => fsState'[g] \notin Pending
      /\ fsState[g] \in Dying => fsState'[g] \in Dying
      /\ fsState[g] = "GONE" => fsState'[g] = "GONE"
<1> USE DEF TypeInv, TypeOK, CallsOK, CallOK, Looking, Building, Removing,
            Pending, Dying, service
<1>1. ASSUME NEW c \in Callers, NEW r \in Requests,
             MayProvision(r.claim), Provision(c, r)
      PROVE  Forward
  BY <1>1 DEF Provision
<1>2. ASSUME NEW c \in Callers, NEW pv \in pvs, NEW a \in BOOLEAN,
             MayDelete(pv), Delete(c, pv, a)
      PROVE  Forward
  BY <1>2 DEF Delete
<1>3. ASSUME NEW c \in Callers, awaitMountTarget(c)
      PROVE  Forward
  BY <1>3 DEF awaitMountTarget, Poll
<1>4. ASSUME NEW c \in Callers, GetPrivateIp(c)
      PROVE  Forward
  BY <1>4 DEF GetPrivateIp
<1>5. ASSUME NEW c \in Callers, getFileSystemByDisplayName(c)
      PROVE  Forward
  BY <1>5 DEF getFileSystemByDisplayName, Listed
<1>6. ASSUME NEW c \in Callers, CreateFileSystem(c)
      PROVE  Forward
  BY <1>6 DEF CreateFileSystem, FileSystemMade
<1>7. ASSUME NEW c \in Callers, CreateFileSystemFails(c)
      PROVE  Forward
  BY <1>7 DEF CreateFileSystemFails, FileSystemMade
<1>8. ASSUME NEW c \in Callers, awaitFileSystem(c)
      PROVE  Forward
  BY <1>8 DEF awaitFileSystem, Poll
<1>9. ASSUME NEW c \in Callers, findExport(c)
      PROVE  Forward
  BY <1>9 DEF findExport, Usable
<1>10. ASSUME NEW c \in Callers, CreateExport(c)
       PROVE  Forward
  BY <1>10 DEF CreateExport, ExportMade
<1>11. ASSUME NEW c \in Callers, CreateExportFails(c)
       PROVE  Forward
  BY <1>11 DEF CreateExportFails, ExportMade
<1>12. ASSUME NEW c \in Callers, awaitExport(c)
       PROVE  Forward
  BY <1>12 DEF awaitExport, Poll
<1>13. ASSUME NEW c \in Callers, DeleteExport(c)
       PROVE  Forward
  BY <1>13 DEF DeleteExport
<1>14. ASSUME NEW c \in Callers, DeleteFileSystem(c)
       PROVE  Forward
  BY <1>14 DEF DeleteFileSystem, DeleteAnswers
<1>15. ASSUME NEW c \in Callers, DeleteFails(c)
       PROVE  Forward
  BY <1>15 DEF DeleteFails
<1>16. ASSUME NEW c \in Callers, Collect(c)
       PROVE  Forward
  BY <1>16 DEF Collect, PVOf
<1>17. ASSUME NEW claim \in Claims, Release(claim)
       PROVE  Forward
  BY <1>17 DEF Release
<1>18. ASSUME NEW f \in FsIDs, FileSystemProgress(f)
       PROVE  Forward
  BY <1>18 DEF FileSystemProgress, NextStates
<1>19. ASSUME NEW e \in ExpIDs, ExportProgress(e)
       PROVE  Forward
  BY <1>19 DEF ExportProgress, NextStates
<1>20. ASSUME NEW m \in MountTargets, MountTargetProgress(m)
       PROVE  Forward
  BY <1>20 DEF MountTargetProgress
<1>21. CASE UNCHANGED vars
  BY <1>21 DEF vars
<1> QED
  BY <1>1, <1>2, <1>3, <1>4, <1>5, <1>6, <1>7, <1>8, <1>9, <1>10, <1>11,
     <1>12, <1>13, <1>14, <1>15, <1>16, <1>17, <1>18, <1>19, <1>20, <1>21 DEF
     Next, Step, Call

\* An export keeps its file system once made, and never falls back.
LEMMA ExportsMoveForward ==
    ASSUME TypeInv, [Next]_vars, NEW x \in ExpIDs
    PROVE  /\ expState[x] # "ABSENT" => /\ expState'[x] # "ABSENT"
                                        /\ expFs'[x] = expFs[x]
           /\ expState[x] \notin Pending => expState'[x] \notin Pending
           /\ expState[x] \in Dying => expState'[x] \in Dying
<1> DEFINE Forward ==
      /\ expState[x] # "ABSENT" => /\ expState'[x] # "ABSENT"
                                   /\ expFs'[x] = expFs[x]
      /\ expState[x] \notin Pending => expState'[x] \notin Pending
      /\ expState[x] \in Dying => expState'[x] \in Dying
<1> USE DEF TypeInv, TypeOK, CallsOK, CallOK, Looking, Building, Removing,
            Pending, Dying, service
<1>1. ASSUME NEW c \in Callers, NEW r \in Requests,
             MayProvision(r.claim), Provision(c, r)
      PROVE  Forward
  BY <1>1 DEF Provision
<1>2. ASSUME NEW c \in Callers, NEW pv \in pvs, NEW a \in BOOLEAN,
             MayDelete(pv), Delete(c, pv, a)
      PROVE  Forward
  BY <1>2 DEF Delete
<1>3. ASSUME NEW c \in Callers, awaitMountTarget(c)
      PROVE  Forward
  BY <1>3 DEF awaitMountTarget, Poll
<1>4. ASSUME NEW c \in Callers, GetPrivateIp(c)
      PROVE  Forward
  BY <1>4 DEF GetPrivateIp
<1>5. ASSUME NEW c \in Callers, getFileSystemByDisplayName(c)
      PROVE  Forward
  BY <1>5 DEF getFileSystemByDisplayName, Listed
<1>6. ASSUME NEW c \in Callers, CreateFileSystem(c)
      PROVE  Forward
  BY <1>6 DEF CreateFileSystem, FileSystemMade
<1>7. ASSUME NEW c \in Callers, CreateFileSystemFails(c)
      PROVE  Forward
  BY <1>7 DEF CreateFileSystemFails, FileSystemMade
<1>8. ASSUME NEW c \in Callers, awaitFileSystem(c)
      PROVE  Forward
  BY <1>8 DEF awaitFileSystem, Poll
<1>9. ASSUME NEW c \in Callers, findExport(c)
      PROVE  Forward
  BY <1>9 DEF findExport, Usable
<1>10. ASSUME NEW c \in Callers, CreateExport(c)
       PROVE  Forward
  BY <1>10 DEF CreateExport, ExportMade
<1>11. ASSUME NEW c \in Callers, CreateExportFails(c)
       PROVE  Forward
  BY <1>11 DEF CreateExportFails, ExportMade
<1>12. ASSUME NEW c \in Callers, awaitExport(c)
       PROVE  Forward
  BY <1>12 DEF awaitExport, Poll
<1>13. ASSUME NEW c \in Callers, DeleteExport(c)
       PROVE  Forward
  BY <1>13 DEF DeleteExport, DeleteAnswers
<1>14. ASSUME NEW c \in Callers, DeleteFileSystem(c)
       PROVE  Forward
  BY <1>14 DEF DeleteFileSystem
<1>15. ASSUME NEW c \in Callers, DeleteFails(c)
       PROVE  Forward
  BY <1>15 DEF DeleteFails
<1>16. ASSUME NEW c \in Callers, Collect(c)
       PROVE  Forward
  BY <1>16 DEF Collect, PVOf
<1>17. ASSUME NEW claim \in Claims, Release(claim)
       PROVE  Forward
  BY <1>17 DEF Release
<1>18. ASSUME NEW f \in FsIDs, FileSystemProgress(f)
       PROVE  Forward
  BY <1>18 DEF FileSystemProgress, NextStates
<1>19. ASSUME NEW e \in ExpIDs, ExportProgress(e)
       PROVE  Forward
  BY <1>19 DEF ExportProgress, NextStates
<1>20. ASSUME NEW m \in MountTargets, MountTargetProgress(m)
       PROVE  Forward
  BY <1>20 DEF MountTargetProgress
<1>21. CASE UNCHANGED vars
  BY <1>21 DEF vars
<1> QED
  BY <1>1, <1>2, <1>3, <1>4, <1>5, <1>6, <1>7, <1>8, <1>9, <1>10, <1>11,
     <1>12, <1>13, <1>14, <1>15, <1>16, <1>17, <1>18, <1>19, <1>20, <1>21 DEF
     Next, Step, Call

-----------------------------------------------------------------------------
(* What a PV stands for *)

\* A call of Provision works on a file system of its claim and on an export of
\* that file system, and has seen what it waited for; a call of Delete works on
\* a file system that was made.
CallConsistent(c) ==
    /\ pc[c] \in Removing => fsState[cfs[c]] \notin Pending
    /\ req[c] # None =>
      /\ cfs[c] # None => /\ fsState[cfs[c]] # "ABSENT"
                          /\ fsName[cfs[c]] = req[c].claim
      /\ pc[c] \in {"findExport", "createExport", "awaitExport"} =>
           fsState[cfs[c]] \notin Pending
      /\ cexp[c] # None => /\ expState[cexp[c]] # "ABSENT"
                           /\ expFs[cexp[c]] = cfs[c]
      /\ result[c] = "ok" => /\ fsState[cfs[c]] \notin Pending
                             /\ expState[cexp[c]] \notin Pending

PVConsistent(pv) ==
    /\ fsName[pv.fs] = pv.claim /\ fsState[pv.fs] \notin Pending
    /\ expFs[pv.exp] = pv.fs /\ expState[pv.exp] \notin Pending

ConsInv ==
    /\ \A c \in Callers : CallConsistent(c)
    /\ \A pv \in pvs : PVConsistent(pv)

\* What a call found or created belongs to its claim and goes together.
LEMMA NextCons == TypeInv /\ ConsInv /\ [Next]_vars => ConsInv'
<1> SUFFICES ASSUME TypeInv, ConsInv, [Next]_vars PROVE ConsInv'
  OBVIOUS
<1> DEFINE FsKept == \A g \in FsIDs :
             /\ fsState[g] # "ABSENT" => /\ fsState'[g] # "ABSENT"
                                         /\ fsName'[g] = fsName[g]
             /\ fsState[g] \notin Pending => fsState'[g] \notin Pending
           ExpKept == \A x \in ExpIDs :
             /\ expState[x] # "ABSENT" => /\ expState'[x] # "ABSENT"
                                          /\ expFs'[x] = expFs[x]
             /\ expState[x] \notin Pending => expState'[x] \notin Pending
<1>0. FsKept /\ ExpKept
  BY FileSystemsMoveForward, ExportsMoveForward
<1> USE <1>0, FssAssumption
<1> USE DEF TypeInv, TypeOK, CallsOK, CallOK, Looking, Building, Removing, PVs,
            Pending, ConsInv, CallConsistent, PVConsistent, locals, env, Goto,
            Return, End, Fail
<1>1. ASSUME NEW c \in Callers, NEW r \in Requests,
             MayProvision(r.claim), Provision(c, r)
      PROVE  ConsInv'
  BY <1>1 DEF Provision
<1>2. ASSUME NEW c \in Callers, NEW pv \in pvs, NEW a \in BOOLEAN,
             MayDelete(pv), Delete(c, pv, a)
      PROVE  ConsInv'
  BY <1>2 DEF Delete
<1>3. ASSUME NEW c \in Callers, awaitMountTarget(c)
      PROVE  ConsInv'
  BY <1>3 DEF awaitMountTarget, Poll
<1>4. ASSUME NEW c \in Callers, GetPrivateIp(c)
      PROVE  ConsInv'
  BY <1>4 DEF GetPrivateIp
<1>5. ASSUME NEW c \in Callers, getFileSystemByDisplayName(c)
      PROVE  ConsInv'
  BY <1>5 DEF getFileSystemByDisplayName, Listed, Unknown
<1>6. ASSUME NEW c \in Callers, CreateFileSystem(c)
      PROVE  ConsInv'
  BY <1>6 DEF CreateFileSystem, FileSystemMade
<1>7. ASSUME NEW c \in Callers, CreateFileSystemFails(c)
      PROVE  ConsInv'
  BY <1>7 DEF CreateFileSystemFails, FileSystemMade
<1>8. ASSUME NEW c \in Callers, awaitFileSystem(c)
      PROVE  ConsInv'
  BY <1>8 DEF awaitFileSystem, Poll
<1>9. ASSUME NEW c \in Callers, findExport(c)
      PROVE  ConsInv'
  BY <1>9 DEF findExport, Usable
<1>10. ASSUME NEW c \in Callers, CreateExport(c)
       PROVE  ConsInv'
  BY <1>10 DEF CreateExport, ExportMade
<1>11. ASSUME NEW c \in Callers, CreateExportFails(c)
       PROVE  ConsInv'
  BY <1>11 DEF CreateExportFails, ExportMade
<1>12. ASSUME NEW c \in Callers, awaitExport(c)
       PROVE  ConsInv'
  BY <1>12 DEF awaitExport, Poll
<1>13. ASSUME NEW c \in Callers, DeleteExport(c)
       PROVE  ConsInv'
  BY <1>13 DEF DeleteExport
<1>14. ASSUME NEW c \in Callers, DeleteFileSystem(c)
       PROVE  ConsInv'
  BY <1>14 DEF DeleteFileSystem
<1>15. ASSUME NEW c \in Callers, DeleteFails(c)
       PROVE  ConsInv'
  BY <1>15 DEF DeleteFails
<1>16. ASSUME NEW c \in Callers, Collect(c)
       PROVE  ConsInv'
  BY <1>16 DEF Collect, PVOf, Provisioned
<1>17. ASSUME NEW claim \in Claims, Release(claim)
       PROVE  ConsInv'
  BY <1>17 DEF Release
<1>18. ASSUME NEW f \in FsIDs, FileSystemProgress(f)
       PROVE  ConsInv'
  BY <1>18 DEF FileSystemProgress, NextStates
<1>19. ASSUME NEW e \in ExpIDs, ExportProgress(e)
       PROVE  ConsInv'
  BY <1>19 DEF ExportProgress, NextStates
<1>20. ASSUME NEW m \in MountTargets, MountTargetProgress(m)
       PROVE  ConsInv'
  BY <1>20 DEF MountTargetProgress
<1>21. CASE UNCHANGED vars
  BY <1>21 DEF vars
<1> QED
  BY <1>1, <1>2, <1>3, <1>4, <1>5, <1>6, <1>7, <1>8, <1>9, <1>10, <1>11,
     <1>12, <1>13, <1>14, <1>15, <1>16, <1>17, <1>18, <1>19, <1>20, <1>21 DEF
     Next, Step, Call

\* Whatever calls overlap, fail or are retried, a PV names a file system made
\* for its claim and an export of that very file system.
THEOREM PVsAlwaysConsistent == Spec => []PVsConsistent
<1>1. Init => ConsInv
  BY DEF Init, ConsInv, CallConsistent, Removing
<1>2. TypeInv /\ ConsInv => PVsConsistent
  BY FssAssumption DEF TypeInv, TypeOK, CallsOK, CallOK, ConsInv, CallConsistent,
     PVConsistent, PVsConsistent, Provisioned, PVOf, Pending
<1> QED  BY <1>1, <1>2, InitType, NextType, NextCons, PTL DEF Spec

-----------------------------------------------------------------------------
(* What Delete leaves behind *)

DelInv ==
    \A c \in Callers :
        /\ pc[c] = "deleteFileSystem" => expState[cexp[c]] \in Dying
        /\ Deleted(c) => expState[cexp[c]] \in Dying /\ fsState[cfs[c]] \in Dying

\* Delete passes the export only when that is going or gone, then the file system.
LEMMA NextDel ==
    ASSUME "auth" \notin Faults
    PROVE  TypeInv /\ DelInv /\ [Next]_vars => DelInv'
<1> SUFFICES ASSUME TypeInv, DelInv, [Next]_vars PROVE DelInv'
  OBVIOUS
<1> DEFINE Kept == /\ \A g \in FsIDs : fsState[g] \in Dying => fsState'[g] \in Dying
                   /\ \A x \in ExpIDs : expState[x] \in Dying => expState'[x] \in Dying
<1>0. Kept
  BY FileSystemsMoveForward, ExportsMoveForward
<1> USE <1>0, FssAssumption
<1> USE DEF TypeInv, TypeOK, CallsOK, CallOK, Looking, Building, Removing, PVs,
            DelInv, Deleted, locals, env, Goto, Return, End, Fail
<1>1. ASSUME NEW c \in Callers, NEW r \in Requests,
             MayProvision(r.claim), Provision(c, r)
      PROVE  DelInv'
  BY <1>1 DEF Provision
<1>2. ASSUME NEW c \in Callers, NEW pv \in pvs, NEW a \in BOOLEAN,
             MayDelete(pv), Delete(c, pv, a)
      PROVE  DelInv'
  BY <1>2 DEF Delete
<1>3. ASSUME NEW c \in Callers, awaitMountTarget(c)
      PROVE  DelInv'
  BY <1>3 DEF awaitMountTarget, Poll
<1>4. ASSUME NEW c \in Callers, GetPrivateIp(c)
      PROVE  DelInv'
  BY <1>4 DEF GetPrivateIp
<1>5. ASSUME NEW c \in Callers, getFileSystemByDisplayName(c)
      PROVE  DelInv'
  BY <1>5 DEF getFileSystemByDisplayName, Listed
<1>6. ASSUME NEW c \in Callers, CreateFileSystem(c)
      PROVE  DelInv'
  BY <1>6 DEF CreateFileSystem, FileSystemMade
<1>7. ASSUME NEW c \in Callers, CreateFileSystemFails(c)
      PROVE  DelInv'
  BY <1>7 DEF CreateFileSystemFails, FileSystemMade
<1>8. ASSUME NEW c \in Callers, awaitFileSystem(c)
      PROVE  DelInv'
  BY <1>8 DEF awaitFileSystem, Poll
<1>9. ASSUME NEW c \in Callers, findExport(c)
      PROVE  DelInv'
  BY <1>9 DEF findExport, Usable
<1>10. ASSUME NEW c \in Callers, CreateExport(c)
       PROVE  DelInv'
  BY <1>10 DEF CreateExport, ExportMade
<1>11. ASSUME NEW c \in Callers, CreateExportFails(c)
       PROVE  DelInv'
  BY <1>11 DEF CreateExportFails, ExportMade
<1>12. ASSUME NEW c \in Callers, awaitExport(c)
       PROVE  DelInv'
  BY <1>12 DEF awaitExport, Poll
<1>13. ASSUME NEW c \in Callers, DeleteExport(c)
       PROVE  DelInv'
  BY <1>13 DEF DeleteExport, DeleteAnswers, Tolerated, Dying
<1>14. ASSUME NEW c \in Callers, DeleteFileSystem(c)
       PROVE  DelInv'
  BY <1>14 DEF DeleteFileSystem, DeleteAnswers, Tolerated, Dying
<1>15. ASSUME NEW c \in Callers, DeleteFails(c)
       PROVE  DelInv'
  BY <1>15 DEF DeleteFails
<1>16. ASSUME NEW c \in Callers, Collect(c)
       PROVE  DelInv'
  BY <1>16 DEF Collect, PVOf
<1>17. ASSUME NEW claim \in Claims, Release(claim)
       PROVE  DelInv'
  BY <1>17 DEF Release
<1>18. ASSUME NEW f \in FsIDs, FileSystemProgress(f)
       PROVE  DelInv'
  BY <1>18 DEF FileSystemProgress, NextStates
<1>19. ASSUME NEW e \in ExpIDs, ExportProgress(e)
       PROVE  DelInv'
  BY <1>19 DEF ExportProgress, NextStates
<1>20. ASSUME NEW m \in MountTargets, MountTargetProgress(m)
       PROVE  DelInv'
  BY <1>20 DEF MountTargetProgress
<1>21. CASE UNCHANGED vars
  BY <1>21 DEF vars
<1> QED
  BY <1>1, <1>2, <1>3, <1>4, <1>5, <1>6, <1>7, <1>8, <1>9, <1>10, <1>11,
     <1>12, <1>13, <1>14, <1>15, <1>16, <1>17, <1>18, <1>19, <1>20, <1>21 DEF
     Next, Step, Call

\* When Delete returns nil the export and the file system of the PV are going
\* or gone, however often it was interrupted before, unless the service answers 404 to
\* rejected credentials (fss.go:425,437).
THEOREM DeleteIsDurable ==
    ASSUME "auth" \notin Faults
    PROVE  Spec => []DeleteOkMeansGone
<1>1. Init => DelInv
  BY DEF Init, DelInv, Deleted
<1>2. DelInv => DeleteOkMeansGone
  BY DEF DelInv, DeleteOkMeansGone
<1>3. TypeInv /\ DelInv /\ [Next]_vars => DelInv'
  BY NextDel
<1> QED  BY <1>1, <1>2, <1>3, InitType, NextType, PTL DEF Spec

-----------------------------------------------------------------------------
(* One file system per claim and domain *)

\* No two calls of Provision are for the same claim.
Exclusive ==
    \A c, d \in Callers :
        c # d /\ req[c] # None /\ req[d] # None => req[c].claim # req[d].claim

Unique ==
    \A f, g \in FsIDs :
        /\ fsName[f] = fsName[g] /\ fsAD[f] = fsAD[g]
        /\ fsState[f] \notin Unknown /\ fsState[g] \notin Unknown
        => f = g

\* What getFileSystemByDisplayName found out is still true when the file
\* system is created.
StillNone ==
    \A c \in Callers : pc[c] = "createFileSystem" =>
        \A f \in FsIDs : ~(/\ fsName[f] = req[c].claim /\ fsAD[f] = req[c].ad
                           /\ fsState[f] \notin Unknown)

NameInv == Exclusive /\ Unique /\ StillNone

\* With serialised calls nobody creates between the listing and the create of a call.
LEMMA NextName ==
    Serialised /\ TypeInv /\ ConsInv /\ NameInv /\ [Next]_vars => NameInv'
<1> SUFFICES ASSUME Serialised, TypeInv, ConsInv, NameInv, [Next]_vars PROVE NameInv'
  OBVIOUS
<1> DEFINE Kept == \A g \in FsIDs :
             /\ fsState[g] # "ABSENT" => /\ fsName'[g] = fsName[g]
                                         /\ fsAD'[g] = fsAD[g]
             /\ fsState[g] = "GONE" => fsState'[g] = "GONE"
<1>0. Kept
  BY FileSystemsMoveForward
<1> USE FssAssumption
<1> USE DEF TypeInv, TypeOK, CallsOK, CallOK, Looking, Building, Removing,
            NameInv, Exclusive, Unique, StillNone, Unknown, service, locals, env, Goto,
            Return, End, Fail
<1>1. ASSUME NEW c \in Callers, NEW r \in Requests,
             MayProvision(r.claim), Provision(c, r)
      PROVE  NameInv'
  BY <1>1 DEF Provision, MayProvision
<1>2. ASSUME NEW c \in Callers, NEW pv \in pvs, NEW a \in BOOLEAN,
             MayDelete(pv), Delete(c, pv, a)
      PROVE  NameInv'
  BY <1>2 DEF Delete
<1>3. ASSUME NEW c \in Callers, awaitMountTarget(c)
      PROVE  NameInv'
  BY <1>3 DEF awaitMountTarget, Poll
<1>4. ASSUME NEW c \in Callers, GetPrivateIp(c)
      PROVE  NameInv'
  BY <1>4 DEF GetPrivateIp
<1>5. ASSUME NEW c \in Callers, getFileSystemByDisplayName(c)
      PROVE  NameInv'
  BY <1>5 DEF getFileSystemByDisplayName, Listed
<1>6. ASSUME NEW c \in Callers, CreateFileSystem(c)
      PROVE  NameInv'
  BY <1>6 DEF CreateFileSystem, FileSystemMade
<1>7. ASSUME NEW c \in Callers, CreateFileSystemFails(c)
      PROVE  NameInv'
  <2>1. CASE UNCHANGED service
    BY <1>7, <2>1 DEF CreateFileSystemFails
  <2>2. ASSUME NEW f \in FsIDs, FileSystemMade(c, f)
        PROVE  NameInv'
    <3>1. UNCHANGED req /\ pc'[c] = "done" /\ \A d \in Callers : d # c => pc'[d] = pc[d]
      BY <1>7 DEF CreateFileSystemFails
    <3>2. pc[c] = "createFileSystem"
      BY <1>7 DEF CreateFileSystemFails
    <3>3. Exclusive'
      BY <3>1
    <3>4. Unique'
      BY <2>2, <3>2 DEF FileSystemMade
    <3>5. StillNone'
      <4> SUFFICES ASSUME NEW d \in Callers, pc'[d] = "createFileSystem", NEW g \in FsIDs,
                          fsName'[g] = req[d].claim, fsAD'[g] = req[d].ad,
                          fsState'[g] \notin Unknown
                   PROVE  FALSE
        BY <3>1
      <4>1. d # c /\ pc[d] = "createFileSystem"
        BY <3>1
      <4>2. req[d].claim # req[c].claim
        BY <3>2, <4>1
      <4>3. g # f
        BY <2>2, <4>2 DEF FileSystemMade
      <4> QED  BY <2>2, <4>1, <4>3 DEF FileSystemMade
    <3> QED  BY <3>3, <3>4, <3>5
  <2> QED  BY <1>7, <2>1, <2>2 DEF CreateFileSystemFails
<1>8. ASSUME NEW c \in Callers, awaitFileSystem(c)
      PROVE  NameInv'
  BY <1>8 DEF awaitFileSystem, Poll
<1>9. ASSUME NEW c \in Callers, findExport(c)
      PROVE  NameInv'
  BY <1>9 DEF findExport, Usable
<1>10. ASSUME NEW c \in Callers, CreateExport(c)
       PROVE  NameInv'
  BY <1>10 DEF CreateExport, ExportMade
<1>11. ASSUME NEW c \in Callers, CreateExportFails(c)
       PROVE  NameInv'
  BY <1>11 DEF CreateExportFails, ExportMade
<1>12. ASSUME NEW c \in Callers, awaitExport(c)
       PROVE  NameInv'
  BY <1>12 DEF awaitExport, Poll
<1>13. ASSUME NEW c \in Callers, DeleteExport(c)
       PROVE  NameInv'
  BY <1>13 DEF DeleteExport
<1>14. ASSUME NEW c \in Callers, DeleteFileSystem(c)
       PROVE  NameInv'
  <2>1. UNCHANGED <<fsName, fsAD, req>> /\ \A d \in Callers :
          pc'[d] = "createFileSystem" => pc[d] = "createFileSystem"
    BY <1>14 DEF DeleteFileSystem
  <2>2. \A g \in FsIDs : fsState'[g] \notin Unknown => fsState[g] \notin Unknown
    BY <1>14, <1>0 DEF DeleteFileSystem, ConsInv, CallConsistent, Pending, DeleteAnswers, Dying
  <2> QED  BY <2>1, <2>2
<1>15. ASSUME NEW c \in Callers, DeleteFails(c)
       PROVE  NameInv'
  <2>1. UNCHANGED <<fsName, fsAD, req>> /\ \A d \in Callers :
          pc'[d] = "createFileSystem" => pc[d] = "createFileSystem"
    BY <1>15 DEF DeleteFails
  <2>2. \A g \in FsIDs : fsState'[g] \notin Unknown => fsState[g] \notin Unknown
    BY <1>15, <1>0 DEF DeleteFails, ConsInv, CallConsistent, Pending, Dying
  <2> QED  BY <2>1, <2>2
<1>16. ASSUME NEW c \in Callers, Collect(c)
       PROVE  NameInv'
  BY <1>16 DEF Collect, PVOf
<1>17. ASSUME NEW claim \in Claims, Release(claim)
       PROVE  NameInv'
  BY <1>17 DEF Release
<1>18. ASSUME NEW f \in FsIDs, FileSystemProgress(f)
       PROVE  NameInv'
  BY <1>18, <1>0 DEF FileSystemProgress, NextStates
<1>19. ASSUME NEW e \in ExpIDs, ExportProgress(e)
       PROVE  NameInv'
  BY <1>19 DEF ExportProgress, NextStates
<1>20. ASSUME NEW m \in MountTargets, MountTargetProgress(m)
       PROVE  NameInv'
  BY <1>20 DEF MountTargetProgress
<1>21. CASE UNCHANGED vars
  BY <1>21 DEF vars
<1> QED
  BY <1>1, <1>2, <1>3, <1>4, <1>5, <1>6, <1>7, <1>8, <1>9, <1>10, <1>11,
     <1>12, <1>13, <1>14, <1>15, <1>16, <1>17, <1>18, <1>19, <1>20, <1>21 DEF
     Next, Step, Call

\* As long as the calls for a claim are serialised, retries in one domain never
\* make a second file system with the display name of the claim.
THEOREM OneFileSystem ==
    ASSUME Serialised
    PROVE  Spec => []OneFileSystemPerName
<1>1. Init => ConsInv /\ NameInv
  BY DEF Init, ConsInv, CallConsistent, NameInv, Exclusive, Unique, StillNone,
     Unknown, Removing
<1>2. NameInv => OneFileSystemPerName
  <2> SUFFICES ASSUME NameInv, NEW claim \in Claims, NEW ad \in ADs
               PROVE  Cardinality(Listed(claim, ad)) <= 1
    BY DEF OneFileSystemPerName
  <2>1. CASE Listed(claim, ad) = {}
    BY <2>1, FS_EmptySet
  <2>2. CASE Listed(claim, ad) # {}
    <3>1. PICK f \in Listed(claim, ad) : TRUE
      BY <2>2
    <3>2. Listed(claim, ad) = {f}
      BY <3>1 DEF Listed, NameInv, Unique
    <3>3. Cardinality({f}) = 1
      BY FS_Singleton, Zenon
    <3> QED  BY <3>2, <3>3
  <2> QED  BY <2>1, <2>2
<1>3. TypeInv /\ ConsInv /\ NameInv /\ [Next]_vars => NameInv'
  BY NextName
<1> QED  BY <1>1, <1>2, <1>3, InitType, NextType, NextCons, PTL DEF Spec

-----------------------------------------------------------------------------
(* What is left of a claim once its PV is deleted *)

\* No call of Provision works for the claim.
Untended(claim) == \A d \in Callers : req[d] # None => req[d].claim # claim

Deleting(c) == req[c] = None /\ cfs[c] # None

\* The claim has no living file system but f.
LastOf(claim, f) ==
    \A g \in FsIDs : fsName[g] = claim /\ fsState[g] \notin Dying => g = f

\* A file system is in the domain of some request for its claim.
Placed(f) ==
    IF fsState[f] = "ABSENT" THEN fsName[f] = None
    ELSE \E r \in Requests : fsName[f] = r.claim /\ fsAD[f] = r.ad

\* File systems are deleted only for claims that are gone and that nobody provisions for,
\* so a claim with a PV has no other living file system than that of the PV.
LeftInv ==
    /\ \A f \in FsIDs : Placed(f)
    /\ \A f \in FsIDs : fsState[f] \in Dying => fsName[f] \in released /\ Untended(fsName[f])
    /\ \A pv \in pvs : Untended(pv.claim) /\ LastOf(pv.claim, pv.fs)
    /\ \A c \in Callers : Deleting(c) => /\ fsName[cfs[c]] \in released
                                         /\ Untended(fsName[cfs[c]])
                                         /\ LastOf(fsName[cfs[c]], cfs[c])

OneDomain == \A r, s \in Requests : r.claim = s.claim => r.ad = s.ad

\* No call creates a file system for a claim that has a PV or is being deleted.
LEMMA NextLastOne ==
    ASSUME Serialised, OneDomain
    PROVE  TypeInv /\ ConsInv /\ NameInv /\ LeftInv /\ [Next]_vars => LeftInv'
<1> SUFFICES ASSUME TypeInv, ConsInv, NameInv, LeftInv, [Next]_vars PROVE LeftInv'
  OBVIOUS
<1> USE FssAssumption
<1> USE DEF LeftInv, Placed, Untended, LastOf, Deleting
<1>1. ASSUME UNCHANGED <<fsState, fsName, fsAD, req, cfs, pvs, released>>
      PROVE  LeftInv'
  BY <1>1
<1>2. ASSUME NEW c \in Callers, NEW r \in Requests,
             MayProvision(r.claim), Provision(c, r)
      PROVE  LeftInv'
  <2>1. /\ r.claim \notin released /\ \A pv \in pvs : pv.claim # r.claim
        /\ req' = [req EXCEPT ![c] = r] /\ cfs[c] = None
        /\ UNCHANGED <<fsState, fsName, fsAD, cfs, pvs, released>>
    BY <1>2 DEF MayProvision, Provision, TypeInv, CallsOK, CallOK, service, env
  <2> QED  BY <2>1 DEF TypeInv, TypeOK
<1>3. ASSUME NEW c \in Callers, NEW pv \in pvs, NEW a \in BOOLEAN,
             MayDelete(pv), Delete(c, pv, a)
      PROVE  LeftInv'
  <2>1. /\ pv.claim \in released /\ pv.fs \in FsIDs
        /\ cfs' = [cfs EXCEPT ![c] = pv.fs] /\ fsName[pv.fs] = pv.claim
        /\ UNCHANGED <<fsState, fsName, fsAD, req, pvs, released>>
    BY <1>3 DEF MayDelete, Delete, TypeInv, TypeOK, PVs, ConsInv, PVConsistent, service, env
  <2> QED  BY <2>1 DEF TypeInv, TypeOK
<1>4. ASSUME NEW c \in Callers, getFileSystemByDisplayName(c)
      PROVE  LeftInv'
  <2>1. /\ req[c] # None /\ \A d \in Callers : d # c => cfs'[d] = cfs[d]
        /\ UNCHANGED <<fsState, fsName, fsAD, req, pvs, released>>
    BY <1>4 DEF getFileSystemByDisplayName, TypeInv, TypeOK, CallsOK, CallOK, Looking,
                service, env
  <2> QED  BY <2>1
<1>5. ASSUME NEW c \in Callers, NEW f \in FsIDs, pc[c] = "createFileSystem",
             FileSystemMade(c, f), UNCHANGED <<req, pvs, released>>,
             \A d \in Callers : d # c => cfs'[d] = cfs[d]
      PROVE  LeftInv'
  <2>1. req[c] \in Requests /\ req[c] # None
    BY <1>5 DEF TypeInv, CallsOK, CallOK, Looking
  <2>2. /\ fsState[f] = "ABSENT" /\ fsState' = [fsState EXCEPT ![f] = "CREATING"]
        /\ fsName' = [fsName EXCEPT ![f] = req[c].claim]
        /\ fsAD' = [fsAD EXCEPT ![f] = req[c].ad]
    BY <1>5 DEF FileSystemMade
  <2>3. /\ \A pv \in pvs : pv.fs \in FsIDs /\ fsState[pv.fs] # "ABSENT"
        /\ \A d \in Callers : cfs[d] # None => cfs[d] \in FsIDs
    BY DEF TypeInv, TypeOK, PVs, ConsInv, PVConsistent, Pending
  <2>4. ASSUME NEW g \in FsIDs PROVE Placed(g)'
    BY <2>1, <2>2, FileSystemsMoveForward DEF TypeInv, TypeOK
  <2>5. ASSUME NEW g \in FsIDs, fsState'[g] \in Dying
        PROVE  fsName'[g] \in released /\ Untended(fsName'[g])
    BY <2>2, <2>5 DEF Dying, TypeInv, TypeOK
  <2>6. ASSUME NEW pv \in pvs
        PROVE  Untended(pv.claim) /\ LastOf(pv.claim, pv.fs)'
    BY <1>5, <2>1, <2>2, <2>6 DEF TypeInv, TypeOK
  <2>7. ASSUME NEW d \in Callers, req[d] = None, cfs'[d] # None
        PROVE  /\ fsName'[cfs'[d]] \in released
               /\ Untended(fsName'[cfs'[d]])
               /\ LastOf(fsName[cfs[d]], cfs[d])'
    <3>1. d # c /\ cfs'[d] = cfs[d] /\ cfs[d] \in FsIDs /\ Deleting(d)
      BY <1>5, <2>1, <2>3, <2>7
    <3>2. cfs[d] # f
      BY <2>2, <3>1 DEF TypeInv, TypeOK
    <3>3. fsName'[cfs[d]] = fsName[cfs[d]]
      BY <2>2, <3>1, <3>2 DEF TypeInv, TypeOK
    <3> QED  BY <2>1, <2>2, <3>1, <3>2, <3>3 DEF TypeInv, TypeOK
  <2> QED  BY <1>5, <2>4, <2>5, <2>6, <2>7
<1>6. ASSUME NEW c \in Callers, CreateFileSystem(c)
      PROVE  LeftInv'
  BY <1>5, <1>6 DEF CreateFileSystem, env, TypeInv, TypeOK
<1>7. ASSUME NEW c \in Callers, CreateFileSystemFails(c)
      PROVE  LeftInv'
  BY <1>1, <1>5, <1>7 DEF CreateFileSystemFails, env, locals, service
\* Steps that let file systems go on or take them down.
<1>8. ASSUME NEW g \in FsIDs, NEW s \in Dying \cup {"ACTIVE"}, fsState[g] # "ABSENT",
             fsState' = [fsState EXCEPT ![g] = s],
             \/ fsState[g] \in Dying
             \/ s \notin Dying
             \/ fsName[g] \in released /\ Untended(fsName[g]),
             fsState[g] \in Dying => s \in Dying,
             UNCHANGED <<fsName, fsAD, req, cfs, pvs, released>>
      PROVE  LeftInv'
  <2>1. \A f \in FsIDs : fsState[f] \in Dying => fsState'[f] \in Dying
    BY <1>8 DEF TypeInv, TypeOK
  <2>2. \A f \in FsIDs : Placed(f)'
    BY <1>8 DEF TypeInv, TypeOK, Dying
  <2>3. \A f \in FsIDs : fsState'[f] \in Dying => fsName[f] \in released /\ Untended(fsName[f])
    BY <1>8 DEF TypeInv, TypeOK
  <2> QED  BY <1>8, <2>1, <2>2, <2>3
<1>9. ASSUME NEW c \in Callers, DeleteFileSystem(c) \/ DeleteFails(c)
      PROVE  LeftInv'
  <2>1. CASE UNCHANGED fsState
    BY <1>1, <1>9, <2>1 DEF DeleteFileSystem, DeleteFails, locals, env
  <2>2. CASE fsState' = [fsState EXCEPT ![cfs[c]] = "DELETING"] /\ pc[c] \in Removing
    <3>1. cfs[c] \in FsIDs /\ Deleting(c) /\ fsState[cfs[c]] # "ABSENT"
      BY <2>2 DEF TypeInv, CallsOK, CallOK, ConsInv, CallConsistent, Pending
    <3>2. UNCHANGED <<fsName, fsAD, req, cfs, pvs, released>>
      BY <1>9 DEF DeleteFileSystem, DeleteFails, locals, env
    <3> QED  BY <1>8, <2>2, <3>1, <3>2 DEF Dying
  <2> QED  BY <1>9, <2>1, <2>2 DEF DeleteFileSystem, DeleteFails, Removing
<1>10. ASSUME NEW f \in FsIDs, FileSystemProgress(f)
       PROVE  LeftInv'
  <2>1. UNCHANGED <<fsName, fsAD, req, cfs, pvs, released>>
    BY <1>10 DEF FileSystemProgress, locals, env
  <2>2. PICK s \in Dying \cup {"ACTIVE"} :
          /\ fsState' = [fsState EXCEPT ![f] = s] /\ fsState[f] # "ABSENT"
          /\ fsState[f] \in Dying <=> s \in Dying
    BY <1>10 DEF FileSystemProgress, NextStates, Dying
  <2> QED  BY <1>8, <2>1, <2>2
<1>11. ASSUME NEW c \in Callers, Collect(c)
       PROVE  LeftInv'
  <2>1. /\ UNCHANGED <<fsState, fsName, fsAD, released>>
        /\ req' = [req EXCEPT ![c] = None] /\ cfs' = [cfs EXCEPT ![c] = None]
    BY <1>11 DEF Collect, service
  <2>2. ASSUME NEW k, Untended(k) PROVE Untended(k)'
    BY <2>1, <2>2 DEF TypeInv, TypeOK
  <2>3. ASSUME NEW pv \in pvs' PROVE Untended(pv.claim)' /\ LastOf(pv.claim, pv.fs)
    <3>1. CASE pv \in pvs
      BY <2>2, <3>1
    <3>2. CASE Provisioned(c) /\ pv = PVOf(c)
      <4>1. /\ req[c] \in Requests /\ req[c] # None /\ cfs[c] \in FsIDs
            /\ pv.claim = req[c].claim /\ pv.fs = cfs[c]
            /\ fsName[cfs[c]] = req[c].claim /\ fsState[cfs[c]] \notin Pending
        BY <3>2 DEF Provisioned, PVOf, TypeInv, TypeOK, CallsOK, CallOK, ConsInv,
                    CallConsistent
      <4>2. Untended(pv.claim)'
        BY <2>1, <4>1 DEF NameInv, Exclusive, TypeInv, TypeOK
      <4>3. fsState[cfs[c]] \notin Unknown
        BY <4>1 DEF Unknown, Pending, Dying
      <4>4. ASSUME NEW g \in FsIDs, fsName[g] = req[c].claim, fsState[g] \notin Dying
            PROVE  g = cfs[c]
        <5>1. fsState[g] \notin Unknown
          BY <4>1, <4>4 DEF Unknown, Dying
        <5>2. fsAD[g] = fsAD[cfs[c]]
          BY <4>1, <4>3, <4>4, <5>1 DEF OneDomain, Unknown
        <5> QED  BY <4>1, <4>3, <4>4, <5>1, <5>2 DEF NameInv, Unique
      <4> QED  BY <4>1, <4>2, <4>4
    <3> QED  BY <1>11, <3>1, <3>2 DEF Collect
  <2>4. \A d \in Callers : Deleting(d)' => Deleting(d) /\ cfs'[d] = cfs[d]
    BY <2>1 DEF TypeInv, TypeOK
  <2> QED  BY <2>1, <2>2, <2>3, <2>4
<1>12. ASSUME NEW claim \in Claims, Release(claim)
       PROVE  LeftInv'
  BY <1>12 DEF Release, service, locals
<1>13. ASSUME NEW c \in Callers,
              \/ awaitMountTarget(c) \/ GetPrivateIp(c) \/ awaitFileSystem(c)
              \/ findExport(c) \/ CreateExport(c) \/ awaitExport(c) \/ DeleteExport(c)
       PROVE  LeftInv'
  BY <1>1, <1>13 DEF awaitMountTarget, GetPrivateIp, awaitFileSystem, findExport,
     CreateExport, ExportMade, awaitExport, DeleteExport, service, locals, env
<1>14. ASSUME NEW c \in Callers, CreateExportFails(c)
       PROVE  LeftInv'
  BY <1>1, <1>14 DEF CreateExportFails, ExportMade, service, locals, env
<1>15. ASSUME \/ \E e \in ExpIDs : ExportProgress(e)
              \/ \E m \in MountTargets : MountTargetProgress(m)
              \/ UNCHANGED vars
       PROVE  LeftInv'
  BY <1>1, <1>15 DEF ExportProgress, MountTargetProgress, vars, locals, env
<1> HIDE DEF LeftInv
<1> QED
  BY <1>2, <1>3, <1>4, <1>6, <1>7, <1>9, <1>10, <1>11, <1>12, <1>13, <1>14, <1>15
  DEF Next, Step, Call

\* What the comment of Delete says holds as long as calls for a claim are serialised, its
\* requests name one availability domain and a 404 means what it says: when Delete returns
\* nil no file system of the claim is left, though it only knows the one of the PV
\* (fss.go:403).
THEOREM NothingLeft ==
    ASSUME Serialised, OneDomain, "auth" \notin Faults
    PROVE  Spec => []DeleteTerminatesAll
<1>1. Init => ConsInv /\ NameInv /\ DelInv /\ LeftInv
  BY DEF Init, ConsInv, CallConsistent, NameInv, Exclusive, Unique, StillNone,
     Unknown, Removing, DelInv, Deleted, LeftInv, Placed, Deleting, Dying
<1>2. TypeInv /\ DelInv /\ LeftInv => DeleteTerminatesAll
  BY FssAssumption DEF TypeInv, CallsOK, CallOK, DelInv, LeftInv, LastOf, Deleting,
     Deleted, DeleteTerminatesAll
<1>3. TypeInv /\ ConsInv /\ NameInv /\ [Next]_vars => NameInv'
  BY NextName
<1>4. TypeInv /\ ConsInv /\ NameInv /\ LeftInv /\ [Next]_vars => LeftInv'
  BY NextLastOne
<1>5. TypeInv /\ DelInv /\ [Next]_vars => DelInv'
  BY NextDel
<1> QED  BY <1>1, <1>2, <1>3, <1>4, <1>5, InitType, NextType, NextCons, PTL DEF Spec

-----------------------------------------------------------------------------
(* The plugin interface *)

\* The status of a call, without the order of the cases.
LEMMA StatusIs ==
    ASSUME NEW step \in PCs, NEW r, NEW res
    PROVE  /\ step = "idle" => StatusOf(step, r, res) = "idle"
           /\ step = "done" /\ res # "ok" => StatusOf(step, r, res) = "failed"
           /\ step = "done" /\ res = "ok" =>
                StatusOf(step, r, res) = IF r # None THEN "pv" ELSE "deleted"
           /\ step \notin {"idle", "done"} =>
                StatusOf(step, r, res) = IF r # None THEN "provisioning" ELSE "deleting"
  BY DEF StatusOf, PCs

\* The life of an asset, likewise.
LEMMA LifeIs ==
    ASSUME NEW s \in States \ {"FAILED"}
    PROVE  /\ s = "ABSENT" <=> LifeOf(s) = "none"
           /\ s = "ACTIVE" <=> LifeOf(s) = "ready"
           /\ s \in Dying <=> LifeOf(s) = "gone"
           /\ s = "CREATING" <=> LifeOf(s) = "making"
  BY DEF LifeOf, States, Dying

\* A step of the service on file system g is a step of the contract on asset g.
LEMMA LifeMoves ==
    ASSUME TypeInv, NEW g \in FsIDs, NEW s \in States,
           fsState' = [fsState EXCEPT ![g] = s]
    PROVE  assetLife' = [assetLife EXCEPT ![g] = LifeOf(s)]
  BY DEF TypeInv, TypeOK, assetLife

\* The call of the contract that call c is, after a step.
After(c) == CallOf(pc'[c], req'[c], result'[c], cfs'[c])

\* A step of call c leaves the other calls of the contract alone.
LEMMA CallMoves ==
    ASSUME TypeInv, NEW c \in Callers,
           \A d \in Callers \ {c} : /\ pc'[d] = pc[d] /\ req'[d] = req[d]
                                    /\ cfs'[d] = cfs[d] /\ result'[d] = result[d]
    PROVE  contractCall' = [contractCall EXCEPT ![c] = After(c)]
  BY DEF contractCall, After

\* What the contract sees of a call.
LEMMA CallNow ==
    ASSUME TypeInv, NEW c \in Callers
    PROVE  /\ contractCall[c].claim = IF req[c] # None THEN req[c].claim ELSE None
           /\ contractCall[c].asset = cfs[c]
           /\ pc[c] = "idle" => contractCall[c].status = "idle"
           /\ pc[c] \notin {"idle", "done"} =>
                contractCall[c].status = IF req[c] # None THEN "provisioning" ELSE "deleting"
           /\ pc[c] = "done" => contractCall[c].status \in {"pv", "deleted", "failed"}
  BY StatusIs DEF contractCall, CallOf, TypeInv, TypeOK

\* A call that ends keeps its claim and its asset.
LEMMA CallEnds ==
    ASSUME TypeInv, NEW c \in Callers, NEW res, End(c, res), UNCHANGED <<req, cfs>>
    PROVE  contractCall' =
             [contractCall EXCEPT ![c].status =
                IF res # "ok" THEN "failed" ELSE IF req[c] # None THEN "pv" ELSE "deleted"]
<1>1. /\ pc' = [pc EXCEPT ![c] = "done"] /\ result' = [result EXCEPT ![c] = res]
      /\ UNCHANGED <<req, cfs>>
  BY DEF End
<1>2. contractCall' = [contractCall EXCEPT ![c] = After(c)]
  BY <1>1, CallMoves DEF TypeInv, TypeOK
<1>3. After(c) = [contractCall[c] EXCEPT !.status = StatusOf("done", req[c], res)]
  BY <1>1 DEF After, contractCall, CallOf, TypeInv, TypeOK
<1>4. StatusOf("done", req[c], res) =
        IF res # "ok" THEN "failed" ELSE IF req[c] # None THEN "pv" ELSE "deleted"
  BY StatusIs DEF PCs
<1> QED  BY <1>2, <1>3, <1>4

\* The requests between create and return are hidden by the contract.
LEMMA CallGoesOn ==
    ASSUME TypeInv, NEW c \in Callers, NEW step \in PCs \ {"idle", "done"},
           pc[c] \notin {"idle", "done"}, Goto(c, step),
           UNCHANGED <<fsState, fsName, req, cfs>>
    PROVE  UNCHANGED <<assetLife, fsName, contractCall>>
<1>1. /\ pc' = [pc EXCEPT ![c] = step] /\ UNCHANGED result
  BY DEF Goto
<1>2. contractCall' = [contractCall EXCEPT ![c] = After(c)]
  BY <1>1, CallMoves DEF TypeInv, TypeOK
<1>3. StatusOf(step, req[c], result[c]) = StatusOf(pc[c], req[c], result[c])
  BY StatusIs DEF TypeInv, TypeOK
<1>4. After(c) = contractCall[c]
  BY <1>1, <1>3 DEF After, contractCall, CallOf, TypeInv, TypeOK
<1>5. [contractCall EXCEPT ![c] = contractCall[c]] = contractCall
  BY DEF contractCall
<1> QED  BY <1>2, <1>4, <1>5 DEF assetLife

\* A call that fails without having changed a file system.
LEMMA CallFails ==
    ASSUME TypeInv, NEW c \in Callers, pc[c] \notin {"idle", "done"}, End(c, "error"),
           UNCHANGED <<fsState, fsName, req, cfs>>
    PROVE  Contract!Fail(c)
<1>1. contractCall' = [contractCall EXCEPT ![c].status = "failed"]
  BY CallEnds
<1>2. contractCall[c].status \in {"provisioning", "deleting"}
  BY CallNow
<1> QED  BY <1>1, <1>2 DEF assetLife, Contract!Fail, Contract!Ends

\* A file system that is made: the service hands out an OCID that was not used before.
LEMMA AssetMade ==
    ASSUME TypeInv, NEW c \in Callers, NEW f \in FsIDs, pc[c] = "createFileSystem",
           FileSystemMade(c, f)
    PROVE  Contract!Made(c, f)
<1>1. contractCall[c].status = "provisioning" /\ contractCall[c].asset = None
      /\ contractCall[c].claim = req[c].claim
  BY CallNow, FssAssumption DEF TypeInv, CallsOK, CallOK, Looking
<1>2. assetLife[f] = "none" /\ LifeOf("CREATING") = "making"
  BY LifeIs DEF FileSystemMade, assetLife, States
<1>3. assetLife' = [assetLife EXCEPT ![f] = "making"]
  BY <1>2, LifeMoves DEF FileSystemMade, States
<1> QED  BY <1>1, <1>2, <1>3 DEF FileSystemMade, Contract!Made, Contract!Provisioning

\* A delete request that had its effect, now or before.
LEMMA AssetRemoved ==
    ASSUME TypeInv, NEW c \in Callers, pc[c] = "deleteFileSystem", NEW res,
           End(c, res), UNCHANGED <<req, cfs, fsName>>,
           \/ fsState' = [fsState EXCEPT ![cfs[c]] = "DELETING"]
           \/ fsState[cfs[c]] \in Dying /\ UNCHANGED fsState
    PROVE  Contract!Remove(c)
<1>1. /\ contractCall[c].status = "deleting" /\ contractCall[c].asset = cfs[c]
      /\ cfs[c] \in FsIDs /\ req[c] = None
  BY CallNow DEF TypeInv, CallsOK, CallOK, Removing
<1>2. assetLife' = [assetLife EXCEPT ![cfs[c]] = "gone"]
  <2>1. CASE fsState' = [fsState EXCEPT ![cfs[c]] = "DELETING"]
    <3>1. "DELETING" \in States /\ LifeOf("DELETING") = "gone"
      BY LifeIs DEF States, Dying
    <3>2. assetLife' = [assetLife EXCEPT ![cfs[c]] = LifeOf("DELETING")]
      BY <1>1, <2>1, <3>1, LifeMoves
    <3> QED  BY <3>1, <3>2
  <2>2. CASE fsState[cfs[c]] \in Dying /\ UNCHANGED fsState
    <3>1. assetLife[cfs[c]] = "gone"
      BY <1>1, <2>2, LifeIs DEF assetLife, TypeInv, TypeOK
    <3>2. [assetLife EXCEPT ![cfs[c]] = assetLife[cfs[c]]] = assetLife
      BY DEF assetLife
    <3>3. assetLife' = assetLife
      BY <2>2 DEF assetLife
    <3> QED  BY <3>1, <3>2, <3>3
  <2> QED  BY <2>1, <2>2
<1>3. contractCall' = [contractCall EXCEPT ![c].status = "failed"]
      \/ contractCall' = [contractCall EXCEPT ![c].status = "deleted"]
  BY <1>1, CallEnds
<1> QED  BY <1>1, <1>2, <1>3 DEF Contract!Remove, Contract!Ends

\* Each step of the plugin is one of the contract, or changes nothing it speaks of.
LEMMA NextKeeps ==
    ASSUME "auth" \notin Faults
    PROVE  TypeInv /\ ConsInv /\ [Next]_vars => [Contract!Next]_(Contract!vars)
<1> DEFINE Quiet == UNCHANGED <<assetLife, fsName, contractCall>>
<1> SUFFICES ASSUME TypeInv, ConsInv, [Next]_vars
             PROVE  Contract!Next \/ Quiet
  BY DEF Contract!vars
<1> USE FssAssumption
<1>1. ASSUME NEW c \in Callers, NEW r \in Requests,
             MayProvision(r.claim), Provision(c, r)
      PROVE  Contract!Provision(c, r.claim)
  <2>1. contractCall' = [contractCall EXCEPT ![c] = After(c)]
    BY <1>1, CallMoves DEF Provision, TypeInv, TypeOK, Return, End, Goto
  <2>2. contractCall[c].status = "idle"
    BY <1>1, CallNow DEF Provision
  <2>3. PICK s \in {"provisioning", "failed"} :
          After(c) = [status |-> s, claim |-> r.claim, asset |-> None]
    BY <1>1, StatusIs DEF After, Provision, CallOf, PCs, TypeInv, TypeOK, CallsOK, CallOK,
                Return, End, Goto
  <2>4. UNCHANGED <<assetLife, fsName>>
    BY <1>1 DEF Provision, service, assetLife
  <2> QED  BY <2>1, <2>2, <2>3, <2>4 DEF Contract!Provision, Contract!Idle
<1>2. ASSUME NEW c \in Callers, NEW pv \in pvs, NEW a \in BOOLEAN,
             MayDelete(pv), Delete(c, pv, a)
      PROVE  Contract!Delete(c, pv.fs)
  <2>1. contractCall' = [contractCall EXCEPT ![c] = After(c)]
    BY <1>2, CallMoves DEF Delete, TypeInv, TypeOK, Return, End, Goto
  <2>2. contractCall[c].status = "idle"
    BY <1>2, CallNow DEF Delete
  <2>3. PICK s \in {"deleting", "failed"} :
          After(c) = [status |-> s, claim |-> None, asset |-> pv.fs]
    BY <1>2, StatusIs DEF After, Delete, CallOf, PCs, TypeInv, TypeOK, CallsOK, CallOK,
                Return, End, Goto
  <2>4. UNCHANGED <<assetLife, fsName>>
    BY <1>2 DEF Delete, service, assetLife
  <2> QED  BY <2>1, <2>2, <2>3, <2>4 DEF Contract!Delete, Contract!Idle
<1>3. ASSUME NEW c \in Callers, awaitMountTarget(c)
      PROVE  Contract!Fail(c) \/ Quiet
  BY <1>3, CallGoesOn, CallFails DEF awaitMountTarget, Poll, Return, Fail, PCs, service, locals
<1>4. ASSUME NEW c \in Callers, GetPrivateIp(c)
      PROVE  Contract!Fail(c) \/ Quiet
  BY <1>4, CallGoesOn, CallFails DEF GetPrivateIp, Fail, PCs, service, locals
<1>5. ASSUME NEW c \in Callers, getFileSystemByDisplayName(c)
      PROVE  (\E f \in FsIDs : Contract!Find(c, f)) \/ Contract!Fail(c) \/ Quiet
  <2>1. UNCHANGED <<assetLife, fsState, fsName, req>>
    BY <1>5 DEF getFileSystemByDisplayName, service, assetLife
  <2>2. ASSUME NEW f \in Listed(req[c].claim, req[c].ad), cfs' = [cfs EXCEPT ![c] = f],
               Goto(c, "awaitFileSystem")
        PROVE  Contract!Find(c, f)
    <3>1. contractCall[c].status = "provisioning" /\ contractCall[c].asset = None
          /\ contractCall[c].claim = req[c].claim
      BY <1>5, CallNow DEF getFileSystemByDisplayName, TypeInv, CallsOK, CallOK, Looking
    <3>2. contractCall' = [contractCall EXCEPT ![c] = After(c)]
      BY <2>1, <2>2, CallMoves DEF Goto, TypeInv, TypeOK
    <3>3. After(c) = [contractCall[c] EXCEPT !.asset = f]
      BY <1>5, <2>1, <2>2, StatusIs DEF getFileSystemByDisplayName, After, CallOf, PCs,
         TypeInv, TypeOK, Goto, contractCall
    <3>4. fsName[f] = req[c].claim /\ assetLife[f] # "none"
      BY <2>2, LifeIs DEF Listed, Unknown, assetLife, TypeInv, TypeOK
    <3> QED  BY <2>1, <3>1, <3>2, <3>3, <3>4
             DEF Contract!Find, Contract!Provisioning, Contract!Has
  <2>3. CASE Goto(c, "createFileSystem") /\ UNCHANGED cfs
    BY <1>5, <2>1, <2>3, CallGoesOn DEF getFileSystemByDisplayName, PCs
  <2>4. CASE End(c, "error") /\ UNCHANGED cfs
    BY <1>5, <2>1, <2>4, CallFails DEF getFileSystemByDisplayName
  <2> QED  BY <1>5, <2>2, <2>3, <2>4
           DEF getFileSystemByDisplayName, Return, Fail, Listed
<1>6. ASSUME NEW c \in Callers, CreateFileSystem(c)
      PROVE  \E f \in FsIDs : Contract!Make(c, f)
  <2>1. PICK f \in FsIDs : FileSystemMade(c, f) /\ cfs' = [cfs EXCEPT ![c] = f]
    BY <1>6 DEF CreateFileSystem
  <2>2. contractCall' = [contractCall EXCEPT ![c] = After(c)]
    BY <1>6, <2>1, CallMoves DEF CreateFileSystem, TypeInv, TypeOK, Goto
  <2>3. After(c) = [contractCall[c] EXCEPT !.asset = f]
    BY <1>6, <2>1, StatusIs DEF After, CreateFileSystem, CallOf, PCs, TypeInv, TypeOK,
                Goto, contractCall
  <2> QED  BY <1>6, <2>1, <2>2, <2>3, AssetMade
           DEF CreateFileSystem, Contract!Make, Contract!Has
<1>7. ASSUME NEW c \in Callers, CreateFileSystemFails(c)
      PROVE  (\E f \in FsIDs : Contract!MakeUnknown(c, f)) \/ Contract!Fail(c)
  <2>1. pc[c] = "createFileSystem" /\ End(c, "error") /\ UNCHANGED <<req, cfs>>
    BY <1>7 DEF CreateFileSystemFails, Fail, Return, locals
  <2>2. CASE UNCHANGED service
    BY <2>1, <2>2, CallFails DEF service
  <2>3. ASSUME NEW f \in FsIDs, FileSystemMade(c, f)
        PROVE  Contract!MakeUnknown(c, f)
    <3>1. contractCall' = [contractCall EXCEPT ![c].status = "failed"]
      BY <2>1, CallEnds
    <3> QED  BY <2>1, <2>3, <3>1, AssetMade DEF Contract!MakeUnknown, Contract!Ends
  <2> QED  BY <1>7, <2>2, <2>3 DEF CreateFileSystemFails
<1>8. ASSUME NEW c \in Callers, awaitFileSystem(c)
      PROVE  Contract!Fail(c) \/ Quiet
  BY <1>8, CallGoesOn, CallFails DEF awaitFileSystem, Poll, Return, Fail, PCs, service, locals
<1>9. ASSUME NEW c \in Callers, findExport(c)
      PROVE  Contract!Fail(c) \/ Quiet
  BY <1>9, CallGoesOn, CallFails DEF findExport, Fail, PCs, service
<1>10. ASSUME NEW c \in Callers, CreateExport(c)
       PROVE  Quiet
  BY <1>10, CallGoesOn DEF CreateExport, ExportMade, PCs
<1>11. ASSUME NEW c \in Callers, CreateExportFails(c)
       PROVE  Contract!Fail(c)
  <2>1. pc[c] = "createExport" /\ End(c, "error") /\ UNCHANGED <<fsState, fsName, req, cfs>>
    BY <1>11 DEF CreateExportFails, ExportMade, Fail, Return, locals, service
  <2> QED  BY <2>1, CallFails
<1>12. ASSUME NEW c \in Callers, awaitExport(c)
       PROVE  Contract!ReturnPV(c) \/ Contract!Fail(c) \/ Quiet
  <2>1. pc[c] = "awaitExport" /\ UNCHANGED <<assetLife, fsState, fsName, req, cfs>>
    BY <1>12 DEF awaitExport, service, locals, assetLife
  <2>2. CASE End(c, "ok")
    <3>1. /\ contractCall[c].status = "provisioning" /\ contractCall[c].asset = cfs[c]
          /\ cfs[c] \in FsIDs /\ req[c] # None
      BY <2>1, CallNow DEF TypeInv, CallsOK, CallOK, Building
    <3>2. contractCall' = [contractCall EXCEPT ![c].status = "pv"]
      BY <2>1, <2>2, <3>1, CallEnds
    <3>3. assetLife[cfs[c]] \in {"ready", "gone"}
      BY <2>1, <3>1, LifeIs DEF ConsInv, CallConsistent, Pending, assetLife, TypeInv,
         TypeOK, States, Dying
    <3> QED  BY <2>1, <3>1, <3>2, <3>3
             DEF Contract!ReturnPV, Contract!Provisioning, Contract!Ends
  <2>3. CASE End(c, "error")
    BY <2>1, <2>3, CallFails
  <2>4. CASE Goto(c, pc[c])
    BY <2>1, <2>4, CallGoesOn DEF PCs
  <2> QED  BY <1>12, <2>2, <2>3, <2>4 DEF awaitExport, Poll, Return, Fail
<1>13. ASSUME NEW c \in Callers, DeleteExport(c)
       PROVE  Contract!Fail(c) \/ Quiet
  BY <1>13, CallGoesOn, CallFails DEF DeleteExport, Return, PCs, locals
<1>14. ASSUME NEW c \in Callers, DeleteFileSystem(c)
       PROVE  Contract!Remove(c) \/ Contract!Fail(c)
  <2>1. pc[c] = "deleteFileSystem" /\ UNCHANGED <<fsName, req, cfs>>
    BY <1>14 DEF DeleteFileSystem, locals
  <2>2. PICK status \in DeleteAnswers(fsState[cfs[c]], Exports(cfs[c]) # {}) :
          /\ fsState' = IF status = "ok" THEN [fsState EXCEPT ![cfs[c]] = "DELETING"]
                        ELSE fsState
          /\ End(c, IF Tolerated(status) THEN "ok" ELSE "error")
    BY <1>14 DEF DeleteFileSystem, Return
  <2>3. CASE status = "ok"
    BY <2>1, <2>2, <2>3, AssetRemoved
  <2>4. CASE status = "404"
    <3>1. fsState[cfs[c]] \in Dying
      BY <2>2, <2>4 DEF DeleteAnswers, Dying
    <3> QED  BY <2>1, <2>2, <2>4, <3>1, AssetRemoved
  <2>5. CASE status = "409"
    BY <2>1, <2>2, <2>5, CallFails DEF Tolerated
  <2> QED  BY <2>2, <2>3, <2>4, <2>5 DEF DeleteAnswers
<1>15. ASSUME NEW c \in Callers, DeleteFails(c)
       PROVE  Contract!Remove(c) \/ Contract!Fail(c)
  <2>1. End(c, "error") /\ UNCHANGED <<fsName, req, cfs>>
    BY <1>15 DEF DeleteFails, Fail, locals
  <2>2. CASE UNCHANGED fsState /\ pc[c] \in Removing
    BY <2>1, <2>2, CallFails DEF Removing
  <2>3. CASE /\ pc[c] = "deleteFileSystem"
             /\ fsState' = [fsState EXCEPT ![cfs[c]] = "DELETING"]
    BY <2>1, <2>3, AssetRemoved
  <2> QED  BY <1>15, <2>2, <2>3 DEF DeleteFails, Removing
<1>16. ASSUME NEW c \in Callers, Collect(c)
       PROVE  Contract!Collect(c)
  <2>1. contractCall[c].status \in {"pv", "deleted", "failed"}
    BY <1>16, CallNow DEF Collect
  <2>2. contractCall' = [contractCall EXCEPT ![c] = After(c)]
    BY <1>16, CallMoves DEF Collect, TypeInv, TypeOK
  <2>3. After(c) = [status |-> "idle", claim |-> None, asset |-> None]
    BY <1>16, StatusIs DEF After, Collect, CallOf, PCs, TypeInv, TypeOK
  <2>4. UNCHANGED <<assetLife, fsName>>
    BY <1>16 DEF Collect, service, assetLife
  <2> QED  BY <2>1, <2>2, <2>3, <2>4 DEF Contract!Collect, Contract!Idle
<1>17. ASSUME UNCHANGED <<fsState, fsName, pc, req, result, cfs>>
       PROVE  Quiet
  BY <1>17 DEF assetLife, contractCall
<1>18. ASSUME NEW f \in FsIDs, FileSystemProgress(f)
       PROVE  Contract!Progress(f) \/ Quiet
  <2>1. UNCHANGED <<fsName, contractCall>>
    BY <1>18 DEF FileSystemProgress, locals, contractCall
  <2>2. ASSUME NEW s \in States, fsState' = [fsState EXCEPT ![f] = s]
        PROVE  assetLife' = [assetLife EXCEPT ![f] = LifeOf(s)]
    BY <2>2, LifeMoves
  <2>3. assetLife[f] = LifeOf(fsState[f]) /\ [assetLife EXCEPT ![f] = assetLife[f]] = assetLife
    BY DEF assetLife
  <2>4. CASE fsState[f] = "CREATING" /\ fsState' = [fsState EXCEPT ![f] = "ACTIVE"]
    <3>1. LifeOf("CREATING") = "making" /\ LifeOf("ACTIVE") = "ready" /\ "ACTIVE" \in States
      BY LifeIs DEF States
    <3> QED  BY <2>1, <2>2, <2>3, <2>4, <3>1 DEF Contract!Progress
  <2>5. CASE fsState[f] \in Dying /\ \E s \in Dying : fsState' = [fsState EXCEPT ![f] = s]
    <3>1. PICK s \in Dying : fsState' = [fsState EXCEPT ![f] = s]
      BY <2>5
    <3>2. s \in States /\ LifeOf(s) = "gone" /\ LifeOf(fsState[f]) = "gone"
      BY <2>5, LifeIs DEF States, Dying
    <3> QED  BY <2>1, <2>2, <2>3, <3>1, <3>2
  <2> QED  BY <1>18, <2>4, <2>5 DEF FileSystemProgress, NextStates, Dying
<1>19. ASSUME NEW c \in Callers, Step(c)
       PROVE  Contract!Work(c) \/ Quiet
  BY <1>3, <1>4, <1>5, <1>6, <1>7, <1>8, <1>9, <1>10, <1>11, <1>12, <1>13, <1>14, <1>15,
     <1>19 DEF Step, Contract!Work
<1>20. ASSUME NEW r \in Requests PROVE r.claim \in Claims
  OBVIOUS
<1>21. ASSUME NEW pv \in pvs PROVE pv.fs \in FsIDs
  BY DEF TypeInv, TypeOK, PVs
<1>22. ASSUME NEW c \in Callers, Call(c) \/ Collect(c)
       PROVE  Contract!Next
  BY <1>1, <1>2, <1>16, <1>20, <1>21, <1>22 DEF Call, Contract!Next
<1>23. ASSUME \/ \E claim \in Claims : Release(claim)
              \/ \E e \in ExpIDs : ExportProgress(e)
              \/ \E m \in MountTargets : MountTargetProgress(m)
              \/ UNCHANGED vars
       PROVE  Quiet
  BY <1>17, <1>23 DEF Release, ExportProgress, MountTargetProgress, vars, service, locals
<1> QED
  BY <1>18, <1>19, <1>22, <1>23 DEF Next, Contract!Next

\* The file storage plugin implements the plugin interface with one asset for all PVs
\* of a claim, for any number of callers, file systems and faults, whether or not the
\* callers serialise: a failing Provision removes nothing, and Delete returns nil only
\* for a file system that is going or gone, unless the service answers 404 to rejected
\* credentials.
THEOREM FssImplementsContract ==
    ASSUME "auth" \notin Faults
    PROVE  Spec => KeepsContract
<1>1. Init => ConsInv
  BY DEF Init, ConsInv, CallConsistent, Removing
<1>2. Init => Contract!Init
  BY StatusIs, LifeIs DEF Init, Contract!Init, Contract!Idle, contractCall, assetLife,
     CallOf, PCs, States
<1>3. TypeInv /\ ConsInv /\ [Next]_vars => [Contract!Next]_(Contract!vars)
  BY NextKeeps
<1> QED
  BY <1>1, <1>2, <1>3, InitType, NextType, NextCons, PTL
     DEF Spec, KeepsContract, Contract!Spec
=============================================================================
