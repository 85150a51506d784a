-------------------------- MODULE ClaimLock_proofs --------------------------
(***************************************************************************)
(* Mutual exclusion of the leaders of a claim, for any number of           *)
(* controllers and any durations for which LeaseCovers holds, that is,     *)
(*     LeaseDuration >= RenewDeadline + Second + 9 * MaxDelay              *)
(* and nothing takes longer than MaxDelay.                                 *)
(*                                                                         *)
(* A leader, and a controller whose update was accepted, is the holder of  *)
(* the record.  Another one could write only after it has looked at this   *)
(* very record for LeaseDuration, and by then the leader has given up.     *)
(* The last renewal may have been one that nobody noticed: it began at     *)
(* most a Second after the record was first written, and the leader had    *)
(* its answer 3 * MaxDelay later.  From there on it began its last but one *)
(* try before RenewDeadline, and two tries take 6 * MaxDelay.              *)
(***************************************************************************)
EXTENDS ClaimLock, TLAPS

\* What it takes that the leader has given up when another one takes over: 15 and 10
\* seconds cover requests of up to 4/9 of a second.
LeaseCovers == Prompt /\ LeaseDuration >= RenewDeadline + Second + 9 * MaxDelay

\* The update of k was accepted, which k does not know yet.
Won(k) == step[k] = "answer" /\ ok[k]

\* Only a running elector has a request under way.
IdleRests == \A k \in Controllers : role[k] = "idle" => step[k] = "rest"

Held == \A k \in Controllers : Leads(k) \/ Won(k) => holder = k

\* Who writes without a conflict is the holder or has seen the lease expire.
Decided ==
    \A j \in Controllers :
        step[j] = "update" /\ j \in fresh =>
            holder = j \/ (j \in current /\ observed[j] >= LeaseDuration)

\* A try that began long enough after what was observed.
Lapsed ==
    \A j \in Controllers : step[j] = "get" /\ lapsed[j] => observed[j] >= LeaseDuration

\* Nobody has seen the record for longer than it exists.
Stamped == holder # None /\ stamp <= Second => \A j \in current : observed[j] <= stamp

\* For how long the record has been seen at most when the try of the holder began in the
\* second of the record, so that its update may change nothing.
Unnoticed ==
    \A k \in Controllers : \A j \in current :
        holder = k /\ soon[k] =>
            /\ step[k] = "get" => observed[j] <= Second + delay[k]
            /\ step[k] = "update" => observed[j] <= Second + MaxDelay + delay[k]

\* For how long it has been seen at most with an accepted update, and after its answer.
Recent ==
    \A k \in Controllers : \A j \in current :
        /\ Won(k) => observed[j] <= Second + 2 * MaxDelay + delay[k]
        /\ Leads(k) => observed[j] <= since[k] + Second + 3 * MaxDelay

\* How long ago the last success of a leader can be.
GivesUp(k) ==
    /\ role[k] = "lead" =>
         /\ step[k] = "get" => since[k] < RenewDeadline + delay[k]
         /\ step[k] = "update" => since[k] < RenewDeadline + MaxDelay + delay[k]
         /\ step[k] = "answer" => since[k] < RenewDeadline + 2 * MaxDelay + delay[k]
         /\ since[k] < RenewDeadline + 3 * MaxDelay
    /\ role[k] = "last" =>
         /\ step[k] = "get" => since[k] < RenewDeadline + 3 * MaxDelay + delay[k]
         /\ step[k] = "update" => since[k] < RenewDeadline + 4 * MaxDelay + delay[k]
         /\ step[k] = "answer" => since[k] < RenewDeadline + 5 * MaxDelay + delay[k]
         /\ since[k] < RenewDeadline + 6 * MaxDelay

LeadersGiveUp == \A k \in Controllers : GivesUp(k)

LockInv ==
    /\ TypeOK /\ IdleRests /\ Held /\ Decided /\ Lapsed /\ Stamped /\ Unnoticed
    /\ Recent /\ LeadersGiveUp

-----------------------------------------------------------------------------
\* No record is held at the start and no elector runs.
LEMMA InitLock == Init => LockInv
<1> SUFFICES ASSUME Init PROVE LockInv
  OBVIOUS
<1> USE LockAssumption DEF Init
<1>1. TypeOK
  <2>1. /\ delay \in [Controllers -> 0..MaxDelay] /\ begun \in [Controllers -> 0..Before]
        /\ observed \in [Controllers -> 0..LongAgo]
        /\ since \in [Controllers -> 0..LeaseDuration]
    BY DEF LongAgo, Before
  <2>2. /\ ok \in [Controllers -> BOOLEAN]
        /\ soon \in [Controllers -> BOOLEAN] /\ lapsed \in [Controllers -> BOOLEAN]
    OBVIOUS
  <2>3. /\ role \in [Controllers -> {"idle", "acquire", "lead", "last"}]
        /\ step \in [Controllers -> {"rest", "get", "update", "answer"}]
    OBVIOUS
  <2>4. stamp \in 0..Before /\ faultsLeft \in 0..MaxFaults
    BY DEF Before
  <2> QED  BY <2>1, <2>2, <2>3, <2>4 DEF TypeOK
<1>2. IdleRests /\ Held /\ Decided /\ Lapsed
  BY DEF IdleRests, Held, Decided, Lapsed, Won, Leads
<1>3. Stamped /\ Unnoticed /\ Recent
  BY DEF Stamped, Unnoticed, Recent, Won, Leads
<1>4. LeadersGiveUp
  BY DEF LeadersGiveUp, GivesUp
<1> QED  BY <1>1, <1>2, <1>3, <1>4 DEF LockInv

\* Timers stay within their ranges.
LEMMA NextType == TypeOK /\ [Next]_vars => TypeOK'
<1> SUFFICES ASSUME TypeOK, [Next]_vars PROVE TypeOK'
  OBVIOUS
<1> USE LockAssumption DEF TypeOK, Step, LastStep, Fault, record, now, timers, LongAgo, Before
<1>1. ASSUME NEW k \in Controllers, NewLeaderElector(k) PROVE TypeOK'
  BY <1>1 DEF NewLeaderElector
<1>2. ASSUME NEW k \in Controllers, tryAcquireOrRenew(k) PROVE TypeOK'
  BY <1>2 DEF tryAcquireOrRenew
<1>3. ASSUME NEW k \in Controllers, Get(k) PROVE TypeOK'
  <2>1. CASE holder = k \/ (k \in current /\ lapsed[k])
    BY <1>3, <2>1 DEF Get
  <2>2. CASE ~(holder = k \/ (k \in current /\ lapsed[k]))
    <3>1. /\ LastStep(k, "rest") /\ ok' = [ok EXCEPT ![k] = FALSE]
          /\ observed' \in [Controllers -> 0..LongAgo]
          /\ fresh' \subseteq Controllers /\ current' \subseteq Controllers
          /\ UNCHANGED <<holder, renewed, stamp, role, since, faultsLeft>>
      BY <1>3, <2>2 DEF Get
    <3> QED  BY <3>1
  <2> QED  BY <2>1, <2>2
<1>4. ASSUME NEW k \in Controllers, RequestFails(k) PROVE TypeOK'
  BY <1>4 DEF RequestFails
<1>5. ASSUME NEW k \in Controllers, Update(k) PROVE TypeOK'
  <2>1. CASE k \in fresh /\ Write(k)
    BY <1>5, <2>1 DEF Update, Write
  <2>2. CASE k \in fresh /\ WriteSame(k)
    BY <1>5, <2>2 DEF Update, WriteSame
  <2>3. CASE k \notin fresh
    BY <1>5, <2>3 DEF Update
  <2> QED  BY <1>5, <2>1, <2>2, <2>3 DEF Update
<1>6. ASSUME NEW k \in Controllers, Answer(k) PROVE TypeOK'
  BY <1>6 DEF Answer
<1>7. ASSUME NEW k \in Controllers, AnswerLost(k) PROVE TypeOK'
  BY <1>7 DEF AnswerLost
<1>8. ASSUME NEW k \in Controllers, RunReturns(k) PROVE TypeOK'
  BY <1>8 DEF RunReturns, Ends
<1>9. ASSUME NEW k \in Controllers, Crash(k) PROVE TypeOK'
  BY <1>9 DEF Crash, Ends
<1>10. CASE ClaimChanges
  BY <1>10 DEF ClaimChanges
<1>11. CASE Tick
  BY <1>11 DEF Tick, InTime, Until
<1>12. CASE UNCHANGED vars
  BY <1>12 DEF vars
<1> QED  BY <1>1, <1>2, <1>3, <1>4, <1>5, <1>6, <1>7, <1>8, <1>9, <1>10, <1>11, <1>12 DEF Next, Try

\* The variables keep their types: no timer of the electors runs out of its range.
THEOREM TypeCorrect == Spec => []TypeOK
<1>1. Init => TypeOK
  BY InitLock DEF LockInv
<1> QED  BY <1>1, NextType, PTL DEF Spec

-----------------------------------------------------------------------------
\* A request is under way only where an elector runs.
LEMMA NextIdleRests == TypeOK /\ IdleRests /\ [Next]_vars => IdleRests'
<1> SUFFICES ASSUME TypeOK, IdleRests, [Next]_vars PROVE IdleRests'
  OBVIOUS
<1> USE LockAssumption DEF TypeOK, IdleRests, Step, LastStep, Fault, record, now, timers
<1>1. ASSUME NEW k \in Controllers, NewLeaderElector(k) PROVE IdleRests'
  BY <1>1 DEF NewLeaderElector
<1>2. ASSUME NEW k \in Controllers, tryAcquireOrRenew(k) PROVE IdleRests'
  BY <1>2 DEF tryAcquireOrRenew
<1>3. ASSUME NEW k \in Controllers, Get(k) PROVE IdleRests'
  BY <1>3 DEF Get
<1>4. ASSUME NEW k \in Controllers, RequestFails(k) PROVE IdleRests'
  BY <1>4 DEF RequestFails
<1>5. ASSUME NEW k \in Controllers, Update(k) PROVE IdleRests'
  BY <1>5 DEF Update, Write, WriteSame
<1>6. ASSUME NEW k \in Controllers, Answer(k) PROVE IdleRests'
  BY <1>6 DEF Answer
<1>7. ASSUME NEW k \in Controllers, AnswerLost(k) PROVE IdleRests'
  BY <1>7 DEF AnswerLost
<1>8. ASSUME NEW k \in Controllers, RunReturns(k) PROVE IdleRests'
  BY <1>8 DEF RunReturns, Ends
<1>9. ASSUME NEW k \in Controllers, Crash(k) PROVE IdleRests'
  BY <1>9 DEF Crash, Ends
<1>10. CASE ClaimChanges
  BY <1>10 DEF ClaimChanges
<1>11. CASE Tick
  BY <1>11 DEF Tick
<1>12. CASE UNCHANGED vars
  BY <1>12 DEF vars
<1> QED  BY <1>1, <1>2, <1>3, <1>4, <1>5, <1>6, <1>7, <1>8, <1>9, <1>10, <1>11, <1>12 DEF Next, Try

\* Tries after a success are counted against RenewDeadline, the last one after it.
LEMMA NextGivesUp == ASSUME LeaseCovers PROVE TypeOK /\ IdleRests /\ LeadersGiveUp /\ [Next]_vars => LeadersGiveUp'
<1> SUFFICES ASSUME TypeOK, IdleRests, LeadersGiveUp, [Next]_vars PROVE LeadersGiveUp'
  OBVIOUS
<1> USE LockAssumption, LeaseCovers DEF LeaseCovers, TypeOK, IdleRests, LeadersGiveUp, GivesUp, Step, LastStep, Fault, record, now, timers
<1>1. ASSUME NEW k \in Controllers, NewLeaderElector(k) PROVE LeadersGiveUp'
  BY <1>1 DEF NewLeaderElector
<1>2. ASSUME NEW k \in Controllers, tryAcquireOrRenew(k) PROVE LeadersGiveUp'
  BY <1>2 DEF tryAcquireOrRenew
<1>3. ASSUME NEW k \in Controllers, Get(k) PROVE LeadersGiveUp'
  BY <1>3 DEF Get
<1>4. ASSUME NEW k \in Controllers, RequestFails(k) PROVE LeadersGiveUp'
  BY <1>4 DEF RequestFails
<1>5. ASSUME NEW k \in Controllers, Update(k) PROVE LeadersGiveUp'
  BY <1>5 DEF Update, Write, WriteSame
<1>6. ASSUME NEW k \in Controllers, Answer(k) PROVE LeadersGiveUp'
  BY <1>6 DEF Answer
<1>7. ASSUME NEW k \in Controllers, AnswerLost(k) PROVE LeadersGiveUp'
  BY <1>7 DEF AnswerLost
<1>8. ASSUME NEW k \in Controllers, RunReturns(k) PROVE LeadersGiveUp'
  BY <1>8 DEF RunReturns, Ends
<1>9. ASSUME NEW k \in Controllers, Crash(k) PROVE LeadersGiveUp'
  BY <1>9 DEF Crash, Ends
<1>10. CASE ClaimChanges
  BY <1>10 DEF ClaimChanges
<1>11. CASE Tick
  BY <1>11 DEF Tick, InTime, Until, Leads
<1>12. CASE UNCHANGED vars
  BY <1>12 DEF vars
<1> QED  BY <1>1, <1>2, <1>3, <1>4, <1>5, <1>6, <1>7, <1>8, <1>9, <1>10, <1>11, <1>12 DEF Next, Try

\* Nobody but the holder writes while somebody leads or has won: the lease that the
\* other one would have to see expire is longer than a leader goes on.
LEMMA WriterHolds ==
    ASSUME LeaseCovers, LockInv, NEW k \in Controllers, Leads(k) \/ Won(k),
           NEW j \in Controllers, step[j] = "update", j \in fresh
    PROVE  j = k
<1>1. holder = k
  BY DEF LockInv, Held
<1>2. SUFFICES ASSUME j # k PROVE FALSE
  OBVIOUS
<1>3. j \in current /\ observed[j] >= LeaseDuration
  BY <1>1, <1>2 DEF LockInv, Decided
<1>4. CASE Leads(k)
  <2>1. since[k] < RenewDeadline + 6 * MaxDelay
    BY <1>4, LockAssumption DEF LockInv, TypeOK, LeadersGiveUp, GivesUp, Leads
  <2> QED  BY <1>3, <1>4, <2>1, LockAssumption DEF LeaseCovers, LockInv, TypeOK, Recent
<1>5. CASE Won(k)
  BY <1>3, <1>5, LockAssumption DEF LeaseCovers, LockInv, TypeOK, Recent
<1> QED  BY <1>4, <1>5

\* An accepted update of another controller finds no leader and no winner.
LEMMA NextHeld == ASSUME LeaseCovers PROVE LockInv /\ [Next]_vars => Held'
<1> SUFFICES ASSUME LockInv, [Next]_vars PROVE Held'
  OBVIOUS
<1> USE LockAssumption, LeaseCovers DEF LockInv, TypeOK, IdleRests, Held, Won, Leads, Step, LastStep, Fault, record, now, timers
<1>1. ASSUME NEW k \in Controllers, NewLeaderElector(k) PROVE Held'
  BY <1>1 DEF NewLeaderElector
<1>2. ASSUME NEW k \in Controllers, tryAcquireOrRenew(k) PROVE Held'
  BY <1>2 DEF tryAcquireOrRenew
<1>3. ASSUME NEW k \in Controllers, Get(k) PROVE Held'
  BY <1>3 DEF Get
<1>4. ASSUME NEW k \in Controllers, RequestFails(k) PROVE Held'
  BY <1>4 DEF RequestFails
<1>5. ASSUME NEW k \in Controllers, Update(k) PROVE Held'
  <2>1. CASE k \in fresh
    <3>1. \A i \in Controllers : Leads(i) \/ Won(i) => k = i
      BY <1>5, <2>1, WriterHolds DEF Update
    <3> QED  BY <1>5, <2>1, <3>1 DEF Update, Write, WriteSame
  <2>2. CASE k \notin fresh
    BY <1>5, <2>2 DEF Update, Write, WriteSame
  <2> QED  BY <2>1, <2>2
<1>6. ASSUME NEW k \in Controllers, Answer(k) PROVE Held'
  BY <1>6 DEF Answer
<1>7. ASSUME NEW k \in Controllers, AnswerLost(k) PROVE Held'
  BY <1>7 DEF AnswerLost
<1>8. ASSUME NEW k \in Controllers, RunReturns(k) PROVE Held'
  BY <1>8 DEF RunReturns, Ends
<1>9. ASSUME NEW k \in Controllers, Crash(k) PROVE Held'
  BY <1>9 DEF Crash, Ends
<1>10. CASE ClaimChanges
  BY <1>10 DEF ClaimChanges
<1>11. CASE Tick
  BY <1>11 DEF Tick
<1>12. CASE UNCHANGED vars
  BY <1>12 DEF vars
<1> QED  BY <1>1, <1>2, <1>3, <1>4, <1>5, <1>6, <1>7, <1>8, <1>9, <1>10, <1>11, <1>12 DEF Next, Try

\* What was decided on the current version stays decided until it is written.
LEMMA NextDecided == LockInv /\ [Next]_vars => Decided'
<1> SUFFICES ASSUME LockInv, [Next]_vars PROVE Decided'
  OBVIOUS
<1> USE LockAssumption DEF LockInv, TypeOK, IdleRests, Decided, Lapsed, Step, LastStep, Fault, record, now, timers, LongAgo
<1>1. ASSUME NEW k \in Controllers, NewLeaderElector(k) PROVE Decided'
  BY <1>1 DEF NewLeaderElector
<1>2. ASSUME NEW k \in Controllers, tryAcquireOrRenew(k) PROVE Decided'
  BY <1>2 DEF tryAcquireOrRenew
<1>3. ASSUME NEW k \in Controllers, Get(k) PROVE Decided'
  BY <1>3 DEF Get
<1>4. ASSUME NEW k \in Controllers, RequestFails(k) PROVE Decided'
  BY <1>4 DEF RequestFails
<1>5. ASSUME NEW k \in Controllers, Update(k) PROVE Decided'
  BY <1>5 DEF Update, Write, WriteSame
<1>6. ASSUME NEW k \in Controllers, Answer(k) PROVE Decided'
  BY <1>6 DEF Answer
<1>7. ASSUME NEW k \in Controllers, AnswerLost(k) PROVE Decided'
  BY <1>7 DEF AnswerLost
<1>8. ASSUME NEW k \in Controllers, RunReturns(k) PROVE Decided'
  BY <1>8 DEF RunReturns, Ends
<1>9. ASSUME NEW k \in Controllers, Crash(k) PROVE Decided'
  BY <1>9 DEF Crash, Ends
<1>10. CASE ClaimChanges
  BY <1>10 DEF ClaimChanges
<1>11. CASE Tick
  BY <1>11 DEF Tick, Until
<1>12. CASE UNCHANGED vars
  BY <1>12 DEF vars
<1> QED  BY <1>1, <1>2, <1>3, <1>4, <1>5, <1>6, <1>7, <1>8, <1>9, <1>10, <1>11, <1>12 DEF Next, Try

\* A lease that had run out when the try began is still out.
LEMMA NextLapsed == LockInv /\ [Next]_vars => Lapsed'
<1> SUFFICES ASSUME LockInv, [Next]_vars PROVE Lapsed'
  OBVIOUS
<1> USE LockAssumption DEF LockInv, TypeOK, IdleRests, Lapsed, Step, LastStep, Fault,
                           record, now, timers, LongAgo, Before
<1>1. ASSUME NEW k \in Controllers, NewLeaderElector(k) PROVE Lapsed'
  BY <1>1 DEF NewLeaderElector
<1>2. ASSUME NEW k \in Controllers, tryAcquireOrRenew(k) PROVE Lapsed'
  BY <1>2 DEF tryAcquireOrRenew
<1>3. ASSUME NEW k \in Controllers, Get(k) PROVE Lapsed'
  BY <1>3 DEF Get
<1>4. ASSUME NEW k \in Controllers, RequestFails(k) PROVE Lapsed'
  BY <1>4 DEF RequestFails
<1>5. ASSUME NEW k \in Controllers, Update(k) PROVE Lapsed'
  BY <1>5 DEF Update, Write, WriteSame
<1>6. ASSUME NEW k \in Controllers, Answer(k) PROVE Lapsed'
  BY <1>6 DEF Answer
<1>7. ASSUME NEW k \in Controllers, AnswerLost(k) PROVE Lapsed'
  BY <1>7 DEF AnswerLost
<1>8. ASSUME NEW k \in Controllers, RunReturns(k) PROVE Lapsed'
  BY <1>8 DEF RunReturns, Ends
<1>9. ASSUME NEW k \in Controllers, Crash(k) PROVE Lapsed'
  BY <1>9 DEF Crash, Ends
<1>10. CASE ClaimChanges
  BY <1>10 DEF ClaimChanges
<1>11. CASE Tick
  BY <1>11 DEF Tick, InTime, Until
<1>12. CASE UNCHANGED vars
  BY <1>12 DEF vars
<1> QED  BY <1>1, <1>2, <1>3, <1>4, <1>5, <1>6, <1>7, <1>8, <1>9, <1>10, <1>11, <1>12 DEF Next, Try

\* A record is observed after it was written, and that after its RenewTime.
LEMMA NextStamped == LockInv /\ [Next]_vars => Stamped'
<1> SUFFICES ASSUME LockInv, [Next]_vars PROVE Stamped'
  OBVIOUS
<1> USE LockAssumption DEF LockInv, TypeOK, IdleRests, Stamped, Step, LastStep, Fault,
                           record, now, timers, LongAgo, Before
<1>1. ASSUME NEW k \in Controllers, NewLeaderElector(k) PROVE Stamped'
  BY <1>1 DEF NewLeaderElector
<1>2. ASSUME NEW k \in Controllers, tryAcquireOrRenew(k) PROVE Stamped'
  BY <1>2 DEF tryAcquireOrRenew
<1>3. ASSUME NEW k \in Controllers, Get(k) PROVE Stamped'
  BY <1>3 DEF Get
<1>4. ASSUME NEW k \in Controllers, RequestFails(k) PROVE Stamped'
  BY <1>4 DEF RequestFails
<1>5. ASSUME NEW k \in Controllers, Update(k) PROVE Stamped'
  BY <1>5 DEF Update, Write, WriteSame
<1>6. ASSUME NEW k \in Controllers, Answer(k) PROVE Stamped'
  BY <1>6 DEF Answer
<1>7. ASSUME NEW k \in Controllers, AnswerLost(k) PROVE Stamped'
  BY <1>7 DEF AnswerLost
<1>8. ASSUME NEW k \in Controllers, RunReturns(k) PROVE Stamped'
  BY <1>8 DEF RunReturns, Ends
<1>9. ASSUME NEW k \in Controllers, Crash(k) PROVE Stamped'
  BY <1>9 DEF Crash, Ends
<1>10. CASE ClaimChanges
  BY <1>10 DEF ClaimChanges
<1>11. CASE Tick
  BY <1>11 DEF Tick, InTime, Until
<1>12. CASE UNCHANGED vars
  BY <1>12 DEF vars
<1> QED  BY <1>1, <1>2, <1>3, <1>4, <1>5, <1>6, <1>7, <1>8, <1>9, <1>10, <1>11, <1>12 DEF Next, Try

\* What the others see goes on while the holder reads and writes, each within MaxDelay.
LEMMA NextUnnoticed == ASSUME LeaseCovers PROVE LockInv /\ [Next]_vars => Unnoticed'
<1> SUFFICES ASSUME LockInv, [Next]_vars PROVE Unnoticed'
  OBVIOUS
<1> USE LockAssumption, LeaseCovers DEF LockInv, TypeOK, IdleRests, Unnoticed, Stamped, Step, LastStep, Fault,
                           record, now, timers, LongAgo, Before, LeaseCovers
<1>1. ASSUME NEW k \in Controllers, NewLeaderElector(k) PROVE Unnoticed'
  BY <1>1 DEF NewLeaderElector
<1>2. ASSUME NEW k \in Controllers, tryAcquireOrRenew(k) PROVE Unnoticed'
  <2>1. soon'[k] => stamp <= Second
    BY <1>2 DEF tryAcquireOrRenew
  <2>2. holder = k /\ soon'[k] => \A j \in current : observed[j] <= Second
    BY <2>1
  <2>3. step'[k] = "get" /\ delay'[k] = 0
    BY <1>2 DEF tryAcquireOrRenew
  <2>4. \A i \in Controllers \ {k} :
            step'[i] = step[i] /\ delay'[i] = delay[i] /\ soon'[i] = soon[i]
    BY <1>2 DEF tryAcquireOrRenew
  <2>5. UNCHANGED <<holder, current, observed>>
    BY <1>2 DEF tryAcquireOrRenew
  <2> QED  BY <2>2, <2>3, <2>4, <2>5
<1>3. ASSUME NEW k \in Controllers, Get(k) PROVE Unnoticed'
  BY <1>3 DEF Get
<1>4. ASSUME NEW k \in Controllers, RequestFails(k) PROVE Unnoticed'
  BY <1>4 DEF RequestFails
<1>5. ASSUME NEW k \in Controllers, Update(k) PROVE Unnoticed'
  BY <1>5 DEF Update, Write, WriteSame
<1>6. ASSUME NEW k \in Controllers, Answer(k) PROVE Unnoticed'
  BY <1>6 DEF Answer
<1>7. ASSUME NEW k \in Controllers, AnswerLost(k) PROVE Unnoticed'
  BY <1>7 DEF AnswerLost
<1>8. ASSUME NEW k \in Controllers, RunReturns(k) PROVE Unnoticed'
  BY <1>8 DEF RunReturns, Ends
<1>9. ASSUME NEW k \in Controllers, Crash(k) PROVE Unnoticed'
  BY <1>9 DEF Crash, Ends
<1>10. CASE ClaimChanges
  BY <1>10 DEF ClaimChanges
<1>11. CASE Tick
  BY <1>11 DEF Tick, InTime, Until
<1>12. CASE UNCHANGED vars
  BY <1>12 DEF vars
<1> QED  BY <1>1, <1>2, <1>3, <1>4, <1>5, <1>6, <1>7, <1>8, <1>9, <1>10, <1>11, <1>12 DEF Next, Try

\* Time passes for the observers as it does for the leader.
LEMMA NextRecent == ASSUME LeaseCovers PROVE LockInv /\ [Next]_vars => Recent'
<1> SUFFICES ASSUME LockInv, [Next]_vars PROVE Recent'
  OBVIOUS
<1> USE LockAssumption, LeaseCovers DEF LeaseCovers, LockInv, TypeOK, IdleRests, Held, Recent, Won, Leads, Step, LastStep, Fault,
                           record, now, timers, LongAgo
<1>1. ASSUME NEW k \in Controllers, NewLeaderElector(k) PROVE Recent'
  BY <1>1 DEF NewLeaderElector
<1>2. ASSUME NEW k \in Controllers, tryAcquireOrRenew(k) PROVE Recent'
  BY <1>2 DEF tryAcquireOrRenew
<1>3. ASSUME NEW k \in Controllers, Get(k) PROVE Recent'
  BY <1>3 DEF Get
<1>4. ASSUME NEW k \in Controllers, RequestFails(k) PROVE Recent'
  BY <1>4 DEF RequestFails
<1>5. ASSUME NEW k \in Controllers, Update(k) PROVE Recent'
  <2>1. CASE k \in fresh
    <3>1. \A i \in Controllers : Leads(i) \/ Won(i) => k = i
      BY <1>5, <2>1, WriterHolds DEF Update
    <3>2. CASE Write(k)
      BY <3>2 DEF Write
    <3>3. CASE WriteSame(k)
      <4>1. \A j \in current : observed[j] <= Second + 2 * MaxDelay
        BY <1>5, <3>3 DEF Update, WriteSame, Unnoticed
      <4> QED  BY <1>5, <3>1, <3>3, <4>1 DEF Update, WriteSame
    <3> QED  BY <1>5, <2>1, <3>2, <3>3 DEF Update
  <2>2. CASE k \notin fresh
    BY <1>5, <2>2 DEF Update
  <2> QED  BY <2>1, <2>2
<1>6. ASSUME NEW k \in Controllers, Answer(k) PROVE Recent'
  BY <1>6 DEF Answer
<1>7. ASSUME NEW k \in Controllers, AnswerLost(k) PROVE Recent'
  BY <1>7 DEF AnswerLost
<1>8. ASSUME NEW k \in Controllers, RunReturns(k) PROVE Recent'
  BY <1>8 DEF RunReturns, Ends
<1>9. ASSUME NEW k \in Controllers, Crash(k) PROVE Recent'
  BY <1>9 DEF Crash, Ends
<1>10. CASE ClaimChanges
  BY <1>10 DEF ClaimChanges
<1>11. CASE Tick
  BY <1>11 DEF Tick, InTime, Until, LeadersGiveUp, GivesUp
<1>12. CASE UNCHANGED vars
  BY <1>12 DEF vars
<1> QED  BY <1>1, <1>2, <1>3, <1>4, <1>5, <1>6, <1>7, <1>8, <1>9, <1>10, <1>11, <1>12 DEF Next, Try

-----------------------------------------------------------------------------
\* At most one controller leads for a claim, whatever is lost, refused or goes unnoticed
\* and whoever crashes, if requests take no longer than MaxDelay and the lease is longer
\* than RenewDeadline by the resolution of the record and nine of them.  The code ensures
\* the durations of the lease and not those of the requests.
THEOREM AtMostOneLeader ==
    ASSUME Prompt, LeaseDuration >= RenewDeadline + Second + 9 * MaxDelay
    PROVE  Spec => []OneLeader
<1>1. LeaseCovers
  BY DEF LeaseCovers
<1>2. LockInv /\ [Next]_vars => LockInv'
  BY <1>1, NextType, NextIdleRests, NextGivesUp, NextHeld, NextDecided, NextLapsed, NextStamped,
     NextUnnoticed, NextRecent DEF LockInv
<1>3. LockInv => OneLeader
  BY DEF LockInv, Held, OneLeader
<1> QED  BY <1>2, <1>3, InitLock, PTL DEF Spec
=============================================================================
