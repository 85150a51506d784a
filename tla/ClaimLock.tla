------------------------------ MODULE ClaimLock ------------------------------
(***************************************************************************)
(* The lock of a claim: lib/leaderelection with ProvisionPVCLock           *)
(* (vendored), as lockProvisionClaimOperation configures them.  The lock   *)
(* is a record in an annotation of the claim.  Time passes in ticks; of a  *)
(* record only matters who holds it and whether it is the one that was     *)
(* seen before, of a resource version only whether it is the last.         *)
(*                                                                         *)
(* The times of a record are stored in whole seconds, and a renewal keeps  *)
(* AcquireTime and counts no transition.  A renewal in the second of the   *)
(* renewal before it writes the record that is there, and who has observed *)
(* that one does not notice.                                               *)
(*                                                                         *)
(* The client has no timeout for requests.  Prompt says whether they are   *)
(* answered in time all the same: without it the lock does not exclude.    *)
(***************************************************************************)
EXTENDS Naturals, FiniteSets

CONSTANTS
    Controllers,
    None,
    LeaseDuration, RenewDeadline,   \* 15 and 10 seconds in the code
    Second,                         \* the resolution of the times in a record
    Prompt,                         \* is nothing delayed for longer than MaxDelay?
    MaxDelay,                       \* of a request, and of its answer
    MaxFaults                       \* lost requests and answers, conflicts, crashes

ASSUME LockAssumption ==
    /\ None \notin Controllers
    /\ LeaseDuration \in Nat /\ RenewDeadline \in Nat /\ Second \in Nat
    /\ Prompt \in BOOLEAN /\ MaxDelay \in Nat \ {0} /\ MaxFaults \in Nat

VARIABLES
    holder,     \* HolderIdentity of the record
    renewed,    \* is it a renewal, without a transition?
    stamp,      \* time since its RenewTime, as far as it matters
    current,    \* controllers whose observedRecord is the record
    fresh,      \* controllers that got the claim in its current version
    role,       \* "idle", or in acquire or renew of Run, there maybe in the last poll
    step,       \* of tryAcquireOrRenew
    ok,         \* did the last try succeed, as far as it has got?
    delay,      \* how long the step has taken
    begun,      \* time since now of the try, as far as it matters
    soon,       \* can now be in the same second as RenewTime?
    lapsed,     \* was observedTime LeaseDuration before now?
    observed,   \* time since observedTime
    since,      \* time since the last success of a leader
    faultsLeft

record == <<holder, renewed, stamp, current, fresh>>
now    == <<begun, soon, lapsed>>
timers == <<delay, now, observed, since>>
vars   == <<record, role, step, ok, timers, faultsLeft>>

\* Where observedTime is zero.
LongAgo == LeaseDuration

\* In another second, where a time of a record is zero.
Before == Second + 1

Init ==
    /\ holder = None /\ renewed = FALSE /\ stamp = Before
    /\ current = {} /\ fresh = {}
    /\ role = [k \in Controllers |-> "idle"]
    /\ step = [k \in Controllers |-> "rest"]
    /\ ok = [k \in Controllers |-> FALSE]
    /\ delay = [k \in Controllers |-> 0]
    /\ begun = [k \in Controllers |-> 0]
    /\ soon = [k \in Controllers |-> FALSE]
    /\ lapsed = [k \in Controllers |-> FALSE]
    /\ observed = [k \in Controllers |-> LongAgo]
    /\ since = [k \in Controllers |-> 0]
    /\ faultsLeft = MaxFaults

Fault == faultsLeft > 0 /\ faultsLeft' = faultsLeft - 1

\* A step of k begins.
Step(k, s) == step' = [step EXCEPT ![k] = s] /\ delay' = [delay EXCEPT ![k] = 0]

\* A step of k begins that has no use for the time at which the try began.
LastStep(k, s) ==
    /\ Step(k, s)
    /\ begun' = [begun EXCEPT ![k] = 0]
    /\ soon' = [soon EXCEPT ![k] = FALSE]
    /\ lapsed' = [lapsed EXCEPT ![k] = FALSE]

-----------------------------------------------------------------------------
\* A worker runs a new elector, which has observed the zero record: this is what a
\* claim without an annotation holds.
NewLeaderElector(k) ==
    /\ role[k] = "idle"
    /\ role' = [role EXCEPT ![k] = "acquire"]
    /\ current' = IF holder = None THEN current \cup {k} ELSE current
    /\ UNCHANGED <<holder, renewed, stamp, fresh, step, ok, timers, faultsLeft>>

\* A try begins.  wait.Poll makes one more after its deadline.
tryAcquireOrRenew(k) ==
    /\ role[k] \in {"acquire", "lead"} /\ step[k] = "rest"
    /\ Step(k, "get")
    /\ soon' = [soon EXCEPT ![k] = stamp <= Second]
    /\ lapsed' = [lapsed EXCEPT ![k] = observed[k] >= LeaseDuration]
    /\ role' = [role EXCEPT ![k] = IF @ = "lead" /\ since[k] >= RenewDeadline THEN "last" ELSE @]
    /\ UNCHANGED <<record, ok, begun, observed, since, faultsLeft>>

\* Mutant: every look at the record counts as news of its holder.
GetObserves(k) ==
    LET free == holder \in {k, None} IN
    /\ step[k] = "get"
    /\ fresh' = fresh \cup {k} /\ current' = current \cup {k}
    /\ observed' = [observed EXCEPT ![k] = IF holder = None THEN @ ELSE 0]
    /\ IF free THEN Step(k, "update") /\ UNCHANGED now ELSE LastStep(k, "rest")
    /\ ok' = [ok EXCEPT ![k] = FALSE]
    /\ UNCHANGED <<holder, renewed, stamp, role, since, faultsLeft>>

\* The claim is read.  A record that is another than before is observed now; one
\* that has been observed for LeaseDuration at the start of the try has expired.
Get(k) ==
    LET known == k \in current
        free == holder = k \/ (known /\ lapsed[k])
    IN
    /\ step[k] = "get"
    /\ fresh' = fresh \cup {k} /\ current' = current \cup {k}
    /\ observed' = [observed EXCEPT ![k] = IF known THEN @ ELSE 0]
    /\ IF free THEN Step(k, "update") /\ UNCHANGED now ELSE LastStep(k, "rest")
    /\ ok' = [ok EXCEPT ![k] = FALSE]
    /\ UNCHANGED <<holder, renewed, stamp, role, since, faultsLeft>>

\* A request fails, or does not reach the server.
RequestFails(k) ==
    /\ step[k] \in {"get", "update"} /\ Fault
    /\ LastStep(k, "rest")
    /\ ok' = [ok EXCEPT ![k] = FALSE]
    /\ UNCHANGED <<record, role, observed, since>>

\* The claim gets a record of k.  Nobody has observed it, k neither: what k keeps has
\* the time in nanoseconds.
Write(k) ==
    /\ holder' = k /\ renewed' = (holder = k) /\ stamp' = begun[k]
    /\ current' = {} /\ fresh' = {}

\* The record of k is what the claim holds already, and the server may leave the
\* version of a claim that stays the same.
WriteSame(k) ==
    /\ holder = k /\ renewed /\ soon[k]
    /\ fresh' \in {fresh, {}}
    /\ UNCHANGED <<holder, renewed, stamp, current>>

\* Mutant: the version is not sent along.
UpdateBlind(k) ==
    /\ step[k] = "update"
    /\ LastStep(k, "answer")
    /\ ok' = [ok EXCEPT ![k] = TRUE]
    /\ Write(k)
    /\ UNCHANGED <<role, observed, since, faultsLeft>>

\* Mutant: the record has no identity.
UpdateBlank(k) ==
    /\ step[k] = "update"
    /\ LastStep(k, "answer")
    /\ ok' = [ok EXCEPT ![k] = k \in fresh]
    /\ IF k \in fresh THEN holder' = "" /\ current' = {} /\ fresh' = {} ELSE UNCHANGED <<holder, current, fresh>>
    /\ UNCHANGED <<renewed, stamp, role, observed, since, faultsLeft>>

\* The server takes the record unless the claim has changed since k read it.
Update(k) ==
    /\ step[k] = "update"
    /\ LastStep(k, "answer")
    /\ ok' = [ok EXCEPT ![k] = k \in fresh]
    /\ IF k \in fresh THEN Write(k) \/ WriteSame(k) ELSE UNCHANGED record
    /\ UNCHANGED <<role, observed, since, faultsLeft>>

\* With the answer k becomes, or stays, the leader.
Answer(k) ==
    /\ step[k] = "answer"
    /\ LastStep(k, "rest")
    /\ IF ok[k] THEN /\ role' = [role EXCEPT ![k] = "lead"]
                     /\ current' = current \ {k}
                     /\ observed' = [observed EXCEPT ![k] = 0]
                     /\ since' = [since EXCEPT ![k] = 0]
       ELSE UNCHANGED <<role, current, observed, since>>
    /\ UNCHANGED <<holder, renewed, stamp, fresh, ok, faultsLeft>>

\* k takes the update for failed and still has the record it observed before.
AnswerLost(k) ==
    /\ step[k] = "answer" /\ ok[k] /\ Fault
    /\ LastStep(k, "rest")
    /\ ok' = [ok EXCEPT ![k] = FALSE]
    /\ UNCHANGED <<record, role, observed, since>>

\* The elector of k is gone with all it knew.  The record stays.
Ends(k) ==
    /\ role' = [role EXCEPT ![k] = "idle"]
    /\ LastStep(k, "rest")
    /\ ok' = [ok EXCEPT ![k] = FALSE]
    /\ current' = current \ {k} /\ fresh' = fresh \ {k}
    /\ observed' = [observed EXCEPT ![k] = LongAgo]
    /\ since' = [since EXCEPT ![k] = 0]
    /\ UNCHANGED <<holder, renewed, stamp>>

\* Run returns: the task has ended or the term is over, which a leader looks at after
\* each renewal, or the last poll of a leader has failed.
RunReturns(k) ==
    /\ role[k] # "idle" /\ step[k] = "rest"
    /\ role[k] = "lead" => ok[k]
    /\ Ends(k)
    /\ UNCHANGED faultsLeft

\* The worker is gone in the middle of a try; one that comes back has the identity
\* it had, as after a panic (a new process takes another one).
Crash(k) == role[k] # "idle" /\ Fault /\ Ends(k)

\* Somebody writes to the claim and leaves the annotation alone.
ClaimChanges ==
    /\ fresh # {} /\ Fault
    /\ fresh' = {}
    /\ UNCHANGED <<holder, renewed, stamp, current, role, step, ok, timers>>

Leads(k) == role[k] \in {"lead", "last"}

Until(t, max) == IF t < max THEN t + 1 ELSE t

\* Requests are answered in time, and a leader stops trying in time.
InTime ==
    \A k \in Controllers :
        /\ step[k] # "rest" => delay[k] < MaxDelay
        /\ Leads(k) /\ step[k] = "rest" => role[k] = "lead" /\ since[k] < RenewDeadline

Tick ==
    /\ Prompt => InTime
    /\ stamp' = Until(stamp, Before)
    /\ begun' = [k \in Controllers |->
                   IF step[k] \in {"get", "update"} THEN Until(begun[k], Before) ELSE 0]
    /\ delay' = [k \in Controllers |-> IF step[k] = "rest" THEN 0 ELSE Until(delay[k], MaxDelay)]
    /\ observed' = [k \in Controllers |-> Until(observed[k], LongAgo)]
    /\ since' = [k \in Controllers |->
                   IF Leads(k) THEN Until(since[k], LeaseDuration) ELSE 0]
    /\ UNCHANGED <<holder, renewed, current, fresh, role, step, ok, soon, lapsed, faultsLeft>>

Try(k) == tryAcquireOrRenew(k) \/ Get(k) \/ Update(k) \/ Answer(k)

Next ==
    \/ \E k \in Controllers :
         \/ NewLeaderElector(k) \/ Try(k) \/ RequestFails(k) \/ AnswerLost(k)
         \/ RunReturns(k) \/ Crash(k)
    \/ ClaimChanges \/ Tick

Spec == Init /\ [][Next]_vars

\* The electors run, and time passes.
FairSpec == Spec /\ WF_vars(Tick) /\ \A k \in Controllers : WF_vars(Try(k))

-----------------------------------------------------------------------------
(* Properties *)

TypeOK ==
    /\ holder \in Controllers \cup {None} /\ renewed \in BOOLEAN /\ stamp \in 0..Before
    /\ current \subseteq Controllers /\ fresh \subseteq Controllers
    /\ role \in [Controllers -> {"idle", "acquire", "lead", "last"}]
    /\ step \in [Controllers -> {"rest", "get", "update", "answer"}]
    /\ ok \in [Controllers -> BOOLEAN]
    /\ delay \in [Controllers -> 0..MaxDelay] /\ begun \in [Controllers -> 0..Before]
    /\ soon \in [Controllers -> BOOLEAN] /\ lapsed \in [Controllers -> BOOLEAN]
    /\ observed \in [Controllers -> 0..LongAgo]
    /\ since \in [Controllers -> 0..LeaseDuration]
    /\ faultsLeft \in 0..MaxFaults

\* No two controllers lead at the same time for a claim (what acquire of
\* ProvisionController relies on), through conflicting and delayed updates, lost
\* answers, crashes, electors that start anew and renewals nobody notices.  It takes
\* Prompt and LeaseDuration >= RenewDeadline + Second + 9 * MaxDelay, and of these the
\* code ensures only the two durations.
OneLeader == \A j, k \in Controllers : Leads(j) /\ Leads(k) => j = k

\* The lock of a controller that has crashed or given up can be had: as long as
\* somebody wants it, somebody gets it.
EventuallyLed ==
    \A k \in Controllers :
        role[k] = "acquire" ~> role[k] = "idle" \/ \E j \in Controllers : Leads(j)
=============================================================================
