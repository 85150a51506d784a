# A TLA+ verification of the OCI volume provisioner

The OCI volume provisioner is a Kubernetes controller that makes storage on
Oracle Cloud Infrastructure for persistent volume claims and removes it again.
This directory models its two storage plugins, the choice of the availability
domain, the controller that calls them, the lock of a claim and the start of the
process in TLA+, checks them with TLC on small instances and proves with TLAPS
that they are safe and that both plugins implement their interface. `PROJECT.json` lists the runs, the
source lines behind each definition, the hazards, the findings and the theorems.

## 1. Inventory of the system

| component | source | state | operations |
|---|---|---|---|
| block plugin | `pkg/provisioner/block/block.go` | none of its own; volumes at the service | `Provision`, `waitForVolumeAvailable`, `Delete`, size arithmetic |
| file storage plugin | `pkg/provisioner/fss/fss.go` | none of its own; file systems, exports and mount targets at the service | `Provision` (get or create file system, then export), three waits, `Delete` |
| dispatcher | `pkg/provisioner/core` | the chosen plugin, a cache of nodes | `chooseAvailabilityDomain`, `findADByName`, `Provision`, `Delete` (identity check), `Ready` |
| OCI client and configuration | `pkg/oci/client` | configuration, compartment (written lazily), timeout | `FromConfig`, `LoadConfig`, `Validate`, `CompartmentOCID` |
| instance metadata | `pkg/oci/instancemeta` | none | `Get` |
| errors, name prefix | `pkg/provisioner/errors.go`, `utils.go` | none | `IsNotFound`, `GetPrefix` |
| process start, signals | `cmd/main.go`, `pkg/signals` | stop channel | start-up order, first and second signal |
| plugin interface | `pkg/provisioner/plugin` | none | `Provision`, `Delete` |
| provision controller (vendored) | `vendor/.../external-storage/lib/controller` | work queues, claim and PV caches | `syncClaim`, `syncVolume`, `provisionClaimOperation`, `deleteVolumeOperation` |
| leader election (vendored) | `vendor/.../external-storage/lib/leaderelection` | a record in an annotation of the claim, what each elector has observed of it | `acquire`, `renew`, `tryAcquireOrRenew` |
| logging | `pkg/logging` | flag variables, the first configuration | `Logger`, `FieldsFromEnv` |
| test doubles | mocks | none | - |

How they interact. Worker goroutines of the controller call the dispatcher,
which picks an availability domain from the claim or from the labels of the
nodes and calls the one plugin the process was started with. A plugin sends
requests to the OCI services and polls until resources are ready; it returns a
PV, which the controller saves and Kubernetes binds. When a claim goes away the
PV becomes `Released` and the controller calls `Delete` until it reports
success. Claims and PVs are worked on concurrently, a failed call is repeated
after the resync period, and what a failed call left at the service is not
recorded anywhere but at the service. A worker takes the lock of its claim,
starts a goroutine that provisions, and gives the lock up when events of the
claim tell of the outcome or when its term is over; the goroutine goes on.

What is hard here:

* **deadlines**: in `block.Provision` one context spans create, wait and
  cleanup, next to a poll timer of the same length;
* **lost answers**: a create may have had its effect although the call failed;
  the block plugin starts over, the file storage plugin looks for leftovers;
* **partial failure**: `Delete` of a file system takes two requests; cleanup
  after a failed wait may fail itself;
* **overlap**: several calls for one claim may be in flight; listing and
  creating are not atomic;
* **inputs that change between attempts**: domain and mount target;
* **a cache behind the choice of the domain**: nodes are read from an informer
  that starts and changes beside the calls; names, suffixes and zone labels must
  fit together;
* **a lock that ends before the work it protects**, held by clocks and by requests
  that are late, lost or in conflict;
* **undoing what was done**: saving a PV may fail, or seem to, and the undo
  deletes storage;
* **crashes** between the steps of provisioning and of deleting;
* **start and stop**: configuration read lazily by concurrent workers, an informer
  that has to be registered before it is started, signals at any time;
* **arithmetic**: sizes in bytes and MiB, rounding, a minimum, int64 overflow; the
  32-bit sum of hash and index that picks a zone.

The properties that make each part correct are listed with the runs (section 4);
`PROJECT.json` ties each hazard to the properties that would catch it.

## 2. Modules

| module | models |
|---|---|
| `VolumeSize` | capacity to size in MiB, and the capacity of the PV (pure operators) |
| `BlockProvisioner` | the block plugin: calls of `Provision` and `Delete`, the block storage service, time |
| `FssProvisioner` | the file storage plugin: calls of `Provision` and `Delete`, the file storage service, callers that retry |
| `AvailabilityDomain` | the dispatcher: choice, lookup and label of the domain, node informer, `Ready` |
| `PluginContract` | what a plugin promises to its callers (abstract) |
| `BlockRefinement`, `FssRefinement` | the plugins as implementations of `PluginContract` |
| `ProvisionController` | the controller with its workers, goroutines and caches, Kubernetes, crashes; calls `PluginContract` |
| `ClaimLock` | the lock of a claim, with clocks |
| `ClientConfig` | configuration of the client (pure operators) |
| `Startup` | `main`, signals, construction of clients and plugins, first steps of the workers |
| `VolumeSize_proofs`, `BlockProvisioner_proofs`, `FssProvisioner_proofs`, `AvailabilityDomain_proofs`, `ProvisionController_proofs`, `ClaimLock_proofs`, `Startup_proofs` | lemmas and theorems |
| `MCBlock`, `MCFss`, `MCDomain`, `MCController` | requests, names and symmetry sets for TLC |

`BlockProvisioner` extends `VolumeSize`, `Startup` extends `ClientConfig`; a
proof module and a refinement extend the module they are about, and the proofs
about the plugins extend the refinements.

How the modules compose. `ProvisionController` instantiates `PluginContract` and
shares its variables, so the controller meets every plugin that keeps the
contract; the two refinements show that ours do, the block plugin as an
exclusive one and the file storage plugin as a shared one. The contract allows a
PV for an asset that is gone by now (somebody may delete it before the answer
is there) and promises nothing on failure. `ProvisionController` has no clocks:
its `acquire` may succeed whenever nobody else leads, which is `OneLeader` of
`ClaimLock`. The informer that `AvailabilityDomain` waits for is started in
`Startup`.

### State and actions

Neither plugin keeps state between calls. A call is one entry of `pc`, `req`,
`result` and of the variables that hold its local values (`cvol`; `cfs` and
`cexp`). Each action is the code from one remote request to the next: nothing
else can be observed in between. What runs before the first request and the
checks that end a call early belong to `Provision` and `Delete`.

**Block plugin.** `volState`, `volSize` and `volClaim` are the service.
`ctxLeft[c]` is the time left to the context of block.go:189 (or 265), from
which every later context of the call is derived; `pollLeft[c]` is the time
left to the timer of `wait.PollImmediate`, which starts after the first poll
has failed to end the wait. `Tick` lets time pass for all calls. While
`ctxLeft[c] > 0` a request is answered or fails; at 0 the SDK returns the error
of the context. A create or delete that is on its way then may still take
effect. `Cleanup` is lines 200-209, `Region` lines 213-220. RESTORING is
treated by the code like PROVISIONING and has no state of its own. Size,
capacity and rounding keep their arithmetic, with the unit (1 MiB) and the
largest integer as parameters; sums wrap as int64 does and division truncates.

**File storage plugin.** `mtState`, `fsState`, `expState` and the fields beside
them are the service; `GONE` is a resource so long deleted that the service
answers 404 and lists nothing. `Poll` is one round of the closures given to
`PollImmediate`. The waits have a timer (five minutes) and no other deadline,
so a wait may end at any poll that finds the resource not ready: the timer
needs no counter. Other faults draw on `faultsLeft`. `released` holds the
claims that are gone. With `Serialised` the callers behave as the controller
means to: at most one call per claim, none once the claim has a PV, and only
PVs of released claims are deleted. Without it, calls overlap freely; that
includes the deletes by which the controller undoes a PV it could not save.

**Dispatcher.** `cluster` is what the nodes carry, `cache` what the informer has
seen of it. `Provision` is the code up to the request to the identity service:
the selector of the claim (either of its two keys, absent as `None`) or the
zones in the cache. `findADByName` is that request, `PluginProvision` the call
of the plugin and the zone label. `attempts` is a history variable: it records
the calls that reached the plugin, for the properties. Names are sequences of
tokens with `":"` among them, so that suffixes and the part after the colon are
computed; the order of zones is given (`SortedLabels`), the index of a zone in the
sorted list of those seen is the number of zones that sort before it (`Place`), and
the FNV hash is a constant function, since no property depends on its values. A claim name is
claim, set and id, and `HashString` is the part of it that is hashed.
`DomainAssumption` states what the cloud controller guarantees of labels: no
zone is a suffix of a foreign domain's name. A selector may name anything.

**Plugin contract.** An asset is none, being made, ready or gone; a call is idle,
at work, or has a result. For the block plugin a volume is the asset, for the
file storage plugin the file system. Rejected credentials (`"auth"`) are left
out of `block_faults` and of the runs of file storage: with them a delete reports
success for a resource that stays, which the code accepts (block.go:269-275,
fss.go:425 and 437). The properties and theorems about deletes say so.

**Controller.** `seen` is the informer's cache of claims, `queue` the claim
queue, `worker` the state of a worker that has a claim in process, `op` the
goroutines of `OnStartedLeading`, `volWorker` the workers of the volume queue.
A worker ends by an event (`told`), by the claim itself, or at any time by its
term limit or a lost lock; its goroutine is then no longer `attached`, and its
error is read by nobody. `orphans` records the assets that were given up where a
log, an event or a crash says so: `Accounted` is about all others. OCIDs that
nothing refers to any more serve as fresh ones, so that behaviours are unbounded.
`syncClaim` drops a claim that is cached as bound or is not cached; such a claim
leaves the queue when the informer sees the change. The branch of `syncClaim` for
a claim that this process leads already (controller.go:789) is not reached,
since the queue gives a claim to one worker at a time and the elector is
forgotten when `Run` returns. The PV of a delete is read afresh for `shouldDelete`,
but the plugin gets the one of the cache, whose annotation may be that of before an
edit (`CachedIdentity`). PVs are those that this provisioner has made, with the
reclaim policy Delete: the checks for others (controller.go:885-895) never refuse
one. The paths for Kubernetes before 1.5 are left out.

**Lock.** `holder` is the identity in the record; `current` are the controllers
whose observed record is the one stored, `fresh` those that read the claim in
its present version, so that their update does not conflict. `tryAcquireOrRenew`,
`Get`, `Update` and `Answer` are one call of `tryAcquireOrRenew` with its two
requests, each up to `MaxDelay` ticks on its way. The times of a record are
`metav1.Time`, which JSON keeps in whole seconds. `stamp` is the age of the record's
`RenewTime`, `begun[k]` that of `now` of a try, and `soon[k]` says that the two may be
in the same second. A renewal keeps `AcquireTime` and sets `LeaderTransitions` to 0
(the counter is only filled in for another holder's record), so the first renewal after
an acquisition always differs from the record, and a later one (`renewed`) differs by
`RenewTime` only: in the same second it may write what is there (`WriteSame`), also
when a new elector of the same holder does so after a term has ended. The others then
do not restart `observedTime`; the server may or may not give the claim a new version.
What a writer keeps itself has the time in nanoseconds and is not what it reads next.
Role `last` is the poll that `wait.Poll` makes after its deadline. Jitter and retry
period are left out: waiting between tries may take any time up to the renew deadline.
With `Prompt` no request or answer takes longer than `MaxDelay` and a leader that
rests tries again in time; the code sets no timeout for requests, so that this is a
condition and not a fact.

**Start.** `pc` is the place in `main`; what a step reads from outside is chosen
at that step. `Fatal` and `Exit` end the process and record where. The workers'
`CompartmentOCID` is two steps with a torn value in between.

**External.** The services are not in this repository. They are modelled from
how the plugins use them and from the comments of the SDK: a display name is
not unique; a create makes a resource with a fresh OCID; resources move forward
only; a file system is not deleted while it is exported
(`filestorage_client.go:306`); a 404 to a delete may stand for rejected credentials; and no second export of a file system is made in
an export set (fss.go:232). A request may be lost, be refused, or take effect
and lose its answer.

**Left out**: log lines, labels, mount options, the file system type, the
choice among private IPs, the paging of `ListExports` (read as one), the name
prefix (one constant).

## 3. Findings

1. `block_slow_volume`. A volume that is slow to become AVAILABLE is leaked.
   The cleanup of block.go:201-206 derives its context from the one whose expiry
   ended the wait. `ContextEndsWait`, checked and proved, shows that this is how
   *every* slow volume ends: the poll timer never gets to fire.
2. `fss_domain_change`. File systems are looked up in the domain of the current
   attempt only. If the choice made from node labels changes between attempts, a
   second file system is made and the first survives `Delete`.
3. `ctl_shared`. A PV that could not be saved is undone by deleting its storage,
   also when saving failed because the PV is there already. With file storage this
   takes nothing but a second `Provision` of the claim before the PV of the first
   is bound. There are two ways to one: a leader's term is 30 seconds and a
   `Provision` may take minutes, so the goroutine goes on without the lock beside
   that of the next leader, though controller.go:913 says that "only the leader is
   tasked with provisioning"; and the check for an earlier success looks for a PV
   `pvc-<UID>` while the plugins name PVs after the OCID.

Observed on the way, without a run of their own:

* With block volumes the undo of finding 3 takes a lost answer: the PV exists, every
  further try to save it fails, and its volume is deleted. With `"answer"` among its
  `Faults`, `ctl_safe` violates `BoundKeepsStorage`.
* If the mount target of a claim is changed between attempts, an export is left
  that no PV names; the file system can then never be deleted
  (`filestorage_client.go:306`: "verify that no remaining export resources still
  reference it"). With two mount targets for a claim `fss_retry` violates
  `EventuallyDeleted`.
* Without exponential back-off (main.go:40) the queue does not count failures:
  `FailedProvisionThreshold`, "the threshold for max number of retries on failures
  of Provision" (controller.go:248), limits nothing. The liveness of the controller
  rests on that.
* The logger is built (main.go:64) before the log flags are parsed (line 72), so
  they have no effect.
* `Get` (instance_metadata.go:52) "returns the cached metadata", but there is no
  cache: the second request of the start may fail after the first was answered.
* The clients for file storage and for the virtual network get neither the proxy
  nor the certificates of the environment (client.go:153-161); `NODE_NAME` is
  required and not used; a configuration file that is a YAML null makes `Complete`
  panic; requests to the API server have no timeout.

## 4. Runs

| run | bounds | shows |
|---|---|---|
| `block_faults` | 2 callers, 2 claims, 2 volumes, timeouts of 2 ticks, all faults but rejected credentials | `TypeOK`, `PVsBacked`, `NotShared`, `DeleteOkMeansGone`, `ContextEndsWait`, `PVVolumesSpared`, `KeepsContract` |
| `block_live` | 1 caller, every capacity 0..31 with a unit of 4 bytes, all rounding parameters and access modes, all faults but a failing delete | `CapacityCovered`, `AbandonedOnlyIf`, `BoundedStepsEnd` |
| `block_slow_volume` | 1 caller, no faults | finding 1 |
| `fss_overlap` | 2 callers, 1 claim with and without a mount target, 2 file systems and exports, 1 fault, no rejected credentials, not serialised | `TypeOK`, `PVsConsistent`, `DeleteOkMeansGone`, `KeepsContract` |
| `fss_retry` | 2 callers, 1 claim, 3 file systems and exports, 4 faults, no rejected credentials, serialised | `OneFileSystemPerName`, `DeleteTerminatesAll`, `EventuallyProvisioned`, `EventuallyDeleted` |
| `fss_domain_change` | 1 caller, 1 claim, 2 domains, 1 fault | finding 2 |
| `domain_choice` | 1 caller, 3 domains, 3 nodes, 3 claims with and without selectors and 3 of a stateful set, hashes of 4 bits, 2 attempts | `TypeOK`, `NoBlindRefusal`, `ZoneLabelOnNode`, `RetryStays`, `SpreadOverZones` |
| `ctl_safe` | 1 controller, 1 claim, 2 assets, 2 goroutines, 2 tries to save, 3 faults of 6 kinds | `TypeOK`, `BoundKeepsStorage`, `Accounted` |
| `ctl_live` | 1 controller with 1 worker, 2 claims, calls for one of them never return, 2 goroutines, 1 fault of 3 kinds (a lost request, a failing `Provision`, a crash) | `EventuallyBound`, `EventuallyRemoved` |
| `ctl_shared` | 1 controller, 1 claim, shared plugin, no faults | finding 3 |
| `lock` | 2 electors, lease 11, deadline 1, delay 1, second 1, prompt requests, 2 faults | `TypeOK`, `OneLeader`, `EventuallyLed` |
| `start_up` | 2 workers, every configuration, every step may fail or hang, 3 signals | `TypeOK`, `OneCompartment`, `OnlySignalsEnd`, `RunsConfigured`, `StartsOrEnds`, `SignalsEnd` |

Why the bounds are enough. Conflicts between plugin calls are between two calls, or
a call and a PV: two callers and two volumes make them. Timeouts of two ticks tell
"before", "at the last moment" and "after" apart for both clocks, and the calls'
clocks run out of step. The unit of 4 and the maximum of 31 hit each residue, the
minimum between two units, and overflow. A failing delete is a fault of
`block_faults`; `block_live` leaves it out, since `AbandonedOnlyIf` excuses every
volume where it may happen. Four faults break an attempt, its retry, the retry of
that and a delete; timeouts of the waits are not counted as faults and happen any
number of times. The proofs (section 6) remove the bounds for every safety property
and for both refinements; what the bounds still limit is liveness.

Claims share nothing in the controller but its workers, so one claim is enough
except where workers run out (`ctl_live`). Two goroutines and two assets make a
claim be provisioned twice at once, the first by a goroutine whose worker has lost
its term; to the claim, its PVs and the plugin that is no different from the
goroutine of another controller. Where more goroutines would start, one waits until
another ends. Two tries tell "again" from "the last time". In `lock` the lease is
the shortest that `AtMostOneLeader` (section 6) asks for; with one tick less TLC finds
two leaders, so the condition is tight, and with `Prompt` false it finds them with
this lease too. With 15 and 10 seconds the condition is that a request takes at most 4/9
of a second (ticks of a ninth of a second: 135, 90, 9 and 4). The code ensures this
nowhere; how much slower requests may be before the lock fails in practice depends on
the jitter that the model leaves out.

Callers and OCIDs are interchangeable; the runs of safety properties with
several of them use that symmetry.

`CHECK_DEADLOCK FALSE` is set where every claim may be gone and its PV deleted:
nothing is left to do then; where the process may end; and in the run of the dispatcher, where the bound
on attempts is reached. Its properties compare two attempts, so two are
enough; calls share nothing but the cache, so one caller is. Hashes of 4 bits
stand for 32: 16 and 2^32 leave the same remainder for two and three zones. The
sum wraps for the claims of the stateful set. `SpreadOverZones` leaves out two neighbours of
which only one wraps: they may share a zone, as 2^32 is no multiple of three.

## 5. Fairness

`BlockProvisioner`: weak fairness of the steps that are bounded by a context,
since the SDK returns when the context is done, and of the clock. The metadata
request of `Region` is *not* fair: `http.DefaultClient` has no timeout. Nothing
is assumed of the service or of the callers.

`FssProvisioner`: weak fairness of the steps of a call (the HTTP client of the
SDK has a timeout of 60 s, and waits end with their timer), of the progress of
resources, and of taking results; strong fairness of starting `Provision` or
`Delete` for a claim, since the controller puts a failed claim or PV back into
its queue after each resync without limit (`exponentialBackOffOnError` is
false). Faults are finitely many: with a fault in each attempt nothing could be
said.

`ProvisionController`: weak fairness of informers, resync (every 15 seconds), the
worker of a claim (it takes a lock that is free, and its term ends), the goroutines
and volume workers, in the code and in calls of the plugin that do not hang, and the
PV controller of Kubernetes. Strong fairness of `syncClaim`, since the queue is first
in, first out. `ctl_live` has one controller, which may always take back the lock it
holds; with several it would have to be assumed that a lock can be had in the end
(`EventuallyLed`). Nobody has to delete a claim. A goroutine that hangs
hangs for ever; `ctl_live` shows that this costs a worker one term and not more.

`ClaimLock`: time passes and the electors run. `Startup`: `main`, the handler, the
factory and the informer run; requests that hang do so for ever (`Hangs`) and
nobody has to send a signal.

## 6. Proofs

Every invariant and action property of a passing run is proved, and so are both
refinements, for any number of callers, controllers, claims, OCIDs, goroutines,
ticks and faults. The assumptions are those of the modules: `SizeAssumption`,
`BlockAssumption`, `TimeoutAssumption` (the client timeout is at most the block
timeout; both are three minutes), `FssAssumption`, `DomainAssumption` (zones and
domains fit, section 2), `HashAssumption` (hash and index are below the width),
`ControllerAssumption`, `LockAssumption` and `StartupAssumption`. Those not explained
here say that values of different kinds differ and that bounds are numbers. A theorem
with a condition of its own has it in its statement: on rejected credentials
(`BlockImplementsContract`, and of file storage `DeleteIsDurable`, `NothingLeft` and
`FssImplementsContract`), on the callers, on the plugin, or on the durations of the lock.

**Block plugin**

* **`VolumeCoversCapacity`**: without overflow `roundUpSize` is the least number
  of units that hold the capacity (`RoundUpCovers`); with overflow it is not
  positive (`RoundUpOverflow`), and a size that is not positive is refused.
* **Types.** `TypeOK` is not inductive: that a poll reads the state of a volume
  needs the call to have one. `TypeInv` adds which fields a call has at each
  step (`CallOK`).
* **`WaitEndsByContext`** from `ClockInv`: while a call polls, its context has
  no more time left than its timer. The context was started first and is no
  longer; both run at the same rate. `TimeoutAssumption` is used here only.
* **`NeverShared`** from `OwnInv`: every volume that a call or a PV holds has
  been made, so a create, which takes an OCID not yet used, hands out another.
  **`PVVolumesAlwaysSpared`** is an action property and follows from the same: the
  volume that a cleanup deletes is held by that call, hence by no PV.
* **`PVsAlwaysBacked`**, **`AbandonedOnlyThen`**, **`DeleteIsDurable`**: volumes
  only move forward (`VolumesMoveForward`), so what a poll or a delete saw stays
  true until the result is taken.
* **`CapacityAlwaysCovered`** from `SizeInv`: the volume of a call or PV has the
  size computed from its request. It needs `OwnInv`, as another call must not
  change that volume.
* **`BlockImplementsContract`**, unless rejected credentials may be answered by a
  404: each action is a step of `PluginContract` or a stutter. `OwnInv` keeps the
  asset of a call fresh, `BackedInv` makes it ready where a PV is returned, and a
  `Delete` that succeeds found its volume or removed it.

**File storage plugin**

* **`PVsAlwaysConsistent`** from `ConsInv`: the file system a call has found or
  made carries its claim, its export is of that file system, and both are past
  creation once the call has passed the respective wait.
* **`OneFileSystem`**, for serialised callers, from `NameInv`: calls for one
  claim exclude each other (`Exclusive`), and while a call stands between its
  listing and its create there is still no file system of that name and domain
  (`StillNone`), so that the create keeps names unique (`Unique`).
* **`DeleteIsDurable`**, unless rejected credentials may be answered by a 404, from
  `DelInv`.
* **`NothingLeft`**, on the same condition, for serialised callers whose requests for a claim name one
  domain, from `LeftInv`: only file systems of claims that are gone are being
  deleted, and the file system of a PV, or of the delete under way, is the last
  living one of its claim. The run `fss_domain_change` shows that the second
  condition is needed.
* **`FssImplementsContract`**, on the condition of `DeleteIsDurable`: a file system found by name is one that the contract
  lets a shared plugin settle for (`ConsInv`). No serialisation is assumed.

**Dispatcher.** The zone that is chosen always exists: the places of n zones are
0 to n-1 (`PlaceIs`, `PlaceTaken`, by the cardinality of initial segments) and the
slot is a remainder of n. A zone belongs to one domain (`SameZoneSameDomain`,
from `DomainAssumption`).

* **`RefusalsSeen`** from `ReadyInv`: calls begin after `Ready`, `Ready` after the
  first list.
* **`LabelsFit`** and **`RetriesStay`** from `CallInv` and `AttemptInv`: a call of a
  claim without a selector carries the zone chosen from the zones it saw, and an
  attempt the domain and label of that zone.
* **`ClaimsSpread`**: sums that differ by less than n have different remainders
  (`RemaindersDiffer`), and if both wrap they still differ by as much (`SumWraps`).

**Controller**

* **Types.** `LinkInv` ties each goroutine and each volume worker to its call of the
  plugin: which statuses the call can have at which step, and whose asset it is.
* **`NothingUnaccounted`**, for both kinds of plugin, with crashes and lost answers.
  `Accounted` itself is kept by every step, given `LinkInv` and `DoneInv`: a delete
  that reported success, and a volume worker that is about to remove the PV object,
  stand for an asset that is gone.
* **`StorageKept`** and **`UndoSparesSaved`**, for an exclusive plugin and if no
  answer to the creation of a PV is lost, from `ExclusiveInv`: an asset is held by one
  goroutine at a time, which then is alone with it (no PV, no volume worker); volume
  workers have to do with released PVs only; what is offered, saved or bound is
  ready; a bound claim owns its PV. Both conditions are needed: `ctl_shared` violates
  `UndoOnlyUnsaved` without the first, and `ctl_safe` with `"answer"` among its faults
  violates `BoundKeepsStorage`. With `BlockImplementsContract` this is a statement
  about block volumes, with and without the lock: nothing in it assumes that a claim
  is provisioned by one goroutine only.

Each action has a lemma that says what it does (`SaveMoves`, `CrashMoves` ...); the
proofs of the invariants use only these.

**Lock**

* **`AtMostOneLeader`**, if requests are prompt and `LeaseDuration >= RenewDeadline +
  Second + 9 * MaxDelay`, from `LockInv`: a leader, and a controller whose update was
  accepted and that does not know it yet, holds the record (`Held`). Whoever could write
  over it without a conflict holds it too or has seen this very record for
  `LeaseDuration` (`Decided`, from `Lapsed`: the lease had expired when the try
  began). How long can others have seen the record when the leader's renewal succeeds?
  Nobody has seen it for longer than it exists (`Stamped`), so when a try begins in
  the second of the record they have for at most `Second` (`Unnoticed`); three delays
  later its answer is there, and the update may have changed nothing. So they have
  seen it for at most `Second + 3 * MaxDelay` longer than the last success is ago
  (`Recent`). A leader gives up before `RenewDeadline + 6 * MaxDelay`
  (`LeadersGiveUp`): the try that starts just before the deadline and the one that
  `wait.Poll` adds take three delays each. Hence the 9. That an idle elector has no
  request under way (`IdleRests`) keeps `RunReturns` from breaking the rest.

**Start**

* **`CompartmentIsOne`** and **`ConfiguredBeforeRun`** from `MainInv` and `WorkerInv`:
  from the constructor of the plugin on, the compartment is the one the workers are to
  see, so a worker that still writes it (the metadata may name an empty one) writes
  what is there.
* **`SignalsOnly`** from `SignalInv`: signals in the channel and signals handled are
  not more than those sent, and the stop channel is closed by a handled signal only.
  Panics of workers are not modelled.

Only model-checked: the liveness properties (`BoundedStepsEnd`,
`EventuallyProvisioned`, `EventuallyDeleted`, `EventuallyBound`, `EventuallyRemoved`,
`EventuallyLed`, `StartsOrEnds`, `SignalsEnd`), since fairness is outside the
prover's reach, and the violations of section 3, which are about one behaviour.

## 7. Plan

Done: both plugins and their contract, the dispatcher, the controller, the lock of
a claim, configuration, start and shutdown; proofs of all safety properties and of
both refinements.

Next, in this order:

1. Action properties of the controller that say who may take an asset: only an
   operation that holds it or the worker of a released PV.
2. What is left of `StorageKept` for file storage: the conditions on calls of one claim
   under which a shared plugin keeps the storage of a bound claim.
3. What `ProvisionController` takes from `ClaimLock` (at most one leader per claim) as a
   refinement, so that the two need no argument in prose.

## 8. Not modelled

* Test doubles: they exist for unit tests.
* Logging: nothing reads what it keeps, and no property is about it.
* `GetPrefix`, `mapVolumeIDToName`,
  `resolveFSType`, mount options: they fill fields that no code reads, or are not
  called.
* The SDK and the Kubernetes libraries beyond what the modules above use; metrics,
  the class informer and the paths for Kubernetes before 1.5 of the controller;
  deployment manifests.
