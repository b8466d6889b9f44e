# Formal models of dynamic-config-k8s

TLA+ models of the programs in this repository, the TLC runs that check them on
small instances, and theorems about them that TLAPS checks for every value of
the constants. The source is the reference: every definition of a component's
module is a translation of the lines that `PROJECT.json` (`map`) names, or is
marked there as something outside the repository (the kubelet, a store, another
process in the pod).

- [The system](#the-system): its parts, their state, how they meet, what is hard
- [The modules](#the-modules): which module is which part of the code
- [The runs](#the-runs): what each run checks, its bounds, its fairness
- [The proofs](#the-proofs)
- [Where the code and its documents part](#where-the-code-and-its-documents-part)
- [What is not modelled](#what-is-not-modelled)
- [Plan](#plan)

## The system

A pod annotated for injection gets an init container and a sidecar (the
*agent*), which fetch a document from a configuration store, resolve and render
it to files on a shared `emptyDir`, and keep the files current. A *node agent*
does the same for CSI volumes, one process for all the pods of a node. An
*operator* renders documents into ConfigMaps and Secrets for `DynamicConfigRender`
objects. The *webhook* injects the agent and keeps its own serving certificate.

| Component | State it keeps | Operations | Meets others through |
|---|---|---|---|
| Agent run loop (`dynamic-config-agent/src/sidecar.rs`, `main.rs`) | in memory: the set it published last, the set the canary holds, the lease and its interval, the resync in flight; on the volume: the files | start (three policies), deliver, resync, canary tick, drift tick, trust tick, renew, reopen the watch, stop | the delivery slot, the `gone` channel, the files, the container's exit code |
| Delivery slot and store watch (`sources.rs`) | one document, newest wins; what the store's stream saw last | deliver, take, watch, fetch | runs on its own task; any task may deliver |
| Rendering (`render.rs`) | nothing between calls; the scratch file beside the output | resolve, check against the schema, render, `write_atomically` | the files |
| Canary (`canary.rs`), trust (`trust.rs`) | the mounted percentage; the mounted material | `admitted`; `moved`, `settled` | files the kubelet rewrites |
| Metrics, readiness, acknowledgement (`metrics.rs`) | gauges, the published fingerprint | recorded by the loop, read over HTTP | atomics shared by the loop, the resync and the server |
| Node agent (`dynamic-config-node-agent/src/csi.rs`, `shared.rs`, `publish.rs`) | `published` targets; the registry: for each document its readers and its watch | NodePublishVolume, NodeUnpublishVolume, claim, release, fan_out | one mutex for the registry, a `stop` signal to each watch, the kubelet's retries |
| Operator (`dynamic-config-operator/src/crds.rs`) | nothing in memory but the attempts per object; the object's status; the target | reconcile, the error policy, requeue | the API server, server-side apply |
| Leader election (`election.rs`) | the lease; each replica's last renewal | claim, renew, stand down | the API server's resource versions; wall clocks |
| Webhook admission (`dynamic-config-webhook/src/annotations.rs`, `patch.rs`, `classes.rs`) | the class cache | admit, refresh | a poll every 30 s |
| Webhook certificate authority (`selfrotate.rs`, `tls.rs`) | the Secret, the webhook configuration's bundle; the certificate being served | hold the lease, rotate, reload | the API server, the kubelet's projection of the Secret |
| Telemetry, deployment manifests | none another part reads | - | - |

What is hard about it, and what makes each part correct:

- **The run loop is one task, its surroundings are not.** The store's watch and
  each resync run on their own tasks, a resync under `on-delete: remove`
  truncates the very files the loop publishes, and a trust rebuild detaches a
  resync that then goes on beside the next run. Correct means: whatever is
  written came from a document the store really held and `render_all` accepted;
  the loop's memory of what it published agrees with the disk, since `unchanged`
  asks memory; a pod outside the canary's cohort keeps what it serves; and when
  the store settles, the files do too.
- **The volume outlives the process.** A crash between two renames, a failed
  write at the second file, a restart that finds the files of another document.
- **Delivery is lossy by design.** The slot holds one document, a watch that
  ended misses what changes until it is reopened, a resync's answer may be older
  than what was pushed since.
- **The node agent shares a watch among pods.** Publishes and unpublishes of
  different volumes race at the registry while documents are being fanned out;
  the kubelet repeats calls it saw no answer to; the pod that started the watch
  may be the first to leave. Correct means: a pod starts on a file that is there
  and its own, a document has one watch, the last pod out ends it, nobody gone
  is written to, a deleted pod's volume can go, and a new document reaches
  everybody.
- **A lease has a clock of its own.** A store that issues credentials is asked to
  renew them, refuses in the end, and the loop must have fetched another one by
  then, while its other arms keep it waiting, its writes fail and its pod is
  outside the cohort. Correct means: the credential in the file is alive for as
  long as the loop keeps its lease, and a living one comes again after whatever
  went wrong.
- **Admission decides with what it was told.** Some sixty annotations resolve
  through a pod, a store's tier and the fleet's, with pins and gates; classes
  are read from a cache; the API server calls again, or goes without. Correct
  means: no pod gets round a pin or a gate, what is let through starts, a pod is
  patched once.
- **The reconciler is told late and by halves.** Watches merge events, an attempt
  works on a copy, the target and the status are two writes, and the second is an
  event of the Render the controller watches.
- **The cluster parts write more than one object**: a Secret and a webhook
  configuration, a target and a status, a lease that decides who may do so.

`PROJECT.json` lists the hazards one by one with their lines, and the properties
that would notice them going wrong.

## The modules

| Module | What it is |
|---|---|
| `Sidecar` | the agent's run loop with the slot, the watch, the resync tasks, the process's exits and restarts, and the volume |
| `Served` | what the files of one pod promise whoever reads them: the abstract specification `Sidecar` implements |
| `NodePlugin` | the node agent: the CSI handlers, the registry, the shared watches, the kubelet's side of the protocol |
| `Election` | the operator's leader election: the lease, `lead` and `claim` of each replica, their clocks, and the end of a process that lost its term |
| `SelfRotate` | the webhook as its own certificate authority: the rotation lease, the two writes of a rotation, the kubelet's projection, the servers that reload |
| `LeaseLoop` | the run loop once more, for a store that issues its documents under leases: the renewal arm, what holds it up, the revocation, with time |
| `Contract`, `Injection` | the webhook's decision as operators: the annotations with their tiers, pins and gates; the checks of a pod and the patch |
| `AgentSpec` | what the agent refuses of the arguments and environment the patch starts it with |
| `Admission` | a pod on its way through the API server and the webhook's replicas, whose copy of the classes is polled |
| `Reconcile` | one `DynamicConfigRender` and the operator's controller: watches, queue, timer, an attempt's calls one by one, target, status, garbage collector |
| `MCSidecar`, `MCNodePlugin`, `MCElection`, `MCSelfRotate`, `MCLeaseLoop`, `MCAdmission`, `MCReconcile` | values for the constants on small instances |
| `SidecarProofs` | the theorems about `Sidecar`, among them that it implements `Served` |
| `ElectionProofs` | the theorems about `Election` |
| `SelfRotateProofs` | the theorems about `SelfRotate` |
| `NodePluginProofs`, `LeaseLoopProofs`, `ReconcileProofs` | the theorems about these three |
| `InjectionProofs` | lemmas about the decision as operators: what the patch adds, what its agents are started with, what a pin does |
| `AdmissionProofs` | the theorems about `Admission`, from those lemmas |

### Sidecar

`pc` says where the process is: `starting` (from main to the first publish),
`writing` (inside `publish`, with the rename to come in `job`), `select` (waiting
in the `select!`), `reopening` (inside the arm that waits before a watch is
reopened, when no other arm can run), `down` (the container ended, the kubelet
will restart it) and `stopped` (it was told to stop). `rendered` and `withheld`
are the loop's variables of those names; `slot` is the slot of `Deliver`;
`up`/`seen` are the store's watch; `tasks` are the spawned resyncs, `mine` being
whether this run of the loop still has the `JoinHandle`; `gone` is the channel of
the resync to the loop; `absent` the gauge. `file` is the volume. `store`,
`admitted` are the outside; `offered`, `happened`, `last` are history that only
properties read, and `spent` counts outside events against `Budget`.

Each arm of the `select!` is one action up to its next await; `publish` is one
step per file, so that a crash, a truncation or a foreign write can come between
two renames. Every `?` out of `run_from` is `Die`: everything but the volume is
lost. A document is a model value and `Text[d][o]` the text of output `o` cut
from it; two documents may have the same text in one file (`MCText`), which is
what makes `unchanged` interesting. `Valid` are the documents `render_all`
accepts. `StartupPolicy`, `OnDelete`, `OnDrift`, `Native`, `Canary` and
`TlsReload` are the pod's annotations, as constants; the theorems hold for all of
them at once.

`Served` knows the files only: a file may change to the text of an accepted
document the store has held, to blank where nothing or blank was (or where
`on-delete: remove` or a repair may blank), and to foreign bytes if something
else in the pod writes. `ImplementsServed` is the refinement
`INSTANCE Served WITH MayBlank <- ..., MayTamper <- ...`.

### NodePlugin

`pod` is what the kubelet has got to with each volume, `call` the call it has in
progress, whose steps are the handler's awaits and locks; `published`, `readers`
and `owner` are `Plugin.published` and the registry (its entry's targets and the
`stop` it holds); each `watch` is a `run_from` started by `PublishClaims` with the
document the call fetched, with `hear` as `fan_out`. The shared watch is the same
loop as `Sidecar`'s but in the shape csi.rs starts it: one output, no canary, no
drift interval, no policies; its first document is written again and told to
every reader (`WatchStarts`, `FansOut`), a later one is compared with the
starter's own rendering (`Moved`), fanned out to the others, and only then
written for the starter (`WatchPublishes`).

`View[v][d]` is document `d` as volume `v`'s attributes render it, `Key[v]` is the
`Document` its attributes name and `Question[v]` what its source really asks,
which `Document` does not settle ([below](#where-the-code-and-its-documents-part)).

### Election

`at` says where a replica's `lead()` is: `down`, `polling` (a follower's sleep),
`asking` (the `get_opt` of a claim is out), `writing` (its `create` or `replace`
is out), `written` (the API server took it, the answer is on its way) and
`sleeping` (a leader between two renewals). `leads` are the replicas whose
process is past `lead(...).await` and runs `crds::run`; `held` is the variable of
that name, `stamp` the age of the `now` a claim writes, and `current` stands for
the resource versions: the replicas that read the version the lease still has.
All times are relative, in ticks; `Tick` ages everything at once and waits for
what is due, so a sleep is not overslept and a call is answered or fails within
`Call`. `Ahead` are the differences of the wall clocks, which is what expiry is
judged by (`lease.renewTime` is written by one clock and read by another), while
`held` is a monotonic clock's. `Ends` is the `select!` of `main`: whatever ends
`lead` ends the process and with it the reconciler.

### SelfRotate

Every replica runs two tasks. `at` is the rotation loop of `selfrotate.rs`:
`idle` (asleep), `claiming` (hold_lease has read the lease and is to write it),
`checking` (it leads, and asks the Secret's annotation), `rotating` (the renewing
task runs beside it from here on), `writing` (a pair is minted, the Secret's
patch is next) and `patching` (the webhook configuration's is). `server` is
`tls.rs`: `waiting` for a pair that loads, `loaded`, `serving`, and `reloading`
between the reading of the files' times and of the files. A pair - authority,
leaf, key - is named by its authority; `secret` and `bundle` are what the two
writes write, `file` what the kubelet has mounted, `serving` and `seen` the
variables of `serve()`.

The clock is an order of events. A lease may run out whenever its holder is not
at an attempt (`LeaseRunsOut`), and under one only as something gone wrong
(`LeaseOverruns`: its calls, or the renewing task's, take half a minute). A pair
is spent (`Spends`) after its first write has reached every replica: two thirds
of a day are taken to be longer than a kubelet's sync and a poll of the files.
The jitter only moves that moment. `overran` remembers a lease that ran out under
a rotation of the present pair; `raced` a server that stamped files it had not
loaded.

### LeaseLoop

`Sidecar` leaves leases out, and this module leaves out what leases do not touch:
documents are credentials, each a number with `left` ticks to live at the store.
`lease` is the loop's variable of that name and `period`, `renewal` its interval;
`slot` and `withheld` are as in `Sidecar`. `pc` is which call is awaited
(`fetching`, `renewing`, `reissuing`, `revoking`), the wait inside the arm of an
ended watch (`reopening`), or the `select!`. Everything awaited in an arm holds up
the others, and `Tick` passes only while the loop waits for something: what is due
is done before time goes on. `Waits` is `renew_after` with its draw: the shares of
65 and of 90 hundredths moved by up to a quarter. A renewal keeps the credential
and leaves the file alone, a re-issue mints one and publishes it past the cohort's
question, a delivery publishes a credential without taking over its lease - each
as the code does it. `kept` is history: the file's credential is the one whose
lease is kept, and neither a failed re-issue, nor a reopening, nor a draw past the
lease's end has come since. Such a store has no push, so nothing is resynced
(`sidecar.rs:531`).

### Contract, Injection, AgentSpec, Admission

A pod's annotations are a function from `<<render, key>>` to a value; `Main` is the
render of a key without a suffix. A value is a token: what tells two of them apart
is whether they are equal, a number (`Number`), of a known form, or a path with a
directory and a known extension (`Paths`). `Contract` is the vocabulary and
`Installation`: for each key the pod's note, a class's value, the store's tier or
the fleet's, which of them is pinned, and what the gates allow. `Injection` has one
operator per check of `of_pod_with` and `extra_render` (`FormsKept`, `PinsKept`,
`Addressed`, ...) and the patch. `AgentSpec` is `Spec::from_args` and what it calls,
as the set of complaints it can make of a patched container. `Admission` is the
protocol: `stage` is where the API server has got to with the pod; a replica's
`cache` is replaced by a poll of two lists that edits may come between (`reading`
is the first); `since` and `lately` are history, for `CacheWasTrue`. `decided`
remembers by which installation, and of what pod, a patch was made.

### Reconcile

`copy` is the reflector's Render, `news` what its watch has yet to bring, `queue`
the reasons the one queued item stands for, `timer` the requeue of the last
attempt. `pc` is the call that `attempt` or `reconcile` is at - class, store,
target, apply, status - and `job` its locals. `target` has the objects with their
data, the keys that are the operator's by server-side apply, and the owner.
`Due` is whether a status must be written; writing one adds the operator's `own`
event to `news`, as any change of the object does. A call may fail, or be carried
out and not answered, and the process may end between any two. `basis` is history:
the spec and the class the last attempt resolved.

## The runs

`tlc -workers 2 -config <run>.cfg <module>`; `MC*` modules hold the constants.

| Run | Property | What it shows |
|---|---|---|
| `Sidecar_serve` | `TypeOK`, `Provenance`, `DiskIsBelief`, `HeldPodKeepsItsFiles`, `ImplementsServed` | under any four of eleven kinds of outside events: provenance of everything kept between awaits, memory agrees with disk, the cohort is respected, the refinement |
| `Sidecar_converge` | `Converges`, `FailStaysDown` | with fairness, a settled store settles the files; a standing deletion ends the agent under `fail` |
| `Sidecar_remove` | `DeletionHolds` | with fairness, a standing deletion is noticed, again after every restart, and empties the files for good under `remove` |
| `LeaseLoop_keep` | `TypeOK`, `ServedAlive`, `Recovers` | whatever renewals are refused and in whatever order timer, deliveries, cohort, watch and calls come, the credential of a kept lease is alive in its file, and living ones keep coming after one failure of any kind at any tick |
| `NodePlugin_share` | `TypeOK`, `MountedHasOwnFile`, `OneWatch`, `NobodyLeftBehind` | the registry under races, retries, lost answers, failed writes, departures, a restart; the two volumes ask different questions under one key |
| `NodePlugin_follow` | `ReadersFollow` | with fairness, the volume that started a watch follows its store through lost pushes, and what is news to it reaches the other reader |
| `NodePlugin_leave` | `EverybodyLeaves` | without any fairness of the stores, volumes of deleted pods go, and the last takes its watch with it |
| `Election_lead` | `TypeOK`, `OverlapIsBounded`, `OneInGoodStanding`, `SomeoneLeads` | how long two replicas can both lead, that one of the two has then been unconfirmed for a term, and that somebody leads again whenever a replica is restarted |
| `SelfRotate_trust` | `TypeOK`, `OneRotator`, `EveryReplicaTrusted`, `NoticesNews`, `Heals` | rotations without end, with one crash, failed call or overrun lease: rotations are apart, every replica serves a trusted leaf, reloads miss nothing, what was cut short heals |
| `Admission_decide` | `TypeOK`, `PinsHold`, `GatesHold`, `AgentStarts`, `NeverSilentlyWithout`, `CacheWasTrue`, `OnceOnly`, `EditsReach` | pods of five shapes with up to two annotations changed, under eight installations: pins and gates hold of the patched pod, its agents start, nobody is passed over or patched twice; the class cache is what the classes were, and comes to be what they are |
| `Reconcile_settle` | `TypeOK`, `NothingMissed`, `HealthyReadsReady`, `Converges`, `Quiet`, `NothingLeftBehind` | edits, deletions, touched targets, failed calls and crashes, any two of them at any step: no edit is missed, the status says what is so, the target follows the store and goes with its Render, and no status write feeds itself |
| `Reconcile_backoff` | `BackoffHeld` (violated) | a failed attempt's status write brings the next attempt at once |

**Bounds.** `Budget` is the number of outside events in a behaviour and `Chaos`
their kinds; nothing else is capped, so between two events the program may run as
long as it likes. Four events reach every pair of hazards in `Sidecar` with two
to spare (a put, a widened cohort, a put and a crash is the longest shape a
property is about); `N = 2` files give every "before, between, after" of a
publish; two tasks are the one the loop has and one a rebuild left behind; three
documents are the one served, the one held and one that does not render. In
`NodePlugin` two volumes are the starter and another reader, two watches the
stopped one and its successor (a third cannot start before one of the two is
gone in these runs' two events: `PublishClaims` would wait for an identity,
which is a bound of the model). The liveness runs use less: no symmetry, fewer
kinds of events. `NodePlugin_follow` has four versions so that either volume can be
the starter of a version that is news to both, to itself alone, to the other alone
(equal for the starter, or not rendering for it); one event is one change of the
store, to any of them from any other, or one lost answer, and streams drop and
answers go stale as often as they like. With two events, reverts among them, it held
as well from the first version (273,299 states, too long for a run that is kept).

`Election_lead` has the code's own times with a second for a tick (15, 5, 5), two
replicas whose clocks are a second apart, and calls that take up to a second.
Nothing bounds the failures and crashes; ages of the lease above `Cap` are one
value, and `Cap` is above every age that is compared with anything
(`TimesAssumption`), so the run is complete for these times. More replicas, other
times and longer calls are the theorems'.

`SelfRotate_trust` never ends: names of pairs are used again once nothing holds
them, and four are enough for a mint never to wait. `Budget` 1 is one thing going
wrong, at any point of any rotation, for all of time; the safety properties were
checked with two as well and are theorems for any number.

`LeaseLoop_keep` has leases of 20 and of 17 ticks that can be renewed, so that a
renewal may grant less than there was, and of 12 that cannot; a call takes up to
one tick and a reopening up to three, which puts the longest draw for 17 (13
ticks) and the refusal and re-issue after it just within the lease
(`CallsAssumption`), as a call's timeout is to a real one. Five credentials are
the four the loop can know and one to mint; names are used again. One event is
enough for every property, since a renewal refused, an arm that keeps others
waiting and an order of arms cost none; the two invariants hold with two events as
well (3.2 million states under `require-fresh`).

`Admission_decide` submits every pair of changes of the
plain pod, and those pairs of the other shapes that meet in a check. One replica is
enough for a pod, which one call decides; the cache's theorem is for any number.
Only `MCLively` pods meet edits, faults and rollouts, two of them.

`Reconcile_settle` has a class of each kind, a ConfigMap and a Secret, two specs of
which one retains, documents that differ in their keys and one that does not
render, and two events, with one Render after another under the same name. What is
between two events is unbounded; two are enough for an edit or a crash within the
attempt that another began.

**Deadlock** is checked in `Election_lead`, `SelfRotate_trust`, `LeaseLoop_keep` and in the runs of `Sidecar` except `Sidecar_serve`, where an
agent told to stop has ended. In `NodePlugin` it is not checked: pods that are
gone stay gone, and a node without pods and quiet watches has nothing to do. Nor is it in
`Admission` and `Reconcile`, where a refused pod is an end and a settled Render
is at rest.

**Fairness.** `Sidecar`: the kubelet restarts the container, an await and a write
end, the store answers what it is asked - weak fairness. The arms of the
`select!` have strong fairness, because it polls its arms in a random order and
an interval that is due stays due: an arm that is ready on infinitely many passes
is taken. Nothing is assumed of the events of `Chaos`, nor that a write or a
fetch ever fails. `NodePlugin` has two: `LocalFairness` is the kubelet's retries
and the plugin's own steps, and is all `EverybodyLeaves` needs; `StoreFairness` adds that stores answer and push,
for `ReadersFollow`. `Native` is TRUE in the runs about convergence: only a store
that pushes is resynced (`Sidecar.ResyncStart`).

`Election`: time passes and sleeps end (weak fairness); a call that is made
infinitely often is answered infinitely often (strong fairness of the actions
that end a call well), since `SomeoneLeads` cannot hold on an API server that
fails every claim. Nothing is assumed of `Start`: `SomeoneLeads` says itself that
some replica is up again and again.

`SelfRotate`: the loop and the server go on, the kubelet syncs, an idle holder's
lease runs out (weak fairness; a renewing holder may keep it for ever). `Spends`
has strong fairness: however often the loop looks and finds the pair fresh, the
day passes.

`LeaseLoop`: time passes, a call is answered, the container is restarted (weak
fairness); the arms of the `select!` have strong fairness as in `Sidecar`, and so
has `RenewFails`: no store renews one credential without end (`max_ttl`). Nothing
is assumed of failures. `Reconcile`: watches bring what there is, tokio's timers
fire, an attempt's calls are answered, the garbage collector works - weak
fairness of each; that calls stop failing is the budget's doing. `Admission`: the
poll of the classes goes on, for `EditsReach` alone.

Every property of a passing run has a mutant in `PROJECT.json`: an operator of
the module, mapped to the code, and a plausibly wrong form of it (kept beside it
in the module) under which TLC finds the property violated.

## The proofs

`tlapm SidecarProofs.tla`, `LeaseLoopProofs.tla`, `ElectionProofs.tla`,
`SelfRotateProofs.tla`, `NodePluginProofs.tla`, `ReconcileProofs.tla`,
`InjectionProofs.tla`, `AdmissionProofs.tla`. Every invariant and every action
property that a passing run checks is a theorem of one of the seven others than
`InjectionProofs`, which holds lemmas.

About `Sidecar!Spec`, for any documents, any number of files and tasks, all
policies, and any budget; the assumptions are the ones `Sidecar` declares, which
say that the special values are no documents or texts and the policies are the
ones the annotations allow.

- **`TypeCorrect`**: `Spec => []TypeOK`. `TypeOK` is inductive as it stands,
  because it includes the two facts about control the typing needs: a publish is
  in progress exactly while `pc = "writing"`, and a loop in the `select!`, or
  writing anything but its first set, has a rendered set.
- **`ProvenanceHolds`**: `Spec => []Provenance`. `Provenance` is inductive
  together with `TypeOK`: it says of every place where a document or a set is
  kept between two awaits (slot, tasks, canary, job, memory, volume) that it
  comes from a document in `offered` that `render_all` accepted. The operators
  it is made of take the set of documents as a parameter, so that one lemma says
  they all survive the store being given another document.
- **`Refinement`**: `Spec => ImplementsServed`. The initial states map to initial
  states, and each action to one change of a file that `Served` allows or to a
  stutter; `Provenance` is what makes the change an allowed one.
- **`BeliefHolds`**: `Spec => []DiskIsBelief`. `DiskIsBelief` says nothing of the
  disk during a publish and is not inductive. The strengthening is: as long as
  nothing that can part memory from disk has happened (`Quiet`), every file
  already renamed in the publish in progress has the new set's text, every other
  has that of the set published before (or, at a first publish, anything), and no
  task is emptying. Quiet can only be lost, never regained (`HappenedGrows`).
- **`HeldPodKeeps`**: `Spec => HeldPodKeepsItsFiles`. The invariant is that while
  the cohort excludes the pod and the percentage was never lowered, no publish of
  a delivery or of a held set is in progress: both are entered only where
  `Admits` held, and it could not have ceased to.

About `LeaseLoop!Spec`, for any credentials, lives, shares, delays and budget, from
`TimesAssumption` and `PolicyAssumption` (types), `IdsAssumption` (the store is never
out of credentials: whatever four the loop knows, there is a fifth) and
`CallsAssumption`: after the longest wait for a lease that can be renewed, three
calls end within it. The code leaves a fifth of such a lease for them.

- **`LeaseTyped`**: `Spec => []TypeOK`. What has to be known is where credentials
  can be: the file, the lease, the slot and the held set are all that know one, so that
  another is left to issue (`Places`, `Spare`).
- **`KeptStaysAlive`**: `Spec => []ServedAlive`. The promise is about the file and the
  store, the code's only means is a timer, so the invariant relates the two: while a
  lease is kept its credential is in the file (`Keeping`), and what is left of it
  exceeds what is still to wait for - the timer and two calls in the `select!`, what
  is left of those two calls while they are awaited (`Margin`, `Waited`). Each tick
  takes one from both sides; only a grant that `Timely` holds of begins anew.

About `Election!Spec`, for any replicas, times, call delays and clocks, from
`TimesAssumption` (times are natural numbers, `Cap` is above what is compared),
`AheadAssumption` (no two clocks differ by more than `Skew`) and
`TermAssumption`: a term is at least three calls and the skew. The code's 15
seconds give calls nearly five. Without it a claim could outlast the term it began.

- **`Typed`**, **`OverlapBounded`**, **`GoodStanding`**: `Spec => []TypeOK`,
  `[]OverlapIsBounded`, `[]OneInGoodStanding`, from one inductive invariant `Inv`.
  Neither bound is inductive, because they relate a leader's own clock with a
  lease somebody else wrote. `Inv` ties them through the lease: a leader's last
  confirmation is at most two calls older than the lease (`Aged`); a write that
  will pass the fence found the lease over, by a clock at most `Skew` off
  (`Founded`), and a write that passed it is still the lease when it is answered
  (`Taken`: here the term must outlast a claim); so whoever is overtaken had been
  unconfirmed for a term (`Overtaken`), and `HeldWithin` says for how long a
  leader can be that before a failed renewal makes it look.

About `SelfRotate!Spec`, for any replicas, pairs and budget, from assumptions that
only say that `None` is no replica and no pair:

- **`Typed`**: `Spec => []TypeOK`, which is inductive as it stands.
- **`ReloadNotices`**: `Spec => []NoticesNews`. A sync could bring back the very
  pair whose times were remembered; `Newest` says that it cannot, since the mount
  only ever moves to the Secret's pair, and `Fresh` that a mint's pair is nowhere
  yet.
- **`RotationsApart`**: `Spec => []OneRotator`. As long as no lease ran out under
  a rotation, it is its rotator's, and nobody is left who read a version that
  could still take it (`Alone`): this is what the fence of `hold_lease` is for.
- **`ReplicasTrusted`**: `Spec => []EveryReplicaTrusted`. A pair is spent only
  where it has settled (`Settled`, from `NoticesNews`), so a lone rotation
  replaces the pair everybody holds (`Begun`), the bundle it writes covers that
  and the new one (`Done`), and a rotation that is cut short after its first
  write is half-written and nothing else.

About `NodePlugin!Spec`, for any volumes, documents, questions, watches and budget,
from what it assumes of its special values:

- **`Typed`**, **`WatchesShared`**, **`NobodyStays`**: `Spec => []TypeOK`,
  `[]OneWatch`, `[]NobodyLeftBehind`, from one inductive invariant. `OneWatch` needs
  to know that a document has an entry exactly while it has readers, and that the
  entry's watch is there, runs for that document and has not been told to stop
  (`Entry`); `NobodyLeftBehind` needs to know which call a pod's stage can have in
  progress and what an unpublish has taken away by then (`Phase`). `Knowledge`
  types what is in flight: a document kept between two steps was answered to the
  question of whom it is kept for.
- **`MountedOnOwnFile`**: `Spec => []MountedHasOwnFile`, with no hypothesis on what
  volumes of one key ask, since the code ensures none
  ([below](#where-the-code-and-its-documents-part)): a mounted volume's document
  answered its own question or that of a volume of its key whose pod has come; where
  these ask the same question it is its own. `Kept` says of a target what holds from its
  first write until it is unlisted, and `StartersCame` that a watch asks for somebody
  who came.

About `Reconcile!Spec`, for any specs, classes, documents, uids, events and budget:

- **`Typed`**: `Spec => []TypeOK`, inductive as it stands.
- **`EditsCaught`**, **`HealthyIsReady`**: `Spec => []NothingMissed`,
  `[]HealthyReadsReady`. Both speak of a controller at rest only. What is inductive
  is what an empty queue already means while an attempt is under way: without news
  the copy is the Render, and with an empty queue the attempt has that copy in hand
  (`Caught`); the last attempt was made with the Render and the class there are, or
  is yet to read the class, or is to hear of it, or failed to (`Reached`); a Render
  without failures reads Ready (`Healthy`), for which `Due` is needed where the
  status is not written.

About `Admission!Spec`, for any pods that an author can write, any installations,
classes, replicas, namespaces and budget. `AskedAssumption` says what such a pod is:
it has its fields, finitely many annotations, a container, none that is an agent, and
no command and no volume that the webhook made. `InstallsAssumption`: an installation has at most
one default source. `NumberAssumption`: texts that are numbers stand for natural
numbers, "0" and "15" among them. The invariant `Inv` has four parts:

- **`CacheTrue`**: `Spec => []CacheWasTrue`, from `CacheInv` alone. A poll under way
  holds what the cluster's classes were since it began, and a cache what was so since
  the last whole poll began: `lately` becomes `since` where the two lists become the
  cache.
- **`AdmissionTyped`**: `Spec => []TypeOK`. `ClassInv`: a scope has one class or none,
  and so has what was read of it and what is held; every replica's installation is one
  that starts. That no command is wrapped twice is of the pod: containers of one name
  have one command as long as the API server would take them (`Alike`, `Sound`).
- **`NotSilently`**: `Spec => []NeverSilentlyWithout`. `PodInv` says of a pod that went
  through a replica, stored or not yet, that it has its agent if it is to have one
  (`Served`): a pod that lost it on the way is asked about again.
- **`GatesHeld`**, **`AgentsStart`**, **`PinsHeld`**: `Spec => []GatesHold`,
  `[]AgentStarts`, `[]PinsHold`. These speak of a pod that has been through other
  webhooks, manifests and replicas since it was patched. What is inductive is
  `Decision`: the remembered decision was made on an author's pod that passed every
  check, by an installation that starts, and whatever agents the pod has now are
  among those that this decision gives (`AgentsOf`), with its volumes there. The
  rest has no steps and is in `InjectionProofs`: the patch puts in exactly
  `AgentsOf` (`PatchedIs`); an accepted render's arguments are formed, complete and
  consistent for the agent's own parser (`AgentForm`, `AgentRequired`,
  `AgentTogether`), its mounts are volumes (`AgentMounts`), its user is not 0
  (`AgentNotRoot`); and a key that passed its check against a pin resolves to the
  pin (`PinResolves`, `PinLevels`, and one lemma per way a value reaches the agent:
  `PinnedSource`, `PinnedStore`, `PinnedWatch`, `PinnedSecret`, `PinnedAws`,
  `PinnedPod`). For the pins that are not an agent's but the pod's (mode, medium,
  native sidecars), `Arranged` says how a patched pod's agents stay arranged: where
  they run, which of them watch, and on which volume.
- **`PatchedOnce`**: `Spec => OnceOnly`, by cases of `Next`: a class changes neither
  mark nor containers (`FilledIs`), so a marked pod with its agent is neither patched
  nor refused, and nobody's answer changes it.

`PinsHold` could not be proved as it first stood, and what had to be excepted is of
the code: a variable of a pinned secret can be set by the pod's `agent-env` or the
fleet's, and a pinned `metrics-port` of "0" is no port
([below](#where-the-code-and-its-documents-part)).

Only model-checked: everything under fairness (`Converges` of `Sidecar` and of
`Reconcile`, `FailStaysDown`, `DeletionHolds`, `SomeoneLeads`, `Heals`,
`ReadersFollow`, `EverybodyLeaves`, `Recovers`, `Quiet`, `NothingLeftBehind`,
`EditsReach`), which is out of the prover's reach. `Reconcile_backoff` expects a
violation, and has nothing to prove. No module that holds or is used by a theorem
declares a RECURSIVE operator.

## Where the code and its documents part

The run `Reconcile_backoff` is about a disagreement, and `PROJECT.json` (`findings`)
quotes both sides. Modelling met others that no run is kept for. Those of the
agent, of the node agent, of the election and of the certificate authority, and the
first two of the agent's leases, were reproduced by TLC on these modules with a
property stating the quoted words, or by dropping the condition that excepts them;
the others are read off the two places that disagree.

The agent:

- A container restart outside the cohort publishes the new document at once:
  the initial publish (`sidecar.rs:144`) does not ask the canary.
  `book/src/annotations.md:313`: "A pod outside the cohort holds what it fetched
  and publishes it the moment the number passes its bucket".
- A publish that fails at its second file leaves the first replaced
  (`sidecar.rs:759`), while `sidecar.rs:715` logs "the write failed; the rendered
  file is unchanged". Drift notices it, a retry of the same document heals it.
- `allow-cached` serves any bytes that are not blank (`sidecar.rs:950`);
  `annotations.md:131`: "serves the file already on the volume if it parses".
- `on-delete` is applied by the resync alone: with `require-fresh`, an agent that
  is down when the document is deleted fails each of its starts
  (`sidecar.rs:943`) and never empties the files under `remove`;
  `annotations.md:133` says that "`remove` truncates the file". `Sidecar_remove`
  therefore starts with `best-effort`.
- After `remove`, a document that returns as it was is never written again:
  `unchanged` (`sidecar.rs:670`, described at 910 as "whether a freshly rendered
  set is the one already on disk") compares with memory, which was not told of
  the truncation. This is why `Converges` is checked without `remove`.
- The `absent` gauge is cleared by a publish only (`metrics.rs:194`), so after
  such a return it stays 1; `book/src/observability.md:261` says it "is 1 while
  the store says the document is not there".
- Absence is told apart in the resync arm only, which runs for stores that push
  (`sidecar.rs:531`): nothing tells the agent of a polled store's deletion,
  whatever `book/src/troubleshooting.md:135` says of `Conditional` stores.

- A set held for the canary is published when the cohort widens, over a newer
  document that was published or delivered since (`sidecar.rs:459`, against
  "the newest document is simply the one that gets rendered" at `sources.rs:48`).
- `on-delete: remove` with `on-drift: repair`: the drift arm finds the truncated file
  changed and writes the removed document back at every interval
  (`sidecar.rs:591`; `annotations.md:133`: "`remove` truncates the file").

The agent's leases:

- The wait for a lease that cannot be renewed is nine tenths of it moved by up to a
  quarter (`sidecar.rs:864`, `Pace::spread`), so up to 1.125 of it: more than a
  quarter of the draws end after the credential has expired. `sidecar.rs:831`:
  "Ninety per cent leaves a tenth of the lease as the margin".
- A re-issue that fails leaves the old interval (`sidecar.rs:410`): the next attempt
  comes a whole wait later, at 1.3 of a renewable lease's life, against "A backoff
  never sleeps past the lease" in `book/src/vault.md`. The wait before a watch
  is reopened holds the renewal up in the same way (`sidecar.rs:650`).
- A delivered document is published and its lease dropped (`sidecar.rs:292`): the
  loop goes on renewing, and at the end revokes, another credential's lease.
- A start without an answer of the store (`allow-cached`, `best-effort`) has no lease,
  and the renewal arm stays off for the whole run (`sidecar.rs:166`, 329), whatever
  is fetched later.
- A re-issue whose write fails, or that is held for the canary, keeps the new lease
  beside the old credential's file; as renewals do not render (`sidecar.rs:380`), that
  lasts until a renewal is refused. `Recovers` is what remains.
- The leases of superseded credentials and of runs that ended in a rebuild or an error
  are not handed back, against "a credential minted for this pod alone must not
  outlive it" of `tests/sidecar.rs`.

The node agent, all but the first of them consequences of one `rendered` answering for every
reader, or of `run_from`'s first publish being fatal:

- Volumes that differ in `ref`, `namespace` or `auth-role` share a watch, since
  `Document` is source, endpoint, key and token-secret (`publish.rs:127`): one is given
  the answer to the other's question, against "**are** asking the same question, and
  the answer is the same bytes" (`shared.rs:31`). `MountedHasOwnFile`
  says only that somebody who shares the key has come and asked.
- A change outside the starter's own section is dropped for everybody
  (`sidecar.rs:670`; `csi.rs:213` says "this is how every other pod holding the
  same document gets the same bytes rendered its own way").
- A volume that joins with a document fetched before the watch's last delivery
  stays on it until the next one (`csi.rs:188`, against "every later document
  reaches it through the watch that is already running" at 190).
- A store that moves on and back while a volume joins leaves it on the version
  in between (`sources.rs:63`, `csi.rs:190`).
- When the starter has left, its writes fail and `rendered` stays; a store that
  goes back to that document is `unchanged` for the others (`sidecar.rs:711`,
  against the comment at 705).
- A starter that leaves before its watch's first write, or whose disk is full at
  that moment, ends the watch with the registry's entry in place
  (`sidecar.rs:144`, against 702 and `csi.rs:332`): later volumes join a watch
  that does not exist.
- After a restart of the plugin no mounted volume is watched (`csi.rs:49`,
  against `dynamic-config-node-agent/src/main.rs:39`).
- A watch that was stopped while delivering asks the registry for the readers,
  who may by then be its successor's, and writes an older document over theirs
  (`csi.rs:340`, against "one fetch and one watch" in `book/src/node-agent.md:51`).

`ReadersFollow` carries the conditions these cases leave: nobody departs, no write
fails and the plugin is not restarted (`Calm`); and for a reader that did not start
the watch, the version is one it was mounted before, it answers the starter's question,
and it renders for the starter as no other answer did (`News`). With
the version offered before the mount, or without `News`, TLC finds the reader left
behind.

The operator's election:

- Two replicas can lead at once, for up to a renewal, five calls and the skew
  (TLC finds an overlap one tick short of `OverlapIsBounded`): a leader cut off from the
  API server looks at its term only when the next renewal has failed
  (`election.rs:75-98`). `book/src/observability.md:376`: "Only one replica
  reconciles"; `election.rs:91` has the process end at "the moment another replica
  may take the lease". What holds is `OneInGoodStanding`.
- "Two renewals can be lost to a slow API server without the lease expiring"
  (`election.rs:32`) leaves nothing for the calls: three sleeps are the
  whole term, and once the lost claims and the third have taken a second between
  them the others may see the lease over before it is renewed.
- A container that restarts in its pod keeps `POD_NAME`, and so does take up its
  predecessor's term (`election.rs:153`), against the module's "a restarted pod
  does not inherit its predecessor's term" (`election.rs:18`) read of containers.

The webhook's certificate authority:

- A rotation that is cut short between its writes is
  not attempted again: `remaining_validity` reads the annotation the first write
  put there (`selfrotate.rs:128`), while `run` logs "self-rotation attempt failed;
  retrying" (111). The first pair has nothing to fall back on. `Heals` says that
  the next rotation, two thirds of a validity later, repairs it.
- A server that starts while the kubelet swaps the files can load one pair and
  stamp the next (`tls.rs:118-119`), and so serve the old leaf for the whole
  interval and past the next rotation, whose bundle no longer has its authority;
  `selfrotate.rs:314` says of that moment "nothing has served its leaf for a full
  interval". `EveryReplicaTrusted` excepts it by `raced`.
- `election.rs:11` says that the rotation's lease is "held for the length of one
  rotation and released". It is never released: the holder claims it again every
  fifteen seconds, and keeps it as long as it lives.
- Between the two writes the kubelet may already bring the new pair to a replica:
  `EveryReplicaTrusted` says nothing while a rotation is at `patching`.

The webhook's admission:

- The collision check looks for containers named `dynamic-config-agent-{index + 1}`
  (`patch.rs`, `collides`), while a named render's are called by their suffix: a pod
  that already has one is let through, and refused by the API server instead.
- A class supplies `endpoint` also to a pod that names an `endpoint-secret`, which is
  then refused for naming both.
- `agent-run-as-same-user` takes the application's user over a pinned
  `agent-run-as-user`; `PinsHold` excepts it.
- The AWS credential is the pod's own (`patch.rs:1375-1391`): every render is given
  that of the main source's tier, whatever its own source is, and `PinsHold` asks it
  of them all. Where the main source is not `s3` there is none, and a named render of
  `s3` gets none either, although that tier may pin one.
- A named render names its store itself, and the pinned `source` is not asked of it
  (`extra_render`, `annotations.rs:2892-2916`), so that it leaves the pinned store's
  tier; the comment at 1665-1666 says "a pinned fleet source refuses a pod that names
  a different one". `PinsHold` asks the pinned source of the default render only, and
  the pins of its own store's tier of each named one.
- The mode of the notification is the only part of it that the webhook checks, while
  the comment at `annotations.rs:2392` says of it "Checked here as well as in the
  agent": a wrong URL is found by the agent (`LeftToTheAgent`).
- `agent-env` is appended to the agent's environment after the secrets
  (`patch.rs:1153-1217`), and `env_entries` (`annotations.rs:554-599`) reserves no
  name: where an installation's allowlist names the variable of a pinned secret,
  the pod sets it. `PinsHold` excepts such a variable.
- A pod's "0" answers a pinned `metrics-port` of "0", and both mean no port
  (`annotations.rs:2265-2287`), though the knob is described as a port.
- The command and the probe of the container to be wrapped are checked of the first of
  its name (`annotations.rs:2672-2706`), and every container of that name is wrapped
  (`patch.rs:814-896`), one without a command as well. The API server refuses such a
  pod afterwards, so `TypeOK` speaks of distinct names only.
- The agent checks more than the webhook (policies, stores' own flags, formats, ways
  to authenticate): what the webhook leaves to it is `LeftToTheAgent`, and is a
  container that ends at every start.
- `timeout.x` and `tls-reload.x` of a named render are accepted and never read; two
  renders may name one path, and one metrics port; a relative main `path` is let
  through; `require-ack` without a metrics port has no probe; a pod with
  `inject: "false"` that names a missing class is refused; names of the pod's own
  volumes and mounts are not checked for collision.
- The class cache is two lists, read one after the other, so it can be half of one
  generation and half of the next; `classes.rs` says of its swap that it "is never half
  a generation". `CacheWasTrue` is about each class by itself.

The operator's reconciler:

- An empty list of `namespaces` on a cluster class is nobody for the operator and
  everybody for the webhook.
- `observedGeneration` is not written where the spec changed and the content did not
  (`crds.rs:490`, against `book/src/operator.md:186`).
- `renderedAt` stays what it was if the status fails after an apply, and an old copy
  may clear it.
- A target with a key of somebody else's, or a Secret that keeps a key of an earlier
  `stringData`, is never found unchanged: each attempt writes the status, and each
  write brings an attempt. `Quiet` is about targets that are exactly the document. A
  document without entries is such a case always.
- Turning `Retain` on keeps the owner reference while the content stays, so the target
  still goes with its Render; with a change of content it is given up by omission
  (`crds.rs:884`), which `CHANGELOG.md:300` says it never is.
- `Reason::of` looks for words in the error's text: a missing token Secret with "class"
  in its name reads `ClassNotFound`.

## What is not modelled

- The grace period of the shutdown beyond the revocation's own deadline.
- What the loop does after the last rename besides `rendered`: metadata, history,
  notification, Kubernetes events. They change no state the loop reads.
- The content of documents: formats, templates, filters, schema, redaction.
- `write_atomically`'s scratch file: a write is one step here.
- In the node agent, the tail of a handler that the kubelet has given up on: from
  its last await on, a handler is assumed to end before the kubelet's next call.
- Parsing of annotations, attributes and arguments; HTTP and gRPC framing;
  telemetry; manifests.
- In the election: somebody else editing or deleting the lease, a request that the
  API server takes after its sender gave up on it or died, and the lone replica
  that runs unelected without `POD_NAME`.
- In the certificate authority: the certificates' own validity, replicas that come
  and go, other writers of the Secret and the webhook configuration, a patch that
  is applied after its sender was dropped, the accept loop.
- In admission: the grammar of quantities, URLs, images and environment variables
  (a value is well-formed or not), warnings, messages, image and pull secret, an
  installation read from a file.
- In the reconciler: more than one Render, the secret of a token (its failure is the
  fetch's), the lengths of the waits, the manifests' schema, events and metrics; two
  replicas that lead at once, as `Election` allows for a while.
- In `LeaseLoop`: what `Sidecar` has (drift, resync, deletion, several files), a store
  that answers without a lease.
- Readiness and acknowledgement (`metrics.rs:448`, 599), and the scratch file two
  writers share (`render.rs:830`): the two hazards without a property.

## Plan

In the order of what matters most to a pod that depends on it:

1. Done: `Sidecar` with `Served`, `NodePlugin`, `Election`, `SelfRotate`,
   `LeaseLoop`, `Admission`, `Reconcile`, and a theorem for every invariant and action
   property that their runs check.
2. Abstract specifications for `NodePlugin` and `Reconcile` as `Served` is for
   `Sidecar`: what a volume's file, and a target, promise whoever reads them.
3. `RenderFiles`: scratch files shared by the loop and the resync; metadata and
   history steps. `Readiness`: the acknowledged fingerprint, staleness.
4. The reconciler run by two replicas at once, as long as `Election` lets them lead.
