# TLA+ models of the machine-controller-manager in-place rollout

This directory holds TLA+ models of `src/pkg/controller/deployment_inplace.go`: the
in-place update strategy of the MachineDeployment controller. It also models, from
`spec.md`, the actors that strategy coordinates with through the API server. TLC
checks all of them.

## 1. The system and its parts

The spec (`spec.md` §2) splits the system into reconcilers that each watch one kind
of resource. Each reconciler is single-threaded per key, runs in parallel across keys,
and is fed by a rate-limited work queue:

| Part | Where | In the model |
|------|-------|--------------|
| A Driver contract | external plug-in | not modelled (pure provider I/O) |
| B Drain engine | not under `src/` | only its result: the node is cordoned and labelled ready-for-update (`DrainNode`) |
| C Machine reconciler | not under `src/` | spec-modelled: node join (`NodeJoin`), the Failed phase (`MachineFailed`), the drain of a selected machine |
| D Safety reconciler | not under `src/` | not modelled; no interaction with a rollout |
| E MachineSet reconciler | not under `src/` | spec-modelled: `MachineSetCreate`, `MachineSetDelete`, `MachineSetStatus` |
| F Rollout orchestrator, in-place | `deployment_inplace.go` | **modelled**: every function of the file |
| F Rolling/Recreate strategies | not under `src/` | not modelled |
| G Status roll-up | not under `src/` | not modelled; no property reads the deployment status |
| node update agent | external | spec-modelled: `UpdateNode` |

### How the in-place rollout interacts with the others

The orchestrator never talks to the other actors directly; it only writes labels and
replica counts:

1. It labels the old MachineSets `skip-update`, which stops the MachineSet controller
   from replacing their machines.
2. It labels old machines and their nodes `candidate-for-update`.
3. It labels some of them `selected-for-update`. The machine controller then cordons
   and drains the node and labels it `ready-for-update`. The node agent updates it and
   labels the node `update-successful`.
4. It moves each update-successful machine to the new MachineSet. One merge patch
   carries the selector labels and the controller ownerRef. The node is then
   uncordoned.
5. It scales the old set down and the new set up by the number of machines moved.

Between any two of these API calls, the MachineSet controller may create or delete
machines to match a set's replicas and publish `Status.AvailableReplicas`.

### The hard behaviours

- **Stale snapshots.** A reconcile reads every MachineSet from the lister once, at
  `getAllMachineSetsAndSyncRevision` (line 33). Every scale is an Update of that
  object, so it fails with a conflict once anything has written the set since.
  `availableMachineCount` and `newISUnavailableMachineCount` (lines 333, 362) come from
  `Status.AvailableReplicas`, which lags the machines.
- **Multi-call steps.** A transfer is a patch, an uncordon, and two scales issued
  later. Any call may fail, or the controller may restart, between them. The code
  recovers from what is left in the API objects (syncMachineSets, lines 137-206).
- **Other writers.** While a transfer is in progress, the MachineSet controller sees
  sets whose machine count differs from their replicas.

## 2. Modules

### `InPlaceRollout.tla`: the rollout and its collaborators

**State:**

- `cluster`: `owner` (which set's selector and ownerRef a machine carries, or `NoMS`
  if it does not exist), `mlabels`, `hasNode`, `nlabels`, `cordoned` and `updated`.
- `sets`: `replicas`, `skipUpdate`, `availStatus` and the bounded `machineFails`.
- `reconciler`:
  - `pc`, the step of the current reconcile;
  - `snap` and `fresh`, the lister snapshot and whether each set is unchanged since it
    was taken;
  - the loop variables of the code (`idx`, `todo`, `moved` = `transfferedMachineCount`,
    `added` = `addedNewReplicasCount`, `budget` = `totalReadyForUpdateCount`, `total` =
    `totalReadyForUpdate`);
  - `failures`, the bounded count of failed calls.

**Reconciler actions.** Each action is one API call, or one loop iteration, of the
source:

| Action | Source |
|--------|--------|
| `Start` (snapshot, `SkipUpdateTargets`) | `rolloutAutoInPlace` 26-73, `labelMachineSets` |
| `labelMachineSetsFails` (some old sets labelled skip-update, then a patch fails and the reconcile returns) | `labelMachineSets` 532-550, line 52 |
| `labelNodesBackingMachineSets` | 400-449 |
| `syncMachineSets(from, to)`, called as "sync1" and "sync2" | 131-209 (its three disjuncts: the new-set scale conflicts; a machine without a node aborts the uncordon loop part-way; the full path ending in the old-set scale-downs, stopping at the first conflict) |
| `reconcileNewMachineSetInPlace` | 211-224 |
| `ListUpdatedNodes`, `TransferMachine`, `UncordonFails`, `PatchFails`, `RecoverPartialTransfer`, `ScaleDownOldSet`, `ScaleUpNewSet` | the transfer loop, 226-304 |
| `reconcileOldMachineSetsInPlace` with `ReadyForUpdateCount` | 307-369 |
| `labelMachinesToSelectedForUpdate` (one set per step, picks from `SelectionPicks`) and `SelectionDone` | 370-397, 451-530 |
| `SelectNodeFails` (machines patched, then a node Get/Update fails part-way through the set) | 468-488 |
| `Complete` | 113-128 |
| `ReconcileError` (any failed call or a restart: the reconcile is abandoned) | the `return err` paths |

Some steps are coarser than one call:
- `TransferMachine` is the ownerRef patch and the uncordon that follows it.
- `labelNodesBackingMachineSets` labels all candidates in one step.
- In `syncMachineSets`, a failed label patch or node Update inside a loop is modelled
  as a `ReconcileError` taken before the loop's writes.

`Complete` changes no state because its annotation removal and cleanup touch nothing
the properties read.

**Environment actions** (spec-modelled): `MachineSetCreate`, `MachineSetDelete`,
`MachineSetStatus`, `MachineFailed`, `NodeJoin`, `DrainNode` and `UpdateNode`.
`DrainNode` acts on a node labelled `selected-for-update`: the label the node agent
observes (spec §4.F step 5), so a machine labelled without its node is never drained.

**Constants:**

- `Machines`, `OldSeq` (oldest first), `New`, `NoMS`, `InitOwner`, `Replicas` and
  `MaxUnavail`.
- The bounds `MaxFailures` and `MaxMachineFails`.
- `ProtectTransfer`: whether the MachineSet controller spares machines labelled
  `update-successful` when it deletes excess machines. The spec's controller (§4.E)
  does not spare them (`FALSE`). `syncMachineSets` (lines 137-147) is written as if it
  did (`TRUE`).
- `SeparateClusters`: control and target clusters differ, so the uncordon through
  `controlCoreClient` (line 285) always fails and `TransferMachine` never succeeds.
- `NodeLabelFails`: the node Get/Update of the selection loop may fail (counted in
  `MaxFailures`).
- `PriorInPlace`: the old sets' machines may have been moved into them by an earlier
  in-place rollout. `PriorLeftovers` gives the labels that rollout's `syncMachineSets`
  leaves behind. The Machine keeps candidate-for-update, because lines 150-154 remove
  only selected-for-update and update-successful. The Node keeps candidate- and
  selected-for-update, because lines 182-184 remove only update-successful and
  ready-for-update. `Init` picks any subset of the old machines as such leftovers.

**Refinement.** `Generation` maps each machine to the generation of its owner;
`Abstract == INSTANCE RolloutSpec WITH where <- Generation, upd <- updated,
down <- cordoned`, and `RolloutRefinement == Abstract!Spec` is checked as a property.

### `RolloutSpec.tla`: what the rollout promises

Per machine: `where` (old, new or none), `upd` and `down`. A machine is created only
below `Replicas`; only an old, not updated machine is taken down; only a taken-down
machine is updated; only an updated machine joins the new generation, keeping its
node; new nodes come back up; any machine may disappear. No MachineSets, labels or
API calls.

### `MCInPlaceRollout.tla`: instances for TLC

Four machine names (one spare, for a replacement) and two old-set names, all model
values. It defines these initial assignments:

- `MCInitOwner`: one old set of three machines.
- `MCInitOwner2`: two old sets, `o1` with two machines and `o2` with one.
- `MCInitOwnerDown`: a deployment scaled from 4 to 2 while three machines were already
  in the new set.

## 3. Runs

| Run | Config | Bounds | Checks | Result |
|-----|--------|--------|--------|--------|
| inplace_one | `MCInPlaceRollout.cfg` | 1 old set, 3 replicas, maxUnavailable 1, 2 failures, ProtectTransfer | TypeOK, NoSurge, UnavailableCounted, OnlyUpdatedMachinesMove, RolloutCompletes, RolloutRefinement | pass, 78,531 states |
| inplace_two | `MCInPlaceRollout_two.cfg` | 2 old sets, maxUnavailable 2, otherwise as above | the same | pass, 185,758 states |
| scaled_down | `MCInPlaceRollout_down.cfg` | new set 3 > replicas 2 | RolloutCompletes | pass, 1,107 states |
| faults_one | `MCInPlaceRollout_fail1.cfg` | 1 old set, 1 machine failure, plain MachineSet controller | TypeOK, NoSurge, UnavailableCounted, OnlyUpdatedMachinesMove | pass, 2.3M states |
| faults_two | `MCInPlaceRollout_fail2.cfg` | 2 old sets, 1 failed call (node label included), plain MachineSet controller | TypeOK, NoSurge, UnavailableCounted, OnlyUpdatedMachinesMove, RolloutRefinement | pass, 1.7M states |
| separate_clusters | `MCInPlaceRollout_split.cfg` | 1 old set, SeparateClusters, PriorInPlace, no other failures | NoSurge, OnlyUpdatedMachinesMove, RolloutCompletes, RolloutRefinement | pass, 95,493 states |
| availability_budget | `MCInPlaceRollout_budget.cfg` | no failures | AvailabilityBudget | **violated** |
| transfer_delete | `MCInPlaceRollout_xferdelete.cfg` | plain MachineSet controller | UpdatedMachineNotDeleted | **violated** |
| transfer_stall | `MCInPlaceRollout_xferstall.cfg` | plain MachineSet controller, no failures | RolloutCompletes | **violated** |
| failed_machine_stall | `MCInPlaceRollout_faillive.cfg` | 1 machine failure, ProtectTransfer | RolloutCompletes | **violated** |
| node_label_stall | `MCInPlaceRollout_nodelabel.cfg` | NodeLabelFails, 1 failure | RolloutCompletes | **violated** |
| prior_leftover_drain | `MCInPlaceRollout_prior.cfg` | PriorInPlace, no failures | UnavailableCounted | **violated** |

### Properties

- **NoSurge**: no more machines exist than the deployment's replicas (maxSurge is 0).
- **UnavailableCounted**: every cordoned node of an old set belongs to a Machine
  labelled selected-for-update. Those are exactly the machines that
  `getMachinesUndergoingUpdate` counts and that `maxUpdatePossible` and the selection
  budget subtract.
- **OnlyUpdatedMachinesMove**: a machine changes to the new set only after its node
  was updated.
- **UpdatedMachineNotDeleted**: an updated machine disappears only by failing. This
  is the comment at lines 87-88.
- **RolloutCompletes**: eventually and for ever, the old sets are at 0 and empty, and
  the new set owns `Replicas` updated, schedulable machines.
- **RolloutRefinement**: every step of the rollout and its collaborators is a step of
  `RolloutSpec` (or stutters) under the mapping above.
- **AvailabilityBudget**: the spec §4.F invariant, at least `Replicas - maxUnavailable`
  machines joined and schedulable.

### Findings

1. **Double-counted availability (line 362).** After a machine is transferred, the new
   set's `AvailableReplicas` already counts it and the old set's stale status still
   does. The sum used for `totalReadyForUpdateCount` therefore counts it twice. With 3
   replicas and maxUnavailable 1, two machines are selected and drained together, and
   only one machine stays available. `maxUpdatePossible` does not stop it, because
   `newISUnavailableMachineCount` is negative at that point.
2. **Updated machine deleted in the transfer window (lines 262-303).** The comment at
   lines 87-88 says a machine must not be deleted during its ownership transfer. The
   code scales the new set up only once, after the loop. Until then the new set owns
   more machines than its replicas, and the spec's MachineSet controller deletes one,
   possibly the just-updated machine. The batching widens the window. The spec's own
   order (patch, then +1, per transfer) still leaves a window between its two calls,
   so the spec does not close it either.
3. **Lost replica (line 140).** If that deletion is followed by a conflicting
   scale-up, `syncMachineSets` finds no `update-successful` machine to count. The old
   set is shrunk to its remaining machines, and the deployment stays at
   `Replicas - 1` for good.
4. **Failed machine in a frozen set (line 341).** A machine of a `skip-update` old set
   that fails is not replaced, and `syncMachineSets` shrinks the set.
   `maxUpdatePossible` is then 0 for good with maxUnavailable 1, so the rollout never
   progresses.
5. **Machine selected, node not (line 486).** `labelMachinesToSelectedForUpdate`
   patches the machine and then updates its node. If the node Update fails, the
   machine keeps `selected-for-update` but its node never gets it:
   `getMachinesForDrain` skips selected machines, so no later reconcile labels the
   node, and the drain never starts. `getMachinesUndergoingUpdate` counts the machine,
   so `maxUpdatePossible` = 3 − 2 − 0 − 1 = 0 and nothing else is selected either.
6. **Leftover node trigger (line 183), a spec gap.** The uncordon in
   `syncMachineSets` leaves selected-for-update on the Node, while the Machine loses it.
   The spec makes that Node label the node agent's trigger to drain, and does not say
   the agent clears it. If the agent does not clear it, the next rollout's agent
   drains every node the previous rollout moved, all at once. None of their Machines
   is selected, so the maxUnavailable arithmetic counts none of them. The code itself
   expects such nodes: line 478 skips a node that is already labelled.

The passing runs show what holds:
- The skip-update freeze and the label-driven recovery in `syncMachineSets` keep the
  machine count at or below replicas, through failed calls, restarts, conflicts and
  machine failures.
- Only updated machines ever move.
- Once the MachineSet controller spares machines in transfer, the rollout completes
  despite failed calls and conflicting writes.
- Even with separate clusters, where every post-transfer uncordon fails, the rollout
  completes: `syncMachineSets` recovers each machine through its update-successful
  label, one machine per reconcile.
- Every behaviour, faults included, refines the per-machine promise `RolloutSpec`.
- Within one rollout, the rollout counts every drained old node: the node label is
  set only after the Machine label, and the Machine label is removed only after the
  transfer.
- A rollout that starts from a previous rollout's leftovers still completes, and
  refines `RolloutSpec`.

### Mutants

Each property of each passing run is shown to catch a plausible coding error. The
mutant operators sit just before the definition they replace:

| Mutant | Breaks |
|--------|--------|
| `SkipUpdateTargetsInverted`: the scaled-to-zero test inverted | NoSurge |
| `UpdatedNodesDrained`: a drained node taken as updated | OnlyUpdatedMachinesMove, RolloutRefinement |
| `UpdatedNodesByMachineLabel`: the label looked up on the Machine | RolloutCompletes |
| `DropLabelsEverywhere`: the label removal of `syncMachineSets` applied to every machine | UnavailableCounted |
| `ReadyForUpdateCountNoGuard`: the `<= minAvailable` guard dropped | TypeOK (negative budget) |
| `ActiveOldOffByOne` | RolloutCompletes of scaled_down |

Two other mutations break none of the properties at these bounds:
- Scaling without the resourceVersion check (a patch in place of an update).
- Dropping the `min` at line 142.

So neither guard is essential to these properties.

## 4. Bounds, fairness and abstractions

**Why these bounds are enough.** Three replicas with maxUnavailable 1 cover:
- selection rounds of one machine, and the double count that allows two;
- transfer of one machine while another is drained;
- a spare machine name, so that the MachineSet controller can create a machine when a
  set is short. Without one, NoSurge could not fail.

With maxUnavailable 2 (inplace_two), the selection loop spends a budget of two across
both old sets without any double count, exercising the `break` at line 373 and the
`min` at line 381. In that run the stale statuses can push `totalReadyForUpdateCount`
up to the sum of every set's `AvailableReplicas`, which is why `TypeOK` bounds `budget`
by |Sets| × |Machines|.

Two old sets exercise the oldest-first order, the `idx` loops and the stop at the
first conflict. Failures are bounded (`MaxFailures` ≤ 2, `MaxMachineFails` ≤ 1);
each failure runs the recovery path once.

**Fairness.** `WF_vars(Reconcile)`: the work queue requeues the deployment after every
reconcile and each step is enabled until taken. The MachineSet controller, node join,
drain and node update are each weakly fair per set and per machine; each is a
controller that eventually acts on a standing condition. Failures have no fairness
and are bounded, so a behaviour runs failure-free from some point on. This matches a
cluster whose API errors are transient. The one exception is `UncordonFails` under
`SeparateClusters`: there it is the reconciler's deterministic outcome of a transfer,
not a fault, and it is weakly fair like any reconcile step.

**Abstracted:**
- Names, label strings and patch formatting. A merge patch is modelled by its effect
  on `owner` and the label sets.
- The PreferNoSchedule taint and the autoscaler annotations, which nothing reads back.
- `syncRolloutStatus` and `cleanupMachineDeployment`.
- The order in which the lister returns machines; any subset of the right size may
  be selected.
- Node-Update conflicts.

**Not modelled:**
- Lag of the machine and node listers behind the API server. The MachineSet lag that
  matters (replicas and `Status.AvailableReplicas`) is modelled through `snap` and
  `availStatus`. A machine or node lister that lags would let a reconcile re-select
  or re-transfer a machine whose labels it has not yet seen. Every such write is
  idempotent, being a label merge patch or a skip when the label is present, so the
  lag adds states but no new outcomes. It would multiply the state space beyond
  TLC's reach at these bounds.
- The in-place mutation of a cached node at line 284, and the similar deletions from
  the cached label map at lines 182-184. No later step of the rollout reads
  `Unschedulable` or those labels back from the cache: `syncMachineSets` re-sends the
  uncordon for every machine of the new set. So the mutation changes no step of the
  model; it matters only to other readers of the shared cache. This is listed as a
  hazard in `PROJECT.json`, without a property.
- `MachineDeploymentComplete(d, &d.Status)` at line 113 reads the status from the start
  of the reconcile. What it guards, `removeAutoscalerAnnotationsIfRequired`,
  `cleanupMachineDeployment` and `syncRolloutStatus`, is not under `src/`. `Complete`
  therefore changes no modelled state.
- The MachineSet reconciler, machine reconciler and node agent are modelled only in
  the behaviour the spec gives them towards a rollout. Their code is not in this
  repository, so their components stay "partly" modelled. The drain engine, safety
  reconciler, driver contract, status roll-up and the other rollout strategies are
  not in `src/` at all.

**Considered and not a hazard here.** The ownership patch at line 254 is a JSON merge
patch, so it cannot remove an old-only selector key from the machine. The old and new
MachineSet selectors, however, always differ in the value of the machine-template
hash, which the patch overwrites. The machine therefore always leaves the old set's
selector, whatever other keys remain.
