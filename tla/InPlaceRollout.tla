--------------------------- MODULE InPlaceRollout ---------------------------
(***************************************************************************)
(* The in-place rollout of a MachineDeployment                            *)
(* (src/pkg/controller/deployment_inplace.go, rolloutAutoInPlace and the  *)
(* functions it calls), run against the collaborators it coordinates with *)
(* through the API server: the MachineSet controller, nodes joining, and  *)
(* the machine controller / node agent that drains and updates a node     *)
(* once its Machine is labelled selected-for-update.                      *)
(*                                                                         *)
(* One reconcile of the deployment is a sequence of API calls; each step  *)
(* below is one call (or one loop iteration of calls) and the other       *)
(* actors may move between any two of them.  The reconciler works on the  *)
(* MachineSet objects it read from the lister when the reconcile began    *)
(* (snap); a scale is an Update carrying that object's resourceVersion,   *)
(* so it fails with a conflict once the object has changed (fresh).       *)
(***************************************************************************)
EXTENDS Integers, Sequences, FiniteSets, FiniteSetsExt, Functions

CONSTANTS
    Machines,        \* machine (and node) names, model values
    OldSeq,          \* the old MachineSets, oldest first
    New,             \* the new MachineSet
    NoMS,            \* owner of a machine that does not exist
    InitOwner,       \* the MachineSet each existing machine starts in
    Replicas,        \* deployment.Spec.Replicas
    MaxUnavail,      \* MaxUnavailable(deployment), maxSurge is 0
    MaxFailures,     \* bound on failed API calls and controller restarts
    MaxMachineFails, \* bound on machines that go Failed during the rollout
    ProtectTransfer, \* the MachineSet controller spares update-successful machines
    SeparateClusters,\* nodes live in a target cluster other than the control cluster
    NodeLabelFails,  \* a node Update of the selection loop may fail
    PriorInPlace     \* the old sets' machines came from an earlier in-place rollout

OldSets == {OldSeq[i] : i \in DOMAIN OldSeq}
Sets    == OldSets \cup {New}

ASSUME /\ New \notin OldSets /\ NoMS \notin Sets
       /\ InitOwner \in [Machines -> Sets \cup {NoMS}]
       /\ Replicas \in 1..Cardinality({m \in Machines : InitOwner[m] # NoMS})
       /\ MaxUnavail \in 1..Replicas
       /\ MaxFailures \in Nat /\ MaxMachineFails \in Nat
       /\ ProtectTransfer \in BOOLEAN /\ SeparateClusters \in BOOLEAN
       /\ NodeLabelFails \in BOOLEAN /\ PriorInPlace \in BOOLEAN

\* Labels the code reads or writes on a Machine and on its Node.
Candidate  == "candidate-for-update"
Selected   == "selected-for-update"
UpdSuccess == "update-successful"
ReadyForUp == "ready-for-update"
MLabels    == {Candidate, Selected, UpdSuccess}
NLabels    == {Candidate, Selected, UpdSuccess, ReadyForUp}

VARIABLES
    owner,        \* machine -> MachineSet whose selector labels and
                  \*   controller ownerRef it carries (one patch sets both)
    mlabels,      \* machine -> in-place labels on the Machine
    hasNode,      \* machine -> its node has joined (node label set)
    nlabels,      \* machine -> in-place labels on its Node
    cordoned,     \* machine -> node.Spec.Unschedulable
    updated,      \* machine -> node runs the new template
    machineFails, \* machines that went Failed so far (bounded)
    replicas,     \* MachineSet -> Spec.Replicas
    skipUpdate,   \* MachineSet -> carries the skip-update label
    availStatus,  \* MachineSet -> Status.AvailableReplicas
    pc,           \* step of the current reconcile of the deployment
    snap,         \* MachineSet -> [replicas, avail] read at reconcile start
    fresh,        \* MachineSet -> snap still has the object's resourceVersion
    idx,          \* loop index into OldSeq
    todo,         \* machines of OldSeq[idx] whose node is update-successful
    moved,        \* transfferedMachineCount
    added,        \* addedNewReplicasCount
    budget,       \* totalReadyForUpdateCount
    total,        \* totalReadyForUpdate
    failures      \* failed calls and restarts so far (bounded)

cluster    == <<owner, mlabels, hasNode, nlabels, cordoned, updated>>
sets       == <<replicas, skipUpdate, availStatus, machineFails>>
reconciler == <<pc, snap, fresh, idx, todo, moved, added, budget, total, failures>>
vars       == <<cluster, sets, reconciler>>

Steps == {"start", "cand", "sync1", "new", "xferList", "xfer", "xferFail",
          "scaleNew", "oldsel", "select", "sync2", "complete"}

(***************************************************************************)
(* Views of the cluster as the listers give them.                          *)
(***************************************************************************)
MachinesOf(s)   == {m \in Machines : owner[m] = s}
Available(m)    == owner[m] # NoMS /\ hasNode[m] /\ ~cordoned[m]
AvailableIn(s)  == {m \in MachinesOf(s) : Available(m)}
SnapSum(S)      == SumFunctionOnSet([s \in Sets |-> snap[s].replicas], S)
SnapAvail(S)    == SumFunctionOnSet([s \in Sets |-> snap[s].avail], S)
AddLabel(f, M, l)     == [m \in Machines |-> IF m \in M THEN f[m] \cup {l} ELSE f[m]]
\* Mutant: the label removal applied to every machine, not only to M.
DropLabelsEverywhere(f, M, L) == [m \in Machines |-> f[m] \ L]
DropLabels(f, M, L)   == [m \in Machines |-> IF m \in M THEN f[m] \ L ELSE f[m]]

\* scaleMachineSetAndRecordEvent: no call when the size is unchanged,
\* otherwise an Update of the snapshot object, which succeeds only while
\* the object is unchanged since the snapshot.
ScaleOk(s, n)   == n = snap[s].replicas \/ fresh[s]
Scale(s, n)     == IF n = snap[s].replicas THEN replicas
                   ELSE [replicas EXCEPT ![s] = n]
Touch(S)        == [s \in Sets |-> IF s \in S THEN FALSE ELSE fresh[s]]

\* Scaling several old sets in OldSeq order, stopping at the first
\* conflict: the sets written, and whether all writes succeeded.
FirstConflict(target) ==
    LET bad == {i \in DOMAIN OldSeq : /\ OldSeq[i] \in DOMAIN target
                                      /\ ~ScaleOk(OldSeq[i], target[OldSeq[i]])}
    IN IF bad = {} THEN Len(OldSeq) + 1 ELSE Min(bad)
ScaleOldSets(target) ==
    LET done == {OldSeq[i] : i \in 1..(FirstConflict(target) - 1)}
                \cap {s \in DOMAIN target : target[s] # snap[s].replicas}
    IN /\ replicas' = [s \in Sets |-> IF s \in done THEN target[s] ELSE replicas[s]]
       /\ fresh'    = Touch(done)

\* The machines an earlier in-place rollout moved into what is now an old
\* set: its syncMachineSets strips selected-for-update and update-successful
\* from the Machine (lines 150-154) but only update-successful and
\* ready-for-update from the Node (lines 182-184), so the Machine keeps
\* candidate-for-update and the Node candidate- and selected-for-update.
PriorLeftovers ==
    IF PriorInPlace THEN SUBSET {m \in Machines : InitOwner[m] \in OldSets}
                    ELSE {{}}

Init ==
    /\ owner       = InitOwner
    /\ \E prior \in PriorLeftovers :
          /\ mlabels = [m \in Machines |-> IF m \in prior THEN {Candidate} ELSE {}]
          /\ nlabels = [m \in Machines |-> IF m \in prior THEN {Candidate, Selected} ELSE {}]
    /\ hasNode     = [m \in Machines |-> InitOwner[m] # NoMS]
    /\ cordoned    = [m \in Machines |-> FALSE]
    /\ updated     = [m \in Machines |-> InitOwner[m] = New]
    /\ machineFails = 0
    /\ replicas    = [s \in Sets |-> Cardinality({m \in Machines : InitOwner[m] = s})]
    /\ skipUpdate  = [s \in Sets |-> FALSE]
    /\ availStatus = replicas
    /\ pc = "start"
    /\ snap  = [s \in Sets |-> [replicas |-> replicas[s], avail |-> availStatus[s]]]
    /\ fresh = [s \in Sets |-> TRUE]
    /\ idx = 1 /\ todo = {} /\ moved = 0 /\ added = 0 /\ budget = 0 /\ total = 0
    /\ failures = 0

(***************************************************************************)
(* The deployment reconciler: rolloutAutoInPlace, one API call per step.  *)
(***************************************************************************)
ResetLocals ==
    /\ idx' = 1 /\ todo' = {} /\ moved' = 0 /\ added' = 0
    /\ budget' = 0 /\ total' = 0

\* Mutant: the machineSetsScaledToZero test inverted.
SkipUpdateTargetsInverted ==
    IF OldSets # {} /\ \A s \in OldSets : replicas[s] = 0
    THEN {s \in OldSets : ~skipUpdate[s]}
    ELSE {}

\* Lines 26-73: read the MachineSets, label the old ones skip-update while
\* any of them still has replicas (a changed label bumps their
\* resourceVersion); the taint and autoscaler annotations are not state
\* any property reads.
SkipUpdateTargets ==
    IF OldSets # {} /\ \E s \in OldSets : replicas[s] # 0
    THEN {s \in OldSets : ~skipUpdate[s]}
    ELSE {}

Start ==
    LET newly == SkipUpdateTargets
    IN /\ pc = "start"
       /\ snap' = [s \in Sets |-> [replicas |-> replicas[s], avail |-> availStatus[s]]]
       /\ skipUpdate' = [s \in Sets |-> skipUpdate[s] \/ s \in newly]
       /\ fresh' = [s \in Sets |-> s \notin newly]
       /\ pc' = "cand"
       /\ ResetLocals
       /\ UNCHANGED <<cluster, replicas, availStatus, machineFails, failures>>

\* labelMachineSets (lines 532-550) patches the old sets one at a time and
\* returns at the first failed patch: the sets patched before it carry
\* skip-update, the others not, and rolloutAutoInPlace returns (line 52)
\* before anything else of the reconcile.
labelMachineSetsFails ==
    /\ pc = "start" /\ SkipUpdateTargets # {}
    /\ failures < MaxFailures /\ failures' = failures + 1
    /\ \E done \in SUBSET SkipUpdateTargets \ {SkipUpdateTargets} :
          skipUpdate' = [s \in Sets |-> skipUpdate[s] \/ s \in done]
    /\ UNCHANGED <<cluster, replicas, availStatus, machineFails, pc, snap, fresh,
                   idx, todo, moved, added, budget, total>>

\* labelNodesBackingMachineSets: every old machine with a node, and its
\* node, is labelled candidate-for-update.
labelNodesBackingMachineSets ==
    LET T == {m \in Machines : owner[m] \in OldSets /\ hasNode[m]}
    IN /\ pc = "cand"
       /\ mlabels' = AddLabel(mlabels, T, Candidate)
       /\ nlabels' = AddLabel(nlabels, T, Candidate)
       /\ pc' = "sync1"
       /\ UNCHANGED <<owner, hasNode, cordoned, updated, sets, snap, fresh,
                      idx, todo, moved, added, budget, total, failures>>

\* Lines 137-147: when the new set has more machines than replicas and
\* some carry update-successful, it is scaled up by at most that many.
NewSetSyncTarget ==
    LET ms   == MachinesOf(New)
        us   == {m \in ms : UpdSuccess \in mlabels[m]}
        base == snap[New].replicas
    IN IF Cardinality(ms) > base /\ us # {}
       THEN base + Min({Cardinality(us), Cardinality(ms) - base})
       ELSE base

\* syncMachineSets: scale the new set up to the machines it already owns
\* with update-successful, strip the in-place labels from those machines,
\* uncordon every node of the new set (failing on a machine without a
\* node), and scale each old set down to the machines it still has.
syncMachineSets(from, to) ==
    LET ms     == MachinesOf(New)
        us     == {m \in ms : UpdSuccess \in mlabels[m]}
        base   == snap[New].replicas
        n      == NewSetSyncTarget
        rep1   == Scale(New, n)
        fr1    == IF n = base THEN fresh ELSE Touch({New})
        lab1   == DropLabels(mlabels, us, {Selected, UpdSuccess})
        shrink == [s \in {t \in OldSets : Cardinality(MachinesOf(t)) < snap[t].replicas}
                      |-> Cardinality(MachinesOf(s))]
    IN /\ pc = from
       /\ \/ /\ ~ScaleOk(New, n)
             /\ pc' = "start"
             /\ UNCHANGED <<cluster, replicas, fresh>>
          \/ /\ ScaleOk(New, n)
             /\ \E m \in ms : ~hasNode[m]
             /\ \E done \in SUBSET {m \in ms : hasNode[m]} :
                   /\ cordoned' = [m \in Machines |-> cordoned[m] /\ m \notin done]
                   /\ nlabels'  = DropLabels(nlabels, done, {UpdSuccess, ReadyForUp})
             /\ replicas' = rep1 /\ fresh' = fr1 /\ mlabels' = lab1
             /\ pc' = "start"
             /\ UNCHANGED <<owner, hasNode, updated>>
          \/ /\ ScaleOk(New, n)
             /\ \A m \in ms : hasNode[m]
             /\ cordoned' = [m \in Machines |-> cordoned[m] /\ m \notin ms]
             /\ nlabels'  = DropLabels(nlabels, ms, {UpdSuccess, ReadyForUp})
             /\ mlabels'  = lab1
             /\ LET bad  == FirstConflict(shrink)
                    done == {OldSeq[i] : i \in 1..(bad - 1)} \cap
                            {s \in DOMAIN shrink : shrink[s] # snap[s].replicas}
                IN /\ replicas' = [s \in Sets |-> IF s \in done THEN shrink[s] ELSE rep1[s]]
                   /\ fresh' = [s \in Sets |-> IF s \in done THEN FALSE ELSE fr1[s]]
                   /\ pc' = IF bad > Len(OldSeq) THEN to ELSE "start"
             /\ UNCHANGED <<owner, hasNode, updated>>
       /\ UNCHANGED <<skipUpdate, availStatus, machineFails, snap, idx, todo, moved, added,
                      budget, total, failures>>

\* reconcileNewMachineSetInPlace, lines 212-224: nothing to do when the
\* new set has the deployment's replicas, scale it down when it has more,
\* otherwise start the transfer loop over the old sets.
reconcileNewMachineSetInPlace ==
    LET n == snap[New].replicas
    IN /\ pc = "new"
       /\ \/ /\ n = Replicas
             /\ pc' = "oldsel"
             /\ UNCHANGED <<replicas, fresh>>
          \/ /\ n > Replicas
             /\ IF ScaleOk(New, Replicas)
                THEN replicas' = Scale(New, Replicas) /\ fresh' = Touch({New})
                ELSE UNCHANGED <<replicas, fresh>>
             /\ pc' = "start"
          \/ /\ n < Replicas
             /\ pc' = IF OldSeq = <<>> THEN "scaleNew" ELSE "xferList"
             /\ UNCHANGED <<replicas, fresh>>
       /\ UNCHANGED <<cluster, skipUpdate, availStatus, machineFails, snap, idx, todo, moved,
                      added, budget, total, failures>>

\* Mutants: nodes taken as updated once drained (ready-for-update), or
\* the update-successful label looked up on the Machine, not the Node.
UpdatedNodesDrained(s) ==
    {m \in MachinesOf(s) : hasNode[m] /\ ReadyForUp \in nlabels[m]}
UpdatedNodesByMachineLabel(s) ==
    {m \in MachinesOf(s) : hasNode[m] /\ UpdSuccess \in mlabels[m]}

\* Lines 226-251: the machines of a set whose node is labelled
\* update-successful.
UpdatedNodes(s) == {m \in MachinesOf(s) : hasNode[m] /\ UpdSuccess \in nlabels[m]}

\* Lines 226-242: list the machines of the next old set and the nodes
\* labelled update-successful.
ListUpdatedNodes ==
    /\ pc = "xferList"
    /\ todo' = UpdatedNodes(OldSeq[idx])
    /\ moved' = 0
    /\ pc' = "xfer"
    /\ UNCHANGED <<cluster, sets, snap, fresh, idx, added, budget, total, failures>>

\* Lines 254-262, 283-291: one patch moves the machine to the new set
\* (selector labels, update-successful, controller ownerRef), then its
\* node is uncordoned.
TransferMachine(m) ==
    /\ pc = "xfer" /\ m \in todo /\ owner[m] # NoMS
    /\ ~SeparateClusters
    /\ owner'    = [owner EXCEPT ![m] = New]
    /\ mlabels'  = [mlabels EXCEPT ![m] = @ \cup {UpdSuccess}]
    /\ cordoned' = [cordoned EXCEPT ![m] = FALSE]
    /\ todo' = todo \ {m}
    /\ moved' = moved + 1 /\ added' = added + 1
    /\ UNCHANGED <<hasNode, nlabels, updated, sets, pc, snap, fresh, idx,
                   budget, total, failures>>

\* Lines 284-288: the patch succeeded but the node update fails; the
\* reconcile returns without scaling either set.  The Update is sent with
\* controlCoreClient (line 285): with separate control and target
\* clusters the node is not found there and the call always fails.
UncordonFails(m) ==
    /\ pc = "xfer" /\ m \in todo /\ owner[m] # NoMS
    /\ \/ SeparateClusters /\ UNCHANGED failures
       \/ failures < MaxFailures /\ failures' = failures + 1
    /\ owner'   = [owner EXCEPT ![m] = New]
    /\ mlabels' = [mlabels EXCEPT ![m] = @ \cup {UpdSuccess}]
    /\ pc' = "start"
    /\ UNCHANGED <<hasNode, nlabels, cordoned, updated, sets, snap, fresh,
                   idx, todo, moved, added, budget, total>>

\* Line 263: the patch fails (the machine is gone, or any API error).
PatchFails(m) ==
    /\ pc = "xfer" /\ m \in todo
    /\ \/ owner[m] = NoMS /\ UNCHANGED failures
       \/ owner[m] # NoMS /\ failures < MaxFailures /\ failures' = failures + 1
    /\ pc' = "xferFail"
    /\ UNCHANGED <<cluster, sets, snap, fresh, idx, todo, moved, added,
                   budget, total>>

\* Lines 265-280: after a failed patch, scale the new set up by what was
\* added and the current old set down by what it gave, then return.
RecoverPartialTransfer ==
    LET s  == OldSeq[idx]
        n1 == snap[New].replicas + added
        n2 == snap[s].replicas - moved
        ok1 == ScaleOk(New, n1)
        ok2 == ok1 /\ ScaleOk(s, n2)
        r1 == IF ok1 THEN Scale(New, n1) ELSE replicas
    IN /\ pc = "xferFail"
       /\ replicas' = IF ok2 /\ n2 # snap[s].replicas
                      THEN [r1 EXCEPT ![s] = n2] ELSE r1
       /\ fresh' = Touch({t \in {New, s} :
                            \/ t = New /\ ok1 /\ n1 # snap[New].replicas
                            \/ t = s /\ ok2 /\ n2 # snap[s].replicas})
       /\ pc' = "start"
       /\ UNCHANGED <<cluster, skipUpdate, availStatus, machineFails, snap, idx, todo,
                      moved, added, budget, total, failures>>

\* Lines 294-299: every updated node of this old set handled; scale the
\* old set down by the machines it gave to the new set.
ScaleDownOldSet ==
    LET s == OldSeq[idx]
        n == snap[s].replicas - moved
    IN /\ pc = "xfer" /\ todo = {}
       /\ IF ScaleOk(s, n)
          THEN /\ replicas' = Scale(s, n)
               /\ fresh' = IF n = snap[s].replicas THEN fresh ELSE Touch({s})
               /\ pc' = IF idx < Len(OldSeq) THEN "xferList" ELSE "scaleNew"
               /\ idx' = IF idx < Len(OldSeq) THEN idx + 1 ELSE idx
          ELSE /\ pc' = "start"
               /\ UNCHANGED <<replicas, fresh, idx>>
       /\ UNCHANGED <<cluster, skipUpdate, availStatus, machineFails, snap, todo, moved,
                      added, budget, total, failures>>

\* Lines 302-304 and 89-97: scale the new set up by the machines it
\* received; if it was scaled the reconcile ends with the status sync.
ScaleUpNewSet ==
    LET n == snap[New].replicas + added
    IN /\ pc = "scaleNew"
       /\ \/ /\ added = 0
             /\ pc' = "oldsel"
             /\ UNCHANGED <<replicas, fresh>>
          \/ /\ added > 0
             /\ IF ScaleOk(New, n)
                THEN replicas' = Scale(New, n) /\ fresh' = Touch({New})
                ELSE UNCHANGED <<replicas, fresh>>
             /\ pc' = "start"
       /\ UNCHANGED <<cluster, skipUpdate, availStatus, machineFails, snap, idx, todo, moved,
                      added, budget, total, failures>>

\* Mutant: an off-by-one in the active-set filter.
ActiveOldOffByOne == SelectSeq(OldSeq, LAMBDA s : snap[s].replicas > 1)

\* The old sets with replicas, oldest first (FilterActiveMachineSets and
\* the sort by creation timestamp in selectMachineForUpdate).
ActiveOld == SelectSeq(OldSeq, LAMBDA s : snap[s].replicas > 0)

\* getMachinesUndergoingUpdate: machines of the active old sets that are
\* labelled selected-for-update.
getMachinesUndergoingUpdate ==
    Cardinality({m \in Machines : /\ owner[m] \in {ActiveOld[i] : i \in DOMAIN ActiveOld}
                                  /\ Selected \in mlabels[m]})

\* Mutant: the availableMachineCount <= minAvailable guard dropped.
ReadyForUpdateCountNoGuard ==
    SnapAvail(Sets) - getMachinesUndergoingUpdate - (Replicas - MaxUnavail)

\* Lines 357-369 of selectMachineForUpdate: the machines the availability
\* budget lets go into update, from the sets' Status.AvailableReplicas
\* as read at reconcile start, less those already selected.
ReadyForUpdateCount ==
    LET minAvail   == Replicas - MaxUnavail
        availCount == SnapAvail(Sets) - getMachinesUndergoingUpdate
    IN IF availCount <= minAvail THEN 0 ELSE availCount - minAvail

\* reconcileOldMachineSetsInPlace: scale the old sets to zero once the new
\* set is full, otherwise stop when maxUpdatePossible is not positive, or
\* enter the selection loop of selectMachineForUpdate with its budget
\* (a zero budget ends the loop at once).
reconcileOldMachineSetsInPlace ==
    LET act        == {ActiveOld[i] : i \in DOMAIN ActiveOld}
        minAvail   == Replicas - MaxUnavail
        newUnavail == snap[New].replicas - snap[New].avail
        maxUpdate  == SnapSum(Sets) - minAvail - newUnavail - getMachinesUndergoingUpdate
    IN /\ pc = "oldsel"
       /\ \/ /\ SnapSum(act) = 0
             /\ pc' = "sync2"
             /\ UNCHANGED <<replicas, fresh, budget>>
          \/ /\ SnapSum(act) > 0 /\ snap[New].replicas = Replicas
             /\ ScaleOldSets([s \in act |-> 0])
             /\ pc' = "start"
             /\ UNCHANGED budget
          \/ /\ SnapSum(act) > 0 /\ snap[New].replicas # Replicas
             /\ maxUpdate <= 0
             /\ pc' = "sync2"
             /\ UNCHANGED <<replicas, fresh, budget>>
          \/ /\ SnapSum(act) > 0 /\ snap[New].replicas # Replicas
             /\ maxUpdate > 0
             /\ budget' = ReadyForUpdateCount
             /\ pc' = "select"
             /\ UNCHANGED <<replicas, fresh>>
       /\ idx' = 1 /\ total' = 0
       /\ UNCHANGED <<cluster, skipUpdate, availStatus, machineFails, snap, todo, moved, added,
                      failures>>

\* getMachinesForDrain: candidates of the set not yet selected.
getMachinesForDrain(s) ==
    {m \in MachinesOf(s) : Candidate \in mlabels[m] /\ Selected \notin mlabels[m]}

\* The machines one iteration picks: readyForDrain = min(replicas, budget
\* left) of the set's candidates not yet selected (lines 384-386, 453-454).
SelectionPicks ==
    LET s    == ActiveOld[idx]
        k    == Min({snap[s].replicas, budget - total})
        pool == getMachinesForDrain(s)
    IN kSubset(Min({k, Cardinality(pool)}), pool)

\* One iteration of the loop of selectMachineForUpdate with
\* labelMachinesToSelectedForUpdate: label up to the remaining budget of
\* the set's candidates, and their nodes, selected-for-update.  A machine
\* whose node already carries the label is not counted.
labelMachinesToSelectedForUpdate ==
    /\ pc = "select" /\ idx <= Len(ActiveOld) /\ total < budget
    /\ \E pick \in SelectionPicks :
          LET withNode == {m \in pick : hasNode[m]}
              counted  == {m \in pick : ~hasNode[m] \/ Selected \notin nlabels[m]}
          IN /\ mlabels' = AddLabel(mlabels, pick, Selected)
             /\ nlabels' = AddLabel(nlabels, withNode, Selected)
             /\ total' = total + Cardinality(counted)
    /\ idx' = idx + 1
    /\ UNCHANGED <<owner, hasNode, cordoned, updated, sets, pc, snap, fresh,
                   todo, moved, added, budget, failures>>

\* Lines 468-488: the machine patch of a picked machine succeeds and the
\* Update of its node fails; the machines before it in the loop are fully
\* labelled and the reconcile returns.  Nothing labels that node later:
\* getMachinesForDrain skips machines already selected.
SelectNodeFails ==
    /\ pc = "select" /\ idx <= Len(ActiveOld) /\ total < budget
    /\ NodeLabelFails /\ failures < MaxFailures
    /\ \E pick \in SelectionPicks :
          \E x \in {m \in pick : hasNode[m] /\ Selected \notin nlabels[m]} :
             \E done \in SUBSET (pick \ {x}) :
                /\ mlabels' = AddLabel(mlabels, done \cup {x}, Selected)
                /\ nlabels' = AddLabel(nlabels, {m \in done : hasNode[m]}, Selected)
    /\ failures' = failures + 1 /\ pc' = "start"
    /\ UNCHANGED <<owner, hasNode, cordoned, updated, sets, snap, fresh, idx,
                   todo, moved, added, budget, total>>

\* The loop ends: the reconcile returns if anything was selected,
\* otherwise it goes on to the second syncMachineSets (lines 100-111).
SelectionDone ==
    /\ pc = "select" /\ (idx > Len(ActiveOld) \/ total >= budget)
    /\ pc' = IF total > 0 THEN "start" ELSE "sync2"
    /\ UNCHANGED <<cluster, sets, snap, fresh, idx, todo, moved, added,
                   budget, total, failures>>

\* Lines 113-128: once the deployment is complete the autoscaler
\* annotations are removed and old sets cleaned up; neither is state the
\* properties read.  The reconcile ends with the status sync.
Complete ==
    /\ pc = "complete"
    /\ pc' = "start"
    /\ UNCHANGED <<cluster, sets, snap, fresh, idx, todo, moved, added,
                   budget, total, failures>>

\* Any API call of the reconcile fails, or the controller restarts: the
\* in-flight reconcile is abandoned and the key is requeued.
ReconcileError ==
    /\ pc # "start"
    /\ failures < MaxFailures /\ failures' = failures + 1
    /\ pc' = "start"
    /\ UNCHANGED <<cluster, sets, snap, fresh, idx, todo, moved, added,
                   budget, total>>

(***************************************************************************)
(* The collaborators, modelled from the spec (section 4.E and the         *)
(* in-place handshake of 4.F): their code is not in this repository.      *)
(***************************************************************************)
Fresh(m, s) ==
    /\ owner'    = [owner EXCEPT ![m] = s]
    /\ mlabels'  = [mlabels EXCEPT ![m] = {}]
    /\ hasNode'  = [hasNode EXCEPT ![m] = FALSE]
    /\ nlabels'  = [nlabels EXCEPT ![m] = {}]
    /\ cordoned' = [cordoned EXCEPT ![m] = FALSE]
    /\ updated'  = [updated EXCEPT ![m] = (s = New)]

\* The MachineSet controller creates a machine from the set's template
\* while it has fewer machines than replicas, unless it is skip-update.
MachineSetCreate(s) ==
    /\ Cardinality(MachinesOf(s)) < replicas[s] /\ ~skipUpdate[s]
    /\ \E m \in Machines : owner[m] = NoMS /\ Fresh(m, s)
    /\ UNCHANGED <<sets, reconciler>>

\* ... and deletes one while it has more machines than replicas (spec
\* 4.E; the priority annotation that orders the victims is not modelled,
\* so any machine of the set may go).  With ProtectTransfer it spares the
\* machines labelled update-successful, which syncMachineSets (lines
\* 137-147) counts in when it finds the new set short; the spec does not
\* say the MachineSet controller does so.
Deletable(s) ==
    {m \in MachinesOf(s) : ~ProtectTransfer \/ UpdSuccess \notin mlabels[m]}
MachineSetDelete(s) ==
    /\ Cardinality(Deletable(s)) > replicas[s]
    /\ \E m \in Deletable(s) : Fresh(m, NoMS)
    /\ UNCHANGED <<sets, reconciler>>

\* ... and publishes Status.AvailableReplicas, a write that changes the
\* set's resourceVersion.
MachineSetStatus(s) ==
    /\ availStatus[s] # Cardinality(AvailableIn(s))
    /\ availStatus' = [availStatus EXCEPT ![s] = Cardinality(AvailableIn(s))]
    /\ fresh' = Touch({s})
    /\ UNCHANGED <<cluster, replicas, skipUpdate, machineFails, pc, snap, idx, todo, moved,
                   added, budget, total, failures>>

\* A machine goes Failed (health or creation timeout, spec 4.C) and the
\* MachineSet controller deletes it so that it can be replaced.
MachineFailed(m) ==
    /\ owner[m] # NoMS /\ machineFails < MaxMachineFails
    /\ machineFails' = machineFails + 1
    /\ Fresh(m, NoMS)
    /\ UNCHANGED <<replicas, skipUpdate, availStatus, reconciler>>

\* The node of a created machine joins the cluster.
NodeJoin(m) ==
    /\ owner[m] # NoMS /\ ~hasNode[m]
    /\ hasNode' = [hasNode EXCEPT ![m] = TRUE]
    /\ UNCHANGED <<owner, mlabels, nlabels, cordoned, updated, sets, reconciler>>

\* The node agent observes selected-for-update on its Node (spec 4.F step
\* 5), cordons and drains it and marks it ready-for-update.  (The code
\* comment at line 466 says the machine controller acts on the Machine's
\* label; the spec's Node label is modelled, as the selection loop sets both.)
DrainNode(m) ==
    /\ owner[m] # NoMS /\ hasNode[m] /\ ~updated[m]
    /\ Selected \in nlabels[m] /\ ReadyForUp \notin nlabels[m]
    /\ cordoned' = [cordoned EXCEPT ![m] = TRUE]
    /\ nlabels'  = [nlabels EXCEPT ![m] = @ \cup {ReadyForUp}]
    /\ UNCHANGED <<owner, mlabels, hasNode, updated, sets, reconciler>>

\* The node agent updates a drained node and labels it update-successful.
UpdateNode(m) ==
    /\ owner[m] # NoMS /\ hasNode[m] /\ ~updated[m]
    /\ ReadyForUp \in nlabels[m]
    /\ updated' = [updated EXCEPT ![m] = TRUE]
    /\ nlabels' = [nlabels EXCEPT ![m] = @ \cup {UpdSuccess}]
    /\ UNCHANGED <<owner, mlabels, hasNode, cordoned, sets, reconciler>>

Reconcile ==
    \/ Start
    \/ labelNodesBackingMachineSets
    \/ syncMachineSets("sync1", "new")
    \/ reconcileNewMachineSetInPlace
    \/ ListUpdatedNodes
    \/ \E m \in Machines : TransferMachine(m)
    \/ RecoverPartialTransfer
    \/ ScaleDownOldSet
    \/ ScaleUpNewSet
    \/ reconcileOldMachineSetsInPlace
    \/ labelMachinesToSelectedForUpdate
    \/ SelectionDone
    \/ syncMachineSets("sync2", "complete")
    \/ Complete

Environment ==
    \/ \E s \in Sets : MachineSetCreate(s) \/ MachineSetDelete(s) \/ MachineSetStatus(s)
    \/ \E m \in Machines : NodeJoin(m) \/ DrainNode(m) \/ UpdateNode(m)
    \/ \E m \in Machines : MachineFailed(m)

Failure ==
    \/ ReconcileError
    \/ \E m \in Machines : UncordonFails(m) \/ PatchFails(m)
    \/ SelectNodeFails
    \/ labelMachineSetsFails

Next == Reconcile \/ Failure \/ Environment

\* The reconciler is weakly fair: the workqueue requeues the key after
\* every reconcile, and once the bounded failures are spent each step
\* stays enabled until it is taken.  The collaborators are weakly fair.
\* With separate clusters the failing uncordon is the reconciler's own
\* next call, not a transient error, and is as fair as the other steps.
Fairness ==
    /\ WF_vars(Reconcile)
    /\ WF_vars(SeparateClusters /\ \E m \in Machines : UncordonFails(m))
    /\ \A s \in Sets : /\ WF_vars(MachineSetCreate(s))
                       /\ WF_vars(MachineSetDelete(s))
                       /\ WF_vars(MachineSetStatus(s))
    /\ \A m \in Machines : /\ WF_vars(NodeJoin(m)) /\ WF_vars(DrainNode(m))
                           /\ WF_vars(UpdateNode(m))

Spec     == Init /\ [][Next]_vars
FairSpec == Spec /\ Fairness

(***************************************************************************)
(* Properties                                                              *)
(***************************************************************************)
TypeOK ==
    /\ owner \in [Machines -> Sets \cup {NoMS}]
    /\ mlabels \in [Machines -> SUBSET MLabels]
    /\ nlabels \in [Machines -> SUBSET NLabels]
    /\ hasNode \in [Machines -> BOOLEAN]
    /\ cordoned \in [Machines -> BOOLEAN]
    /\ updated \in [Machines -> BOOLEAN]
    /\ machineFails \in 0..MaxMachineFails
    /\ replicas \in [Sets -> 0..Cardinality(Machines)]
    /\ skipUpdate \in [Sets -> BOOLEAN]
    /\ availStatus \in [Sets -> 0..Cardinality(Machines)]
    /\ pc \in Steps
    /\ snap \in [Sets -> [replicas : 0..Cardinality(Machines), avail : 0..Cardinality(Machines)]]
    /\ fresh \in [Sets -> BOOLEAN]
    /\ idx \in 1..Len(OldSeq) + 1
    /\ todo \subseteq Machines
    /\ moved \in 0..Cardinality(Machines) /\ added \in 0..Cardinality(Machines)
    /\ budget \in 0..Cardinality(Sets) * Cardinality(Machines)
    /\ total \in 0..Cardinality(Machines)
    /\ failures \in 0..MaxFailures

\* Availability budget (spec section 4.F): the selection of machines for
\* update by reconcileOldMachineSetsInPlace / selectMachineForUpdate never
\* leaves fewer than Replicas - maxUnavailable machines with a schedulable,
\* joined node.
AvailabilityBudget ==
    Cardinality({m \in Machines : Available(m)}) >= Replicas - MaxUnavail

\* Every cordoned node of an old set belongs to a Machine labelled
\* selected-for-update, i.e. one getMachinesUndergoingUpdate counts:
\* maxUpdatePossible and selectMachineForUpdate subtract exactly those
\* machines, so a drained node the count misses is unavailability the
\* maxUnavailable arithmetic never sees.  Holds only while the node
\* agent's trigger (the Node label) is never set without the Machine label.
UnavailableCounted ==
    \A m \in Machines : owner[m] \in OldSets /\ cordoned[m] => Selected \in mlabels[m]

\* maxSurge is 0: the transfer of machines between sets and the scaling
\* done by syncMachineSets never lets the MachineSet controller bring up a
\* machine beyond the deployment's replicas.
NoSurge ==
    Cardinality({m \in Machines : owner[m] # NoMS}) <= Replicas

\* A machine enters the new set only once its node was updated
\* (reconcileNewMachineSetInPlace moves only update-successful nodes).
OnlyUpdatedMachinesMove ==
    [][\A m \in Machines : owner[m] \in OldSets /\ owner'[m] = New => updated[m]]_owner

\* "during the ownership transfer, the machine is not deleted" (comment
\* above reconcileNewMachineSetInPlace): an updated machine is removed
\* only when it fails, never as an excess machine of a set whose
\* replicas the transfer has not caught up with.
UpdatedMachineNotDeleted ==
    [][\A m \in Machines :
         owner[m] # NoMS /\ updated[m] /\ owner'[m] = NoMS
            => machineFails' = machineFails + 1]_<<owner, machineFails>>

\* The rollout finishes: the old sets are scaled to zero and empty and
\* the new set owns Replicas updated machines on schedulable nodes, and
\* it stays so.  Needs every step of the reconcile, the handshake with
\* the node agent and the MachineSet controllers to interlock.
Completed ==
    /\ \A s \in OldSets : replicas[s] = 0 /\ MachinesOf(s) = {}
    /\ replicas[New] = Replicas
    /\ Cardinality(MachinesOf(New)) = Replicas
    /\ \A m \in MachinesOf(New) : updated[m] /\ Available(m)
RolloutCompletes == <>[]Completed

(***************************************************************************)
(* Refinement: the rollout and its collaborators implement RolloutSpec.    *)
(* A machine's generation is that of the MachineSet whose selector and     *)
(* ownerRef it carries; its node is down while cordoned.                   *)
(***************************************************************************)
Generation ==
    [m \in Machines |-> IF owner[m] \in OldSets THEN "old"
                       ELSE IF owner[m] = New THEN "new" ELSE "none"]

Abstract == INSTANCE RolloutSpec WITH where <- Generation, upd <- updated,
                                      down <- cordoned

\* Every step of the reconciler, the MachineSet controllers and the node
\* handshake is a step of RolloutSpec: no machine is created beyond the
\* deployment's replicas, only old machines that are not updated are
\* drained, only updated machines change generation, and only nodes of
\* the new generation are uncordoned.
RolloutRefinement == Abstract!Spec

=============================================================================
