----------------------------- MODULE RolloutSpec -----------------------------
(***************************************************************************)
(* What an in-place rollout of a MachineDeployment promises, machine by   *)
(* machine (spec.md section 4.F), without MachineSets, labels or API       *)
(* calls.  A machine is in the old generation, in the new one, or does not *)
(* exist; its node may be taken down (cordoned and drained) and updated.   *)
(*                                                                         *)
(*  - a machine is created only while fewer than Replicas exist (maxSurge *)
(*    is 0), in either generation, from that generation's template;       *)
(*  - only an old, not yet updated machine is taken down;                  *)
(*  - only a taken-down machine is updated;                                *)
(*  - only an updated machine joins the new generation, keeping its node, *)
(*    which may be brought back at the same time or later;                 *)
(*  - any machine may disappear (failure or scale-down).                   *)
(***************************************************************************)
EXTENDS Naturals, FiniteSets

CONSTANTS Machines, Replicas

VARIABLES where, upd, down

vars == <<where, upd, down>>

Generations == {"old", "new"}
Existing    == {m \in Machines : where[m] # "none"}

Init ==
    /\ where \in [Machines -> Generations \cup {"none"}]
    /\ upd  = [m \in Machines |-> where[m] = "new"]
    /\ down = [m \in Machines |-> FALSE]

Create(m) ==
    /\ where[m] = "none" /\ Cardinality(Existing) < Replicas
    /\ \E g \in Generations :
          /\ where' = [where EXCEPT ![m] = g]
          /\ upd'   = [upd EXCEPT ![m] = (g = "new")]
    /\ down' = [down EXCEPT ![m] = FALSE]

Remove(m) ==
    /\ where[m] # "none"
    /\ where' = [where EXCEPT ![m] = "none"]
    /\ upd'   = [upd EXCEPT ![m] = FALSE]
    /\ down'  = [down EXCEPT ![m] = FALSE]

TakeDown(m) ==
    /\ where[m] = "old" /\ ~upd[m]
    /\ down' = [down EXCEPT ![m] = TRUE]
    /\ UNCHANGED <<where, upd>>

Update(m) ==
    /\ where[m] = "old" /\ down[m] /\ ~upd[m]
    /\ upd' = [upd EXCEPT ![m] = TRUE]
    /\ UNCHANGED <<where, down>>

Move(m) ==
    /\ where[m] = "old" /\ upd[m]
    /\ where' = [where EXCEPT ![m] = "new"]
    /\ down' \in {down, [down EXCEPT ![m] = FALSE]}
    /\ UNCHANGED upd

\* Nodes of the new generation are brought back, several at a time.
BringBack ==
    /\ \E S \in SUBSET {m \in Machines : where[m] = "new" /\ down[m]} :
          down' = [m \in Machines |-> down[m] /\ m \notin S]
    /\ UNCHANGED <<where, upd>>

Next ==
    \/ \E m \in Machines : Create(m) \/ Remove(m) \/ TakeDown(m)
                           \/ Update(m) \/ Move(m)
    \/ BringBack

Spec == Init /\ [][Next]_vars

=============================================================================
