------------------------- MODULE MCInPlaceRollout -------------------------
(* Model-checking instances: one or two old MachineSets holding three    *)
(* machines, one spare machine name for a replacement the MachineSet     *)
(* controller makes, maxUnavailable 1.                                   *)
EXTENDS InPlaceRollout

CONSTANTS m1, m2, m3, m4, o1, o2

MCOldSeq    == <<o1>>
MCInitOwner == [m \in {m1, m2, m3, m4} |-> IF m = m4 THEN NoMS ELSE o1]

\* Two old MachineSets left by earlier rollouts: o1 (older) with two
\* machines, o2 with one.
MCOldSeq2    == <<o1, o2>>
MCInitOwner2 == [m \in {m1, m2, m3, m4} |->
                    CASE m \in {m1, m2} -> o1 [] m = m3 -> o2 [] OTHER -> NoMS]

\* The deployment was scaled down from four to two replicas in the middle
\* of a rollout: the new set holds three updated machines, o1 one.
MCInitOwnerDown == [m \in {m1, m2, m3, m4} |-> IF m = m4 THEN o1 ELSE New]
=============================================================================
