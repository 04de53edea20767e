----------------------------- MODULE MCSysparam -----------------------------
(* Instances of Sysparam for TLC: keys are model values, and there are two *)
(* values, one of which takes more room than the other.                    *)
EXTENDS Sysparam, TLC

CONSTANTS v1, v2

MCVal == {v1, v2}
MCValSize == [v \in MCVal |-> IF v = v1 THEN 2 ELSE 3]

(* One value, where only the ids and the end of a call matter.             *)
MCOneVal == {v1}
MCOneValSize == [v \in MCOneVal |-> 2]

(* The keys are interchangeable.                                       *)
MCSymmetry == Permutations(Key)

(* No step reads the last status.  No step reads the entries of a stale    *)
(* region beside an active one, unless it is the one mounted (a compaction *)
(* could not switch) or its old value is still to be deleted.              *)
Unread(r) ==
  /\ hdr[r] = "stale" /\ hdr[Other(r)] = "active"
  /\ ~(cur = r /\ pc \in PcMounted) /\ why # "force"
MCView ==
  <<hdr, [r \in Region |-> IF Unread(r) THEN <<>> ELSE log[r]],
    ramVars, pc, callVars, ghostVars>>
=============================================================================
