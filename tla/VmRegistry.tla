----------------------------- MODULE VmRegistry -----------------------------
(***************************************************************************)
(* What the state directory promises about each VM name.  A name is        *)
(* claimed before its VM is up; a VM that is up only ever goes down, and   *)
(* only a VM that is down is forgotten.                                    *)
(***************************************************************************)
CONSTANT Names

VARIABLE reg

States == {"free", "claimed", "up", "down"}

Init == reg = [n \in Names |-> "free"]

Becomes(n, from, to) == reg[n] = from /\ reg' = [reg EXCEPT ![n] = to]

Claim(n) == Becomes(n, "free", "claimed")
Abandon(n) == Becomes(n, "claimed", "free")
\* the record is written; the guest may have died by then
Publish(n) == Becomes(n, "claimed", "up") \/ Becomes(n, "claimed", "down")
GoDown(n) == Becomes(n, "up", "down")
Forget(n) == Becomes(n, "down", "free")

Next == \E n \in Names : Claim(n) \/ Abandon(n) \/ Publish(n) \/ GoDown(n) \/ Forget(n)

Spec == Init /\ [][Next]_reg
=============================================================================
