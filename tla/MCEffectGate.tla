---------------------------- MODULE MCEffectGate ----------------------------
(* Instances of the mutation gate. *)
EXTENDS EffectGate, TLC

CONSTANTS r1, r2, r3, r4, r5, gA, gB, gC, kA, kB

OneKey == {kA}
TwoKeys == {kA, kB}
OneGrant == {gA}

\* r1, r2 and r3 present the same owner lease.
ThreeReqs == {r1, r2, r3}
LeaseReq == [r \in Req |-> gA]
LeaseKey == [g \in Grant |-> kA]
LeaseKind == [g \in Grant |-> "owner"]

\* r1, r2 and r5 present one installer approval and r3 an owner lease for the same
\* key, r4 an owner lease for another key.
FiveReqs == {r1, r2, r3, r4, r5}
Approved == Permutations({r1, r2, r5})
ThreeGrants == {gA, gB, gC}
MixedReq == [r \in Req |-> IF r = r3 THEN gB ELSE IF r = r4 THEN gC ELSE gA]
MixedKey == [g \in Grant |-> IF g = gC THEN kB ELSE kA]
MixedKind == [g \in Grant |-> IF g = gA THEN "installer" ELSE "owner"]
=============================================================================
