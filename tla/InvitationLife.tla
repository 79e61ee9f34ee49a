--------------------------- MODULE InvitationLife ---------------------------
(***************************************************************************)
(* What the LayerV broker promises about an invitation, without saying how *)
(* (layerv_broker.py, guest_resources.py).  A grant is asked for, may come *)
(* into force, and ends; its invitation appears at LayerV at most once,    *)
(* and is withdrawn at most once.  A grant comes into force only with a    *)
(* usable invitation, and an invitation is never withdrawn while its grant *)
(* is in force.                                                            *)
(***************************************************************************)
CONSTANT Grants

VARIABLES
    want,  \* [Grants -> ...]: what the Gateway has made of a grant
    have   \* [Grants -> ...]: its invitation at LayerV

vars == <<want, have>>

Init ==
    /\ want = [g \in Grants |-> "idle"]
    /\ have = [g \in Grants |-> "unborn"]

Ask(g) ==
    /\ want[g] = "idle"
    /\ want' = [want EXCEPT ![g] = "asked"]
    /\ UNCHANGED have

\* The Gateway may have given up by the time the invitation appears.
Appear(g) ==
    /\ have[g] = "unborn" /\ want[g] \in {"asked", "over"}
    /\ have' = [have EXCEPT ![g] = "usable"]
    /\ UNCHANGED want

Commit(g) ==
    /\ want[g] = "asked" /\ have[g] = "usable"
    /\ want' = [want EXCEPT ![g] = "inforce"]
    /\ UNCHANGED have

\* Revoked, expired or given up; a deleted page ends all its grants at once.
End(G) ==
    /\ \A g \in G : want[g] \in {"asked", "inforce"}
    /\ want' = [g \in Grants |-> IF g \in G THEN "over" ELSE want[g]]
    /\ UNCHANGED have

\* A resource goes with all the invitations on it.
Withdraw(G) ==
    /\ \A g \in G : have[g] = "usable" /\ want[g] # "inforce"
    /\ have' = [g \in Grants |-> IF g \in G THEN "withdrawn" ELSE have[g]]
    /\ UNCHANGED want

Next ==
    \/ \E g \in Grants : Ask(g) \/ Appear(g) \/ Commit(g)
    \/ \E G \in SUBSET Grants : End(G) \/ Withdraw(G)

Spec == Init /\ [][Next]_vars

-----------------------------------------------------------------------------
\* A guest whose grant is in force can use its invitation, and a grant that nobody has asked
\* for has none.  What follows for the broker is proved in InvitationsProofs.
Promise ==
    /\ want \in [Grants -> {"idle", "asked", "inforce", "over"}]
    /\ have \in [Grants -> {"unborn", "usable", "withdrawn"}]
    /\ \A g \in Grants : want[g] = "inforce" => have[g] = "usable"
    /\ \A g \in Grants : want[g] = "idle" => have[g] = "unborn"

\* What is over stays over, and what was withdrawn is never usable again.
AllFinal ==
    \A g \in Grants : /\ want[g] = "over" => want'[g] = "over"
                      /\ have[g] = "withdrawn" => have'[g] = "withdrawn"
NothingReturns == [][AllFinal]_vars
=============================================================================
