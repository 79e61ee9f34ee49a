--------------------------- MODULE MCGuestAccess ---------------------------
(* Small instances of GuestAccess for TLC. *)
EXTENDS GuestAccess, TLC

CONSTANTS p1, p2, r1, e1, e2

Pol(e) == [published |-> TRUE, binds |-> [r \in Resources |-> e]]
MCPolicies == {Pol(e1), Pol(e2), NoPolicy}
OnePolicy == {Pol(e1)}

\* Every kind of grant, expiring when half of the run is over.
MidGrants == {rec \in GrantRec : rec.expires = 2}
\* Grants without a code.
PlainGrants == {rec \in GrantRec : ~rec.verify /\ rec.expires >= 1}

\* The entities that a policy binds are interchangeable.
EntitySymmetry == Permutations(Entities)

=============================================================================
