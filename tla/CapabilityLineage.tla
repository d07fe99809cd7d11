-------------------------- MODULE CapabilityLineage --------------------------
(***************************************************************************)
(* What capability issuance, rotation and revocation promise together: an  *)
(* issued capability and all its replacements form one lineage, which has  *)
(* one valid holder at a time and one authority for all its life, and a    *)
(* revoked lineage never comes back.                                       *)
(***************************************************************************)

CONSTANTS
    Ids,           \* capability identifiers; a lineage is named by its first
    Authorities,   \* what a capability may be bound to
    None,          \* no capability was issued
    Dead           \* the last holder was revoked

VARIABLES
    used,        \* the identifiers handed out
    holder,      \* per lineage, its valid identifier
    authority    \* per lineage, the authorities its members were bound to

vars == <<used, holder, authority>>

Init ==
    /\ used = {}
    /\ holder = [r \in Ids |-> None]
    /\ authority = [r \in Ids |-> {}]

\* A fresh identifier starts a lineage.
Issue(r) ==
    /\ r \notin used
    /\ used' = used \cup {r}
    /\ holder' = [holder EXCEPT ![r] = r]
    /\ \E a \in Authorities : authority' = [authority EXCEPT ![r] = {a}]

\* A fresh identifier takes over the lineage, with the authority it had.
Rotate(r, i) ==
    /\ holder[r] \in Ids
    /\ i \notin used
    /\ used' = used \cup {i}
    /\ holder' = [holder EXCEPT ![r] = i]
    /\ UNCHANGED authority

Revoke(r) ==
    /\ holder[r] \in Ids
    /\ holder' = [holder EXCEPT ![r] = Dead]
    /\ UNCHANGED <<used, authority>>

Next == \E r \in Ids : Issue(r) \/ Revoke(r) \/ \E i \in Ids : Rotate(r, i)

Spec == Init /\ [][Next]_vars

=============================================================================
