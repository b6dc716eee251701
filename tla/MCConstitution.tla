--------------------------- MODULE MCConstitution ---------------------------
(***************************************************************************)
(* Constitution for TLC: two replicas, a baseline and two versions drafted *)
(* after it, one of which asks for approvers of different roles.  Two      *)
(* alterations are properly approved, one by the same person under two     *)
(* spellings.                                                              *)
(***************************************************************************)
EXTENDS Constitution, TLC

CONSTANTS base, diverse, lax, ann, ben, benAgain, cat, nobody,
          toDiverse, toLax, byOne

Spellings == [ i \in Ids |-> IF i = benAgain THEN ben ELSE i ]

Alteration(differ) ==
  [ approval |-> "TWO_PERSON", roles |-> { "steward", "director" }, diverse |-> differ ]

Written(version, differ) ==
  [ version    |-> version,
    categories |-> [ alter |-> Alteration(differ),
                     read  |-> [ approval |-> "NONE", roles |-> {}, diverse |-> FALSE ] ],
    actions    |-> [ alteration |-> "alter", view |-> "read", bypass |-> "alter" ],
    roles      |-> [ steward |-> { "alteration", "view" }, director |-> { "view" } ],
    prohibited |-> { "bypass" } ]

Policies == [ v \in Versions |-> Written(v, v = diverse) ]

Ask(action, to, approvals) ==
  [ action |-> action, to |-> to, approvals |-> approvals,
    actor  |-> [ id |-> ann, roles |-> { "steward" }, org |-> "platform", clearance |-> 3,
                 purpose |-> TRUE, trust |-> "TRUSTED" ],
    target |-> [ org |-> "platform", classification |-> "RESTRICTED", level |-> 3 ],
    approverRoles |-> [ i \in { ben, cat } |-> IF i = ben THEN { "steward", "director" }
                                               ELSE { "director" } ] ]

Asked ==
  [ a \in Asks |-> CASE a = toDiverse -> Ask("alteration", diverse, { ben, cat })
                     [] a = toLax     -> Ask("alteration", lax, { ben, cat })
                     [] a = byOne     -> Ask("alteration", lax, { ben, benAgain }) ]

ReplicaSymmetry == Permutations(ApiReplicas)
=============================================================================
