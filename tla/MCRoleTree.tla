------------------------------ MODULE MCRoleTree ------------------------------
(* An instance of RoleTree for TLC.                                        *)
EXTENDS RoleTree, FiniteSets, TLC

\* Four roles in calls one after another, three in calls that overlap; nothing
\* is claimed of a hierarchy that was disturbed.
SomethingToCheck ==
    settled \/ (undisturbed /\ Cardinality(live \cup removed) <= 3)

RoleAndRequestSymmetry == Permutations(Roles) \cup Permutations(Requests)
=============================================================================
