------------------------------- MODULE MCUsers -------------------------------
(* The users of a tenant, two of whom start as its Admins.  A behaviour is *)
(* followed until something happens that one of the properties excepts;    *)
(* after that at most one of them claims anything, and it is proved        *)
(* (UserAdminProofs).                                                      *)
EXTENDS UserAdmin, TLC

CONSTANTS ann, bob

UserSymmetry == Permutations(Requests) \cup Permutations({ann, bob})

SomethingToCheck == broken = {}
=============================================================================
