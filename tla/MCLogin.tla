------------------------------- MODULE MCLogin -------------------------------
(* Instances of LoginPage for TLC. *)
EXTENDS LoginPage

CONSTANTS ann, bob, p1, p2

FormSlots == Pages \X Forms

\* Whose password is entered wrong, and whom the Admin changes.
OnlyAnnFails ==
    /\ \A s \in Requests : req[s].op = "find" /\ req[s].account = bob => req[s].right
    /\ bob \in active

\* An account is inactive only around the query that looks at it.
BrieflyInactive ==
    active # Accounts => \A s \in Requests : req[s].op \in {"idle", "find", "answer"}

\* Two pages log in at once, or one page uses the second factor.
OverlapOrCodes ==
    pages[p2] # NewPage => /\ \A n \in 1..MaxCodes : codes[n].to = None
                           /\ \A p \in Pages : pages[p].last \in {ann, None}

SmallEnough == OnlyAnnFails /\ BrieflyInactive /\ OverlapOrCodes
=============================================================================
