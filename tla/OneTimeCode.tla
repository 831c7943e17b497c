----------------------------- MODULE OneTimeCode -----------------------------
(***************************************************************************)
(* What the second factor promises: a code is sent to one account and      *)
(* stands until it is used, replaced, entered wrong too often, or dropped. *)
(* An account has one code that stands, and none comes back.  AuthService  *)
(* implements this specification.                                          *)
(***************************************************************************)
EXTENDS Naturals

CONSTANTS
    Accounts, CodeIds,
    Limit,         \* wrong entries that end a code
    Nobody         \* the code was not sent yet

VARIABLES
    owner,         \* owner[n]: the account that code n was sent to, or Nobody
    standing,      \* the codes that would be accepted
    wrong,         \* wrong[n]: the wrong entries while n stood
    used           \* the codes that were accepted

codeVars == <<owner, standing, wrong, used>>

OfAccount(a) == {n \in CodeIds : owner[n] = a}

CodeInit ==
    /\ owner = [n \in CodeIds |-> Nobody]
    /\ standing = {}
    /\ wrong = [n \in CodeIds |-> 0]
    /\ used = {}

\* A new code replaces the one that the account has.
Send(a, n) ==
    /\ owner[n] = Nobody
    /\ owner' = [owner EXCEPT ![n] = a]
    /\ standing' = (standing \ OfAccount(a)) \cup {n}
    /\ UNCHANGED <<wrong, used>>

Miss(n) ==
    /\ n \in standing
    /\ wrong' = [wrong EXCEPT ![n] = @ + 1]
    /\ standing' = IF wrong[n] + 1 < Limit THEN standing ELSE standing \ {n}
    /\ UNCHANGED <<owner, used>>

Use(n) ==
    /\ n \in standing
    /\ used' = used \cup {n}
    /\ standing' = standing \ {n}
    /\ UNCHANGED <<owner, wrong>>

\* They expire, or the server forgets them.
Drop(N) ==
    /\ standing' = standing \ N
    /\ UNCHANGED <<owner, wrong, used>>

CodeNext ==
    \/ \E n \in CodeIds : Miss(n) \/ Use(n) \/ \E a \in Accounts : Send(a, n)
    \/ \E N \in SUBSET CodeIds : Drop(N)

CodeSpec == CodeInit /\ [][CodeNext]_codeVars
=============================================================================
