----------------------------- MODULE AuthService -----------------------------
(***************************************************************************)
(* Log-in with lockout and a second factor (AuthService).                  *)
(*                                                                         *)
(* The failed count and the lock of an account are in the database, where  *)
(* a login reads them before it compares the password and writes them      *)
(* after it; the codes that wait to be entered are in the memory of the    *)
(* server.  A call in progress occupies a slot, which keeps the answer     *)
(* until the caller takes it.  Rows of LoginHistory are left out: nothing  *)
(* reads them.                                                             *)
(***************************************************************************)
EXTENDS Naturals

CONSTANTS
    Accounts,
    Requests,            \* slots for calls in progress
    MaxFailedAttempts,   \* MAX_FAILED_ATTEMPTS
    MaxVerifyAttempts,   \* TWO_FACTOR_MAX_VERIFY_ATTEMPTS
    MaxFailures,         \* bound on failedLoginCount
    MaxCodes,            \* bound on the number of codes sent
    None                 \* no code is waiting, a code not sent yet

ASSUME AuthAssumption ==
    /\ MaxFailedAttempts \in Nat \ {0} /\ MaxVerifyAttempts \in Nat \ {0}
    /\ MaxFailures \in Nat /\ MaxCodes \in Nat
    /\ None \notin Accounts

VARIABLES
    failed,        \* failed[a]: failedLoginCount
    locked,        \* the accounts whose lockedUntil is in the future
    active,        \* the accounts whose status is active
    required,      \* the accounts whose role requires the second factor
    pending,       \* pendingTwoFactor
    req,           \* req[s]: the call in progress in slot s, or Idle
    codes,         \* codes[n]: whom the n-th code was sent to and, for the
                   \* properties, how often it was entered wrong and accepted
    tries,         \* wrong passwords since the last success or end of a lock
    overlapped     \* accounts of which two logins have overlapped; these two
                   \* for the properties only

authVars == <<failed, locked, active, required, pending, req, codes, tries, overlapped>>
accountVars == <<failed, locked, tries, overlapped>>
factorVars == <<pending, codes>>
adminVars == <<active, required>>

-----------------------------------------------------------------------------
Idle == [op |-> "idle"]

Call ==
    [op : {"find"}, account : Accounts, right : BOOLEAN]
        \cup [op : {"compare"}, account : Accounts, right : BOOLEAN, count : 0..MaxFailures]
        \cup [op : {"matched", "issue"}, account : Accounts]
        \cup [op : {"verify"}, account : Accounts, code : 0..MaxCodes]
        \cup [op : {"logout"}]
        \cup [op : {"answer"}, account : Accounts, result : {"refused", "code", "session"}]

Pending == [code : 1..MaxCodes, attempts : 0..MaxVerifyAttempts, expired : BOOLEAN]
\* The Map has no entry for an account that has no code.
ASSUME NoneAssumption == None \notin Pending

Code == [to : Accounts \cup {None}, wrong : 0..MaxVerifyAttempts, accepted : Nat]

AuthTypeOK ==
    /\ failed \in [Accounts -> 0..MaxFailures]
    /\ locked \subseteq Accounts /\ active \subseteq Accounts
    /\ required \subseteq Accounts /\ overlapped \subseteq Accounts
    /\ pending \in [Accounts -> Pending \cup {None}]
    /\ req \in [Requests -> Call \cup {Idle}]
    /\ codes \in [1..MaxCodes -> Code]
    /\ tries \in [Accounts -> Nat]

AuthInit ==
    /\ failed = [a \in Accounts |-> 0]
    /\ locked = {}
    /\ active = Accounts
    /\ required \in SUBSET Accounts
    /\ pending = [a \in Accounts |-> None]
    /\ req = [s \in Requests |-> Idle]
    /\ codes = [n \in 1..MaxCodes |-> [to |-> None, wrong |-> 0, accepted |-> 0]]
    /\ tries = [a \in Accounts |-> 0]
    /\ overlapped = {}

Goto(s, call) == req' = [req EXCEPT ![s] = call]
Answer(s, result) == Goto(s, [op |-> "answer", account |-> req[s].account, result |-> result])
Begin(s, call) == req[s] = Idle /\ Goto(s, call)

Comparing(a) == \E s \in Requests : req[s].op = "compare" /\ req[s].account = a

-----------------------------------------------------------------------------
(* login                                                                   *)

\* Mutant of FindAccount: the lock is not looked at.
FindAccountAnyway(s) ==
    LET a == req[s].account IN
    /\ req[s].op = "find"
    /\ a \in active
    /\ Goto(s, [op |-> "compare", account |-> a, right |-> req[s].right, count |-> failed[a]])
    /\ overlapped' = IF Comparing(a) THEN overlapped \cup {a} ELSE overlapped
    /\ UNCHANGED <<failed, locked, tries, factorVars, adminVars>>

\* The account is there, not locked and active; bcrypt begins.
FindAccount(s) ==
    LET a == req[s].account IN
    /\ req[s].op = "find"
    /\ a \notin locked
    /\ a \in active
    /\ Goto(s, [op |-> "compare", account |-> a, right |-> req[s].right, count |-> failed[a]])
    /\ overlapped' = IF Comparing(a) THEN overlapped \cup {a} ELSE overlapped
    /\ UNCHANGED <<failed, locked, tries, factorVars, adminVars>>

\* Mutant of CountFailure: the count has to exceed the limit.
CountFailureLate(s) ==
    LET a == req[s].account  count == req[s].count + 1 IN
    /\ req[s].op = "compare" /\ ~req[s].right
    /\ count <= MaxFailures
    /\ failed' = [failed EXCEPT ![a] = count]
    /\ locked' = IF count > MaxFailedAttempts THEN locked \cup {a} ELSE locked \ {a}
    /\ tries' = [tries EXCEPT ![a] = @ + 1]
    /\ Answer(s, "refused")
    /\ UNCHANGED <<overlapped, factorVars, adminVars>>

\* The password does not match: the count that was read, plus one, is
\* written, with the lock or with null.
CountFailure(s) ==
    LET a == req[s].account  count == req[s].count + 1 IN
    /\ req[s].op = "compare" /\ ~req[s].right
    /\ count <= MaxFailures
    /\ failed' = [failed EXCEPT ![a] = count]
    /\ locked' = IF count >= MaxFailedAttempts THEN locked \cup {a} ELSE locked \ {a}
    /\ tries' = [tries EXCEPT ![a] = @ + 1]
    /\ Answer(s, "refused")
    /\ UNCHANGED <<overlapped, factorVars, adminVars>>

ResetFailures(s) ==
    LET a == req[s].account IN
    /\ req[s].op = "compare" /\ req[s].right
    /\ failed' = [failed EXCEPT ![a] = 0]
    /\ locked' = locked \ {a}
    /\ tries' = [tries EXCEPT ![a] = 0]
    /\ Goto(s, [op |-> "matched", account |-> a])
    /\ UNCHANGED <<overlapped, factorVars, adminVars>>

\* The role's requirement is read: a fresh code replaces one that waits.
SendCode(s, n) ==
    LET a == req[s].account IN
    /\ req[s].op = "matched"
    /\ a \in required
    /\ codes[n].to = None /\ \A k \in 1..(n - 1) : codes[k].to # None
    /\ codes' = [codes EXCEPT ![n].to = a]
    /\ pending' = [pending EXCEPT ![a] = [code |-> n, attempts |-> 0, expired |-> FALSE]]
    /\ Answer(s, "code")
    /\ UNCHANGED <<accountVars, adminVars>>

NoCode(s) ==
    /\ req[s].op = "matched"
    /\ req[s].account \notin required
    /\ Goto(s, [op |-> "issue", account |-> req[s].account])
    /\ UNCHANGED <<accountVars, factorVars, adminVars>>

IssueTokens(s) ==
    /\ req[s].op = "issue"
    /\ Answer(s, "session")
    /\ UNCHANGED <<accountVars, factorVars, adminVars>>

-----------------------------------------------------------------------------
(* verifyTwoFactor: no await before findUnique, so one step up to there    *)

Waiting(a) == pending[a] # None /\ ~pending[a].expired

NotWaiting(s) ==
    LET a == req[s].account IN
    /\ req[s].op = "verify"
    /\ ~Waiting(a)
    /\ pending' = [pending EXCEPT ![a] = None]
    /\ Answer(s, "refused")
    /\ UNCHANGED <<codes, accountVars, adminVars>>

\* Mutant of WrongCode: the code is dropped after the limit, not at it.
WrongCodeLate(s) ==
    LET a == req[s].account IN
    /\ req[s].op = "verify"
    /\ Waiting(a) /\ pending[a].code # req[s].code
    /\ pending' = [pending EXCEPT ![a] =
          IF @.attempts + 1 > MaxVerifyAttempts THEN None ELSE [pending[a] EXCEPT !.attempts = @ + 1]]
    /\ codes' = [codes EXCEPT ![pending[a].code].wrong = @ + 1]
    /\ Answer(s, "refused")
    /\ UNCHANGED <<accountVars, adminVars>>

WrongCode(s) ==
    LET a == req[s].account IN
    /\ req[s].op = "verify"
    /\ Waiting(a) /\ pending[a].code # req[s].code
    /\ pending' = [pending EXCEPT ![a] =
          IF @.attempts + 1 >= MaxVerifyAttempts THEN None ELSE [pending[a] EXCEPT !.attempts = @ + 1]]
    /\ codes' = [codes EXCEPT ![pending[a].code].wrong = @ + 1]
    /\ Answer(s, "refused")
    /\ UNCHANGED <<accountVars, adminVars>>

\* Mutant of AcceptCode: the code is still there while the user is read.
AcceptCodeKeep(s) ==
    LET a == req[s].account IN
    /\ req[s].op = "verify"
    /\ Waiting(a) /\ pending[a].code = req[s].code
    /\ codes' = [codes EXCEPT ![pending[a].code].accepted = @ + 1]
    /\ Goto(s, [op |-> "issue", account |-> a])
    /\ UNCHANGED <<pending, accountVars, adminVars>>

AcceptCode(s) ==
    LET a == req[s].account IN
    /\ req[s].op = "verify"
    /\ Waiting(a) /\ pending[a].code = req[s].code
    /\ pending' = [pending EXCEPT ![a] = None]
    /\ codes' = [codes EXCEPT ![pending[a].code].accepted = @ + 1]
    /\ Goto(s, [op |-> "issue", account |-> a])
    /\ UNCHANGED <<accountVars, adminVars>>

-----------------------------------------------------------------------------
\* A check or a query fails, or the answer is lost; /auth/logout is answered.
Refuse(s) ==
    /\ req[s].op \notin {"idle", "answer", "logout"}
    /\ Answer(s, "refused")
    /\ UNCHANGED <<accountVars, factorVars, adminVars>>

\* lockedUntil is over.
LockoutEnds(a) ==
    /\ a \in locked
    /\ locked' = locked \ {a}
    /\ tries' = [tries EXCEPT ![a] = 0]
    /\ UNCHANGED <<failed, overlapped, req, factorVars, adminVars>>

CodeExpires(a) ==
    /\ Waiting(a)
    /\ pending' = [pending EXCEPT ![a].expired = TRUE]
    /\ UNCHANGED <<accountVars, req, codes, adminVars>>

\* The server restarts: calls in progress and codes are lost.
RestartServer ==
    /\ pending' = [a \in Accounts |-> None]
    /\ req' = [s \in Requests |->
          IF req[s].op \in {"idle", "answer", "logout"} THEN req[s]
          ELSE [op |-> "answer", account |-> req[s].account, result |-> "refused"]]
    /\ UNCHANGED <<accountVars, codes, adminVars>>

\* UsersService.update of the status, RolesService.setTwoFactorRequired
SetStatus(a) ==
    /\ active' = IF a \in active THEN active \ {a} ELSE active \cup {a}
    /\ UNCHANGED <<accountVars, req, factorVars, required>>

SetTwoFactorRequired(a) ==
    /\ required' = IF a \in required THEN required \ {a} ELSE required \cup {a}
    /\ UNCHANGED <<accountVars, req, factorVars, active>>

LoginStep(s) ==
    \/ FindAccount(s) \/ CountFailure(s) \/ ResetFailures(s)
    \/ \E n \in 1..MaxCodes : SendCode(s, n)
    \/ NoCode(s) \/ IssueTokens(s)

VerifyStep(s) == NotWaiting(s) \/ WrongCode(s) \/ AcceptCode(s)

AuthNext ==
    \/ \E s \in Requests : LoginStep(s) \/ VerifyStep(s) \/ Refuse(s)
    \/ \E a \in Accounts : LockoutEnds(a) \/ CodeExpires(a) \/ SetStatus(a) \/ SetTwoFactorRequired(a)
    \/ RestartServer

-----------------------------------------------------------------------------
(* Properties.                                                             *)

\* ADR-155: as long as logins of an account do not overlap, MAX_FAILED_ATTEMPTS
\* wrong passwords in a row lock it, also across restarts, and no more of them
\* are compared than that.
LimitLocks ==
    \A a \in Accounts \ overlapped :
        /\ tries[a] <= MaxFailedAttempts
        /\ tries[a] = MaxFailedAttempts => a \in locked

\* login: as long as logins of an account do not overlap, its lock lasts until
\* lockedUntil is over; no login that comes meanwhile takes it away.
LockoutLasts ==
    [][\A a \in locked : a \notin locked' => a \in overlapped \/ LockoutEnds(a)]_authVars

\* verifyTwoFactor: a code is accepted once and at most, and only while less
\* than TWO_FACTOR_MAX_VERIFY_ATTEMPTS wrong ones were entered in its place.
CodeIsGoodOnce ==
    \A n \in 1..MaxCodes :
        /\ codes[n].accepted <= 1
        /\ codes[n].wrong <= MaxVerifyAttempts
        /\ codes[n].accepted = 1 => codes[n].wrong < MaxVerifyAttempts

\* The codes as one who enters them knows them: those that would be accepted now,
\* those that were, whom each was sent to and how often it was missed.
standingCodes == {n \in 1..MaxCodes : \E a \in Accounts : Waiting(a) /\ pending[a].code = n}
usedCodes == {n \in 1..MaxCodes : codes[n].accepted > 0}
codeOwner == [n \in 1..MaxCodes |-> codes[n].to]
codeWrong == [n \in 1..MaxCodes |-> codes[n].wrong]

SecondFactor == INSTANCE OneTimeCode WITH
    CodeIds <- 1..MaxCodes, Limit <- MaxVerifyAttempts, Nobody <- None,
    owner <- codeOwner, standing <- standingCodes, wrong <- codeWrong, used <- usedCodes

\* The codes in the memory of the server implement one-time codes: sent to one
\* account, good until used, replaced, missed too often or dropped, and never again.
OneTimeCodeSpec == SecondFactor!CodeSpec
=============================================================================
