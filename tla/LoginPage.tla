------------------------------ MODULE LoginPage ------------------------------
(***************************************************************************)
(* The login pages of one browser, the sessions they end in (LoginPage,    *)
(* the user menu of TopBar, lib/api/auth.ts) and the one place where they  *)
(* keep the access token (lib/api.ts).                                     *)
(*                                                                         *)
(* A page is one mounted LoginPage: those in several pages, and the one     *)
(* that follows a log-out.  A form is disabled while it submits, but       *)
(* `Back to login` is not, so a verification may be under way while its    *)
(* page logs in again.                                                     *)
(***************************************************************************)
EXTENDS AuthService

CONSTANTS
    Pages,
    NoToken        \* the storage has no token

Forms == {"password", "code", "logout"}

ASSUME LoginAssumption == Requests = Pages \X Forms /\ NoToken \notin Accounts

VARIABLES
    pages,         \* pages[p]: stage and challenge, and what the properties need:
                   \* the account of the last login and whether the page went
                   \* back while a code was under way
    token          \* whose token is stored

loginVars == <<authVars, pages, token>>

Page == [stage : {"credentials", "2fa", "dashboard", "left"}, challenge : Accounts \cup {None},
         last : Accounts \cup {None}, crossed : BOOLEAN]

NewPage == [stage |-> "credentials", challenge |-> None, last |-> None, crossed |-> FALSE]

LoginTypeOK ==
    /\ AuthTypeOK
    /\ pages \in [Pages -> Page]
    /\ token \in Accounts \cup {NoToken}

LoginInit == AuthInit /\ pages = [p \in Pages |-> NewPage] /\ token = NoToken

Others == <<failed, locked, tries, overlapped, factorVars, adminVars>>

-----------------------------------------------------------------------------
\* onSubmitPassword
SubmitPassword(p, a, right) ==
    /\ pages[p].stage = "credentials"
    /\ Begin(<<p, "password">>, [op |-> "find", account |-> a, right |-> right])
    /\ pages' = [pages EXCEPT ![p].last = a,
                              ![p].crossed = @ \/ req[<<p, "code">>] # Idle]
    /\ UNCHANGED <<Others, token>>

\* onSubmitTwoFactor
SubmitCode(p, n) ==
    /\ pages[p].stage = "2fa"
    /\ Begin(<<p, "code">>, [op |-> "verify", account |-> pages[p].challenge, code |-> n])
    /\ UNCHANGED <<Others, pages, token>>

\* The button `Back to login`
Back(p) ==
    /\ pages[p].stage = "2fa"
    /\ pages' = [pages EXCEPT ![p].stage = "credentials"]
    /\ UNCHANGED <<authVars, token>>

Answered(p, form, result) ==
    LET s == <<p, form>> IN
    req[s].op = "answer" /\ req[s].result = result /\ Goto(s, Idle)

\* storeSession, and the dashboard
EnterSession(p, form) ==
    /\ Answered(p, form, "session")
    /\ token' = req[<<p, form>>].account
    /\ pages' = [pages EXCEPT ![p].stage = "dashboard"]
    /\ UNCHANGED Others

Gone(p) == pages[p].stage \in {"dashboard", "left"}

\* Mutant of AskForCode: the first challenge of the page is kept.
AskForCodeOnce(p) ==
    /\ Answered(p, "password", "code")
    /\ pages' = IF Gone(p) THEN pages
                ELSE [pages EXCEPT ![p].stage = "2fa",
                                   ![p].challenge = IF @ = None THEN req[<<p, "password">>].account ELSE @]
    /\ UNCHANGED <<Others, token>>

\* The answer reaches the page if no session has taken it away meanwhile.
AskForCode(p) ==
    /\ Answered(p, "password", "code")
    /\ pages' = IF Gone(p) THEN pages
                ELSE [pages EXCEPT ![p].stage = "2fa", ![p].challenge = req[<<p, "password">>].account]
    /\ UNCHANGED <<Others, token>>

ShowError(p, form) ==
    /\ Answered(p, form, "refused")
    /\ UNCHANGED <<Others, pages, token>>

-----------------------------------------------------------------------------
\* handleLogout: whether or not the call succeeds, the token is removed.  Only
\* if it does, another login page follows.
ClickLogout(p) ==
    /\ pages[p].stage = "dashboard"
    /\ Begin(<<p, "logout">>, [op |-> "logout"])
    /\ UNCHANGED <<Others, pages, token>>

FinishLogout(p, ok) ==
    /\ req[<<p, "logout">>].op = "logout"
    /\ Goto(<<p, "logout">>, Idle)
    /\ token' = NoToken
    /\ pages' = IF ok THEN [pages EXCEPT ![p].stage = "left"] ELSE pages
    /\ UNCHANGED Others

PageStep(p) ==
    \/ \E a \in Accounts, right \in BOOLEAN : SubmitPassword(p, a, right)
    \/ \E n \in 0..MaxCodes : SubmitCode(p, n)
    \/ Back(p) \/ AskForCode(p)
    \/ \E form \in {"password", "code"} : EnterSession(p, form) \/ ShowError(p, form)
    \/ ClickLogout(p) \/ \E ok \in BOOLEAN : FinishLogout(p, ok)

LoginNext == \/ AuthNext /\ UNCHANGED <<pages, token>>
             \/ \E p \in Pages : PageStep(p)

LoginSpec == LoginInit /\ [][LoginNext]_loginVars

-----------------------------------------------------------------------------
\* A session that a page stores belongs to the account that it logged in last,
\* unless it went back and logged in while a code was being verified.
SessionIsOfLastLogin ==
    [][\A p \in Pages, form \in Forms :
          EnterSession(p, form) => token' = pages[p].last \/ pages[p].crossed]_loginVars
=============================================================================
