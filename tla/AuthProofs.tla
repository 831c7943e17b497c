------------------------------ MODULE AuthProofs ------------------------------
(***************************************************************************)
(* Proofs about AuthService and LoginPage, for any number of accounts,     *)
(* pages and codes and any limits: the limit on wrong passwords, the lock, *)
(* the codes of the second factor and the session that a page stores.      *)
(***************************************************************************)
EXTENDS LoginPage, TLAPS

CompareOf(s, a) == req[s].op = "compare" /\ req[s].account = a

\* As long as logins of an account do not overlap, the one that is comparing
\* has read the count that is still stored, and the account is not locked.
AccountInv(a) ==
    /\ \A s, t \in Requests : CompareOf(s, a) /\ CompareOf(t, a) => s = t
    /\ \A s \in Requests : CompareOf(s, a) => a \notin locked /\ req[s].count = failed[a]
    /\ a \notin locked => tries[a] < MaxFailedAttempts /\ tries[a] <= failed[a]
    /\ tries[a] <= MaxFailedAttempts

LockInv == \A a \in Accounts \ overlapped : AccountInv(a)

\* A code that waits was sent to the account that it waits for, has not been
\* accepted, and was entered wrong as often as pendingTwoFactor has counted.
PendingInv(a) ==
    pending[a] # None =>
        /\ codes[pending[a].code].to = a
        /\ codes[pending[a].code].accepted = 0
        /\ codes[pending[a].code].wrong = pending[a].attempts
        /\ pending[a].attempts < MaxVerifyAttempts

CodeInv ==
    /\ \A a \in Accounts : PendingInv(a)
    /\ \A n \in 1..MaxCodes : codes[n].to = None => codes[n].wrong = 0 /\ codes[n].accepted = 0
    /\ CodeIsGoodOnce

\* The slots of a page hold calls of its forms.
SlotsInv ==
    \A p \in Pages :
        /\ req[<<p, "logout">>].op \in {"idle", "logout"}
        /\ \A form \in {"password", "code"} : req[<<p, form>>].op # "logout"

\* A page that asks for a code has a challenge; what a page that has not crossed
\* asks and waits for is of its last login.
PageInv(p) ==
    /\ pages[p].stage = "2fa" => pages[p].challenge \in Accounts
    /\ \/ pages[p].crossed
       \/ /\ pages[p].stage = "2fa" => pages[p].challenge = pages[p].last
          /\ \A form \in {"password", "code"} :
                req[<<p, form>>] # Idle => req[<<p, form>>].account = pages[p].last

LoginInv ==
    /\ LoginTypeOK
    /\ LockInv
    /\ CodeInv
    /\ SlotsInv
    /\ \A p \in Pages : PageInv(p)

-----------------------------------------------------------------------------
LEMMA CallFields ==
  ASSUME NEW c \in Call \cup {Idle}
  PROVE  /\ c = Idle <=> c.op = "idle"
         /\ c.op \notin {"idle", "logout"} => c \in Call /\ c.account \in Accounts
         /\ c.op = "compare" => c.count \in 0..MaxFailures /\ c.right \in BOOLEAN
         /\ c.op = "find" => c.right \in BOOLEAN
         /\ c.op = "answer" => c.result \in {"refused", "code", "session"}
         /\ c.op \in {"idle", "find", "compare", "matched", "issue", "verify", "logout", "answer"}
BY DEF Call, Idle

\* What a step of the server does to the calls: it answers a call or takes it
\* one stage on, for the same account, and only FindAccount begins to compare.
CallsKept ==
    /\ req' \in [Requests -> Call \cup {Idle}]
    /\ \A s \in Requests :
          \/ req'[s] = req[s]
          \/ /\ req[s].op \notin {"idle", "answer", "logout"}
             /\ req'[s].op \notin {"idle", "logout"}
             /\ req'[s].account = req[s].account
             /\ req'[s].op = "compare" => FindAccount(s)

LEMMA GotoKept ==
  ASSUME AuthTypeOK, NEW s \in Requests, NEW call \in Call, Goto(s, call),
         req[s].op \notin {"idle", "answer", "logout"},
         call.op \notin {"idle", "logout"}, call.account = req[s].account,
         call.op = "compare" => FindAccount(s)
  PROVE  CallsKept
BY DEF AuthTypeOK, Goto, CallsKept

LEMMA AnswerKept ==
  ASSUME AuthTypeOK, NEW s \in Requests, NEW result \in {"refused", "code", "session"},
         Answer(s, result), req[s].op \notin {"idle", "answer", "logout"}
  PROVE  CallsKept /\ req'[s].op = "answer"
<1> DEFINE call == [op |-> "answer", account |-> req[s].account, result |-> result]
<1>1. req[s].account \in Accounts
  BY CallFields DEF AuthTypeOK
<1>2. call \in Call
  BY <1>1 DEF Call
<1>3. Goto(s, call)
  BY DEF Answer
<1>4. CallsKept
  BY <1>2, <1>3, GotoKept
<1>5. QED
  BY <1>3, <1>4 DEF Goto, AuthTypeOK

LEMMA AuthNextKept ==
  ASSUME AuthTypeOK, AuthNext
  PROVE  CallsKept
<1>1. ASSUME NEW s \in Requests, LoginStep(s) PROVE CallsKept
  <2> DEFINE a == req[s].account
  <2>1. CASE FindAccount(s)
    <3> DEFINE call == [op |-> "compare", account |-> a, right |-> req[s].right, count |-> failed[a]]
    <3>1. req[s].op = "find" /\ a \in Accounts /\ req[s].right \in BOOLEAN /\ failed[a] \in 0..MaxFailures
      BY <2>1, CallFields DEF FindAccount, AuthTypeOK
    <3>2. call \in Call
      BY <3>1 DEF Call
    <3>3. Goto(s, call)
      BY <2>1 DEF FindAccount
    <3>4. QED
      BY <2>1, <3>1, <3>2, <3>3, GotoKept
  <2>2. CASE CountFailure(s)
    BY <2>2, AnswerKept DEF CountFailure
  <2>3. CASE ResetFailures(s)
    <3>1. req[s].op = "compare" /\ a \in Accounts
      BY <2>3, CallFields DEF ResetFailures, AuthTypeOK
    <3>2. [op |-> "matched", account |-> a] \in Call
      BY <3>1 DEF Call
    <3>3. QED
      BY <2>3, <3>1, <3>2, GotoKept DEF ResetFailures
  <2>4. CASE \E n \in 1..MaxCodes : SendCode(s, n)
    BY <2>4, AnswerKept DEF SendCode
  <2>5. CASE NoCode(s)
    <3>1. req[s].op = "matched" /\ a \in Accounts
      BY <2>5, CallFields DEF NoCode, AuthTypeOK
    <3>2. [op |-> "issue", account |-> a] \in Call
      BY <3>1 DEF Call
    <3>3. QED
      BY <2>5, <3>1, <3>2, GotoKept DEF NoCode
  <2>6. CASE IssueTokens(s)
    BY <2>6, AnswerKept DEF IssueTokens
  <2>7. QED
    BY <1>1, <2>1, <2>2, <2>3, <2>4, <2>5, <2>6 DEF LoginStep
<1>2. ASSUME NEW s \in Requests, VerifyStep(s) PROVE CallsKept
  <2>1. CASE NotWaiting(s)
    BY <2>1, AnswerKept DEF NotWaiting
  <2>2. CASE WrongCode(s)
    BY <2>2, AnswerKept DEF WrongCode
  <2>3. CASE AcceptCode(s)
    <3>1. req[s].op = "verify" /\ req[s].account \in Accounts
      BY <2>3, CallFields DEF AcceptCode, AuthTypeOK
    <3>2. [op |-> "issue", account |-> req[s].account] \in Call
      BY <3>1 DEF Call
    <3>3. QED
      BY <2>3, <3>1, <3>2, GotoKept DEF AcceptCode
  <2>4. QED
    BY <1>2, <2>1, <2>2, <2>3 DEF VerifyStep
<1>3. ASSUME NEW s \in Requests, Refuse(s) PROVE CallsKept
  BY <1>3, AnswerKept DEF Refuse
<1>4. ASSUME NEW a \in Accounts,
             LockoutEnds(a) \/ CodeExpires(a) \/ SetStatus(a) \/ SetTwoFactorRequired(a)
      PROVE  CallsKept
  BY <1>4 DEF LockoutEnds, CodeExpires, SetStatus, SetTwoFactorRequired, AuthTypeOK, CallsKept
<1>5. CASE RestartServer
  <2>1. ASSUME NEW s \in Requests, req[s].op \notin {"idle", "answer", "logout"}
        PROVE  [op |-> "answer", account |-> req[s].account, result |-> "refused"] \in Call
    BY <2>1, CallFields DEF AuthTypeOK, Call
  <2>2. req' \in [Requests -> Call \cup {Idle}]
    BY <1>5, <2>1 DEF RestartServer, AuthTypeOK
  <2>3. QED
    BY <1>5, <2>2 DEF RestartServer, CallsKept
<1>6. QED
  BY <1>1, <1>2, <1>3, <1>4, <1>5 DEF AuthNext


-----------------------------------------------------------------------------
(* The limit and the lock.                                                 *)

\* A step that leaves the counts and locks alone and begins no comparison.
LEMMA LockFrame ==
  ASSUME LockInv, UNCHANGED accountVars,
         \A s \in Requests : req'[s].op = "compare" => req'[s] = req[s]
  PROVE  LockInv'
<1> SUFFICES ASSUME NEW a \in Accounts, a \notin overlapped
             PROVE  AccountInv(a)'
  BY DEF LockInv, accountVars
<1>1. AccountInv(a) /\ UNCHANGED <<failed, locked, tries, overlapped>>
  BY DEF LockInv, accountVars
<1>2. \A s \in Requests : CompareOf(s, a)' => CompareOf(s, a) /\ req'[s].count = req[s].count
  BY DEF CompareOf
<1>3. QED
  BY <1>1, <1>2 DEF AccountInv

\* A step of the account b that ends the comparison of slot s, if it is one of
\* b's; what it may do to b is for the caller to show.
LEMMA LockStep ==
  ASSUME LockInv, NEW s \in Requests, NEW b \in Accounts, UNCHANGED overlapped,
         \A r \in Requests \ {s} : req'[r] = req[r],
         req'[s] = req[s] \/ req'[s].op # "compare",
         \A a \in Accounts \ {b} : /\ failed'[a] = failed[a] /\ tries'[a] = tries[a]
                                   /\ a \in locked' <=> a \in locked,
         b \notin overlapped => AccountInv(b)'
  PROVE  LockInv'
<1> SUFFICES ASSUME NEW a \in Accounts, a \notin overlapped, a # b
             PROVE  AccountInv(a)'
  BY DEF LockInv
<1>1. AccountInv(a)
  BY DEF LockInv
<1>2. \A r \in Requests : CompareOf(r, a)' => CompareOf(r, a) /\ req'[r].count = req[r].count
  BY DEF CompareOf
<1>3. QED
  BY <1>1, <1>2 DEF AccountInv

LEMMA FindAccountLock ==
  ASSUME AuthTypeOK, LockInv, NEW s \in Requests, FindAccount(s)
  PROVE  LockInv'
<1>0. req[s].account \in Accounts
  BY CallFields DEF FindAccount, AuthTypeOK
<1> PICK b \in Accounts : b = req[s].account
  BY <1>0
<1>1. /\ b \notin locked
      /\ UNCHANGED <<failed, locked, tries>>
      /\ overlapped' = IF Comparing(b) THEN overlapped \cup {b} ELSE overlapped
  BY DEF FindAccount
<1>2. /\ req'[s].op = "compare" /\ req'[s].account = b /\ req'[s].count = failed[b]
      /\ \A r \in Requests \ {s} : req'[r] = req[r]
  BY DEF FindAccount, Goto, AuthTypeOK
<1> SUFFICES ASSUME NEW a \in Accounts, a \notin overlapped'
             PROVE  AccountInv(a)'
  BY DEF LockInv
<1>3. AccountInv(a) /\ a \notin overlapped
  BY <1>1 DEF LockInv
<1>4. CASE a = b
  <2>1. \A r \in Requests : ~CompareOf(r, a)
    BY <1>1, <1>4 DEF Comparing, CompareOf
  <2>2. \A r \in Requests : CompareOf(r, a)' => r = s
    BY <1>2, <2>1 DEF CompareOf
  <2>3. QED
    BY <1>1, <1>2, <1>3, <1>4, <2>2 DEF AccountInv
<1>5. CASE a # b
  <2>1. \A r \in Requests : CompareOf(r, a)' => CompareOf(r, a) /\ req'[r].count = req[r].count
    BY <1>2, <1>5 DEF CompareOf
  <2>2. QED
    BY <1>1, <1>3, <2>1 DEF AccountInv
<1>6. QED
  BY <1>4, <1>5

LEMMA CountFailureLock ==
  ASSUME AuthTypeOK, LockInv, NEW s \in Requests, CountFailure(s)
  PROVE  LockInv' /\ (req[s].account \in locked => req[s].account \in overlapped)
<1>0. req[s].op = "compare" /\ req[s].account \in Accounts /\ req[s].count \in Nat
  BY CallFields, AuthAssumption DEF CountFailure, AuthTypeOK
<1> PICK b \in Accounts : b = req[s].account
  BY <1>0
<1> PICK count \in Nat : count = req[s].count + 1
  BY <1>0
<1>1. failed[b] \in Nat /\ tries[b] \in Nat /\ CompareOf(s, b)
  BY <1>0, AuthAssumption DEF AuthTypeOK, CompareOf
<1>2. /\ failed' = [failed EXCEPT ![b] = count]
      /\ locked' = IF count >= MaxFailedAttempts THEN locked \cup {b} ELSE locked \ {b}
      /\ tries' = [tries EXCEPT ![b] = tries[b] + 1]
      /\ UNCHANGED overlapped
  BY DEF CountFailure
<1>3. req'[s].op # "compare" /\ \A r \in Requests \ {s} : req'[r] = req[r]
  BY DEF CountFailure, Answer, Goto, AuthTypeOK
<1>4. ASSUME b \notin overlapped PROVE AccountInv(b) /\ AccountInv(b)'
  <2>1. AccountInv(b)
    BY <1>1, <1>4 DEF LockInv
  <2>2. \A r \in Requests : ~CompareOf(r, b)'
    BY <1>1, <1>3, <2>1 DEF AccountInv, CompareOf
  <2>3. b \notin locked /\ req[s].count = failed[b]
    BY <1>1, <2>1 DEF AccountInv
  <2>4. tries[b] < MaxFailedAttempts /\ tries[b] <= failed[b]
    BY <2>1, <2>3 DEF AccountInv
  <2>5. failed'[b] = count /\ tries'[b] = tries[b] + 1
    BY <1>1, <1>2 DEF AuthTypeOK
  <2>6. count = failed[b] + 1
    BY <2>3
  <2>7. tries'[b] <= MaxFailedAttempts /\ tries'[b] <= failed'[b]
    BY <1>1, <2>4, <2>5, <2>6, AuthAssumption
  <2>8. b \notin locked' => tries'[b] < MaxFailedAttempts
    BY <1>1, <1>2, <2>4, <2>5, <2>6, AuthAssumption
  <2>9. QED
    BY <2>1, <2>2, <2>7, <2>8 DEF AccountInv
<1>5. \A a \in Accounts \ {b} : /\ failed'[a] = failed[a] /\ tries'[a] = tries[a]
                                /\ a \in locked' <=> a \in locked
  BY <1>1, <1>2 DEF AuthTypeOK
<1>6. LockInv'
  BY <1>1, <1>2, <1>3, <1>4, <1>5, LockStep
<1>7. b \in locked => b \in overlapped
  BY <1>1, <1>4 DEF AccountInv
<1>8. QED
  BY <1>6, <1>7

LEMMA ResetFailuresLock ==
  ASSUME AuthTypeOK, LockInv, NEW s \in Requests, ResetFailures(s)
  PROVE  LockInv' /\ (req[s].account \in locked => req[s].account \in overlapped)
<1>0. req[s].op = "compare" /\ req[s].account \in Accounts
  BY CallFields DEF ResetFailures, AuthTypeOK
<1> PICK b \in Accounts : b = req[s].account
  BY <1>0
<1>1. CompareOf(s, b)
  BY <1>0 DEF CompareOf
<1>2. /\ failed' = [failed EXCEPT ![b] = 0] /\ tries' = [tries EXCEPT ![b] = 0]
      /\ locked' = locked \ {b} /\ UNCHANGED overlapped
  BY DEF ResetFailures
<1>3. req'[s].op # "compare" /\ \A r \in Requests \ {s} : req'[r] = req[r]
  BY DEF ResetFailures, Goto, AuthTypeOK
<1>4. ASSUME b \notin overlapped PROVE AccountInv(b) /\ AccountInv(b)'
  <2>1. AccountInv(b)
    BY <1>1, <1>4 DEF LockInv
  <2>2. \A r \in Requests : ~CompareOf(r, b)'
    BY <1>1, <1>3, <2>1 DEF AccountInv, CompareOf
  <2>3. failed'[b] = 0 /\ tries'[b] = 0
    BY <1>1, <1>2 DEF AuthTypeOK
  <2>4. 0 < MaxFailedAttempts /\ 0 <= MaxFailedAttempts /\ 0 <= 0
    BY AuthAssumption
  <2>5. QED
    BY <2>1, <2>2, <2>3, <2>4 DEF AccountInv
<1>5. \A a \in Accounts \ {b} : /\ failed'[a] = failed[a] /\ tries'[a] = tries[a]
                                /\ a \in locked' <=> a \in locked
  BY <1>1, <1>2 DEF AuthTypeOK
<1>6. LockInv'
  BY <1>1, <1>2, <1>3, <1>4, <1>5, LockStep
<1>7. b \in locked => b \in overlapped
  BY <1>1, <1>4 DEF AccountInv
<1>8. QED
  BY <1>6, <1>7

LEMMA LockoutEndsLock ==
  ASSUME AuthTypeOK, LockInv, NEW b \in Accounts, LockoutEnds(b)
  PROVE  LockInv'
<1>1. /\ locked' = locked \ {b} /\ tries' = [tries EXCEPT ![b] = 0]
      /\ UNCHANGED <<failed, overlapped, req>>
  BY DEF LockoutEnds
<1> SUFFICES ASSUME NEW a \in Accounts, a \notin overlapped
             PROVE  AccountInv(a)'
  BY <1>1 DEF LockInv
<1>2. AccountInv(a)
  BY DEF LockInv
<1>3. failed[a] \in Nat /\ 0 < MaxFailedAttempts /\ 0 <= MaxFailedAttempts
  BY AuthAssumption DEF AuthTypeOK
<1>4. a = b => tries'[a] = 0
  BY <1>1 DEF AuthTypeOK
<1>5. a # b => tries'[a] = tries[a] /\ (a \in locked' <=> a \in locked)
  BY <1>1 DEF AuthTypeOK
<1>6. a \in locked' => a \in locked
  BY <1>1
<1>7. \A r \in Requests : CompareOf(r, a)' <=> CompareOf(r, a)
  BY <1>1 DEF CompareOf
<1>8. 0 <= failed[a]
  BY <1>3
<1>9. QED
  BY <1>1, <1>2, <1>3, <1>4, <1>5, <1>6, <1>7, <1>8 DEF AccountInv


-----------------------------------------------------------------------------
(* The codes.                                                              *)

LEMMA CodeFields ==
  ASSUME AuthTypeOK
  PROVE  /\ \A n \in 1..MaxCodes :
               /\ codes[n] \in Code /\ codes[n].to \in Accounts \cup {None}
               /\ codes[n].wrong \in 0..MaxVerifyAttempts /\ codes[n].accepted \in Nat
         /\ \A a \in Accounts : pending[a] # None =>
               /\ pending[a] \in Pending
               /\ pending[a].code \in 1..MaxCodes /\ pending[a].attempts \in 0..MaxVerifyAttempts
               /\ pending[a].expired \in BOOLEAN
BY DEF AuthTypeOK, Code, Pending

\* A step that touches no code and at most drops what waits or lets it expire.
LEMMA PendingFrame ==
  ASSUME CodeInv, UNCHANGED codes,
         \A a \in Accounts :
            \/ pending'[a] = None
            \/ /\ pending[a] # None
               /\ pending'[a].code = pending[a].code /\ pending'[a].attempts = pending[a].attempts
  PROVE  CodeInv'
<1>1. ASSUME NEW a \in Accounts PROVE PendingInv(a)'
  <2>1. PendingInv(a)
    BY DEF CodeInv
  <2>2. QED
    BY <2>1 DEF PendingInv
<1>2. QED
  BY <1>1 DEF CodeInv, CodeIsGoodOnce

\* A step that is about the account b and the code n, which is b's or nobody's.
LEMMA CodeStep ==
  ASSUME AuthTypeOK, CodeInv, NEW b \in Accounts, NEW n \in 1..MaxCodes,
         codes[n].to \in {b, None}, codes'[n].to = b,
         \A a \in Accounts \ {b} : pending'[a] = pending[a],
         \A k \in (1..MaxCodes) \ {n} : codes'[k] = codes[k],
         PendingInv(b)',
         codes'[n].accepted <= 1, codes'[n].wrong <= MaxVerifyAttempts,
         codes'[n].accepted = 1 => codes'[n].wrong < MaxVerifyAttempts
  PROVE  CodeInv'
<1>1. ASSUME NEW a \in Accounts, a # b PROVE PendingInv(a)'
  <2>1. PendingInv(a) /\ pending'[a] = pending[a]
    BY <1>1 DEF CodeInv
  <2>2. pending[a] # None => pending[a].code \in 1..MaxCodes /\ pending[a].code # n
    BY <1>1, <2>1, CodeFields, AuthAssumption DEF PendingInv
  <2>3. pending[a] # None => codes'[pending[a].code] = codes[pending[a].code]
    BY <2>2
  <2>4. QED
    BY <2>1, <2>3 DEF PendingInv
<1>2. \A k \in 1..MaxCodes : codes'[k].to = None => codes'[k].wrong = 0 /\ codes'[k].accepted = 0
  BY AuthAssumption DEF CodeInv
<1>3. CodeIsGoodOnce'
  BY DEF CodeInv, CodeIsGoodOnce
<1>4. QED
  BY <1>1, <1>2, <1>3 DEF CodeInv

LEMMA SendCodeInv ==
  ASSUME AuthTypeOK, CodeInv, NEW s \in Requests, NEW n \in 1..MaxCodes, SendCode(s, n)
  PROVE  CodeInv'
<1>1. req[s].account \in Accounts
  BY CallFields DEF SendCode, AuthTypeOK
<1> PICK b \in Accounts : b = req[s].account
  BY <1>1
<1>2. /\ codes[n].to = None
      /\ codes' = [codes EXCEPT ![n].to = b]
      /\ pending' = [pending EXCEPT ![b] = [code |-> n, attempts |-> 0, expired |-> FALSE]]
  BY DEF SendCode
<1>3. codes[n].wrong = 0 /\ codes[n].accepted = 0
  BY <1>2 DEF CodeInv
<1>4. codes'[n].to = b /\ codes'[n].wrong = 0 /\ codes'[n].accepted = 0
  BY <1>2, <1>3, CodeFields DEF AuthTypeOK, Code
<1>5. pending'[b].code = n /\ pending'[b].attempts = 0
  BY <1>2 DEF AuthTypeOK
<1>6. 0 < MaxVerifyAttempts /\ 0 <= MaxVerifyAttempts /\ 0 <= 1 /\ 0 # 1
  BY AuthAssumption
<1>7. PendingInv(b)'
  BY <1>4, <1>5, <1>6 DEF PendingInv
<1>8. /\ \A a \in Accounts \ {b} : pending'[a] = pending[a]
      /\ \A k \in (1..MaxCodes) \ {n} : codes'[k] = codes[k]
  BY <1>2 DEF AuthTypeOK
<1>9. QED
  BY <1>2, <1>4, <1>6, <1>7, <1>8, CodeStep

\* The types of what the second factor keeps.
FactorTypeOK ==
    /\ pending \in [Accounts -> Pending \cup {None}]
    /\ codes \in [1..MaxCodes -> Code]

LEMMA SendCodeType ==
  ASSUME AuthTypeOK, NEW s \in Requests, NEW n \in 1..MaxCodes, SendCode(s, n)
  PROVE  FactorTypeOK'
<1>1. req[s].account \in Accounts
  BY CallFields DEF SendCode, AuthTypeOK
<1> PICK b \in Accounts : b = req[s].account
  BY <1>1
<1>2. /\ codes' = [codes EXCEPT ![n].to = b]
      /\ pending' = [pending EXCEPT ![b] = [code |-> n, attempts |-> 0, expired |-> FALSE]]
  BY DEF SendCode
<1>3. [code |-> n, attempts |-> 0, expired |-> FALSE] \in Pending
  BY AuthAssumption DEF Pending
<1>4. [codes[n] EXCEPT !.to = b] \in Code
  BY DEF AuthTypeOK, Code
<1>5. QED
  BY <1>2, <1>3, <1>4 DEF AuthTypeOK, FactorTypeOK

LEMMA WrongCodeInv ==
  ASSUME AuthTypeOK, CodeInv, NEW s \in Requests, WrongCode(s)
  PROVE  CodeInv' /\ FactorTypeOK'
<1>1. req[s].account \in Accounts
  BY CallFields DEF WrongCode, AuthTypeOK
<1> PICK b \in Accounts : b = req[s].account
  BY <1>1
<1>2. /\ pending[b] # None
      /\ pending' = [pending EXCEPT ![b] =
            IF pending[b].attempts + 1 >= MaxVerifyAttempts THEN None
            ELSE [pending[b] EXCEPT !.attempts = pending[b].attempts + 1]]
      /\ codes' = [codes EXCEPT ![pending[b].code].wrong = codes[pending[b].code].wrong + 1]
  BY DEF WrongCode, Waiting
<1>3. pending[b].code \in 1..MaxCodes /\ pending[b].attempts \in Nat
  BY <1>2, CodeFields, AuthAssumption
<1> PICK n \in 1..MaxCodes : n = pending[b].code
  BY <1>3
<1> PICK tried \in Nat : tried = pending[b].attempts
  BY <1>3
<1>4. /\ codes[n].to = b /\ codes[n].accepted = 0 /\ codes[n].wrong = tried
      /\ tried < MaxVerifyAttempts
  BY <1>2 DEF CodeInv, PendingInv
<1> DEFINE row == [codes[n] EXCEPT !.wrong = tried + 1]
           next == IF tried + 1 >= MaxVerifyAttempts THEN None
                   ELSE [pending[b] EXCEPT !.attempts = tried + 1]
<1>5. codes' = [codes EXCEPT ![n] = row] /\ pending' = [pending EXCEPT ![b] = next]
  BY <1>2, <1>4
<1>6. tried + 1 \in 0..MaxVerifyAttempts /\ tried + 1 <= MaxVerifyAttempts
  BY <1>4, AuthAssumption
<1>7. row \in Code /\ row.to = b /\ row.accepted = 0 /\ row.wrong = tried + 1
  BY <1>4, <1>6, CodeFields DEF Code
<1>8. /\ next \in Pending \cup {None}
      /\ next # None => /\ next.code = n /\ next.attempts = tried + 1
                        /\ tried + 1 < MaxVerifyAttempts
  BY <1>2, <1>6, CodeFields, AuthAssumption DEF Pending
<1> HIDE DEF row, next
<1>9. FactorTypeOK'
  BY <1>5, <1>7, <1>8 DEF AuthTypeOK, FactorTypeOK
<1>10. codes'[n] = row /\ pending'[b] = next
  BY <1>5 DEF AuthTypeOK
<1>11. PendingInv(b)'
  BY <1>7, <1>8, <1>10 DEF PendingInv
<1>12. /\ \A a \in Accounts \ {b} : pending'[a] = pending[a]
       /\ \A k \in (1..MaxCodes) \ {n} : codes'[k] = codes[k]
  BY <1>5 DEF AuthTypeOK
<1>13. CodeInv'
  BY <1>4, <1>6, <1>7, <1>10, <1>11, <1>12, CodeStep
<1>14. QED
  BY <1>9, <1>13

LEMMA AcceptCodeInv ==
  ASSUME AuthTypeOK, CodeInv, NEW s \in Requests, AcceptCode(s)
  PROVE  CodeInv' /\ FactorTypeOK'
<1>1. req[s].account \in Accounts
  BY CallFields DEF AcceptCode, AuthTypeOK
<1> PICK b \in Accounts : b = req[s].account
  BY <1>1
<1>2. /\ pending[b] # None
      /\ pending' = [pending EXCEPT ![b] = None]
      /\ codes' = [codes EXCEPT ![pending[b].code].accepted = codes[pending[b].code].accepted + 1]
  BY DEF AcceptCode, Waiting
<1>3. pending[b].code \in 1..MaxCodes
  BY <1>2, CodeFields
<1> PICK n \in 1..MaxCodes : n = pending[b].code
  BY <1>3
<1>4. /\ codes[n].to = b /\ codes[n].accepted = 0
      /\ codes[n].wrong = pending[b].attempts /\ pending[b].attempts < MaxVerifyAttempts
  BY <1>2 DEF CodeInv, PendingInv
<1>5. codes[n].wrong < MaxVerifyAttempts /\ codes[n].wrong <= MaxVerifyAttempts
  BY <1>4, CodeFields, AuthAssumption
<1> DEFINE row == [codes[n] EXCEPT !.accepted = 1]
<1>6. codes' = [codes EXCEPT ![n] = row]
  BY <1>2, <1>4
<1>7. row \in Code /\ row.to = b /\ row.accepted = 1 /\ row.wrong = codes[n].wrong
  BY <1>4, CodeFields DEF Code
<1> HIDE DEF row
<1>8. FactorTypeOK'
  BY <1>2, <1>6, <1>7 DEF AuthTypeOK, FactorTypeOK
<1>9. codes'[n] = row /\ pending'[b] = None
  BY <1>2, <1>6 DEF AuthTypeOK
<1>10. /\ \A a \in Accounts \ {b} : pending'[a] = pending[a]
       /\ \A k \in (1..MaxCodes) \ {n} : codes'[k] = codes[k]
  BY <1>2, <1>6 DEF AuthTypeOK
<1>11. PendingInv(b)'
  BY <1>9 DEF PendingInv
<1>12. CodeInv'
  BY <1>4, <1>5, <1>7, <1>9, <1>10, <1>11, CodeStep
<1>13. QED
  BY <1>8, <1>12

-----------------------------------------------------------------------------
(* Every step of the server.                                               *)

AccountTypeOK ==
    /\ failed \in [Accounts -> 0..MaxFailures]
    /\ locked \subseteq Accounts /\ overlapped \subseteq Accounts
    /\ tries \in [Accounts -> Nat]

AdminTypeOK == active \subseteq Accounts /\ required \subseteq Accounts

Lasts == \A a \in locked : a \notin locked' => a \in overlapped \/ LockoutEnds(a)

AccountStep == AccountTypeOK' /\ LockInv' /\ Lasts
FactorStep == FactorTypeOK' /\ CodeInv'

LEMMA AccountFrame ==
  ASSUME AuthTypeOK, LockInv, UNCHANGED accountVars,
         \A s \in Requests : req'[s].op = "compare" => req'[s] = req[s]
  PROVE  AccountStep
<1>1. AccountTypeOK' /\ Lasts
  BY DEF AuthTypeOK, accountVars, AccountTypeOK, Lasts
<1>2. QED
  BY <1>1, LockFrame DEF AccountStep

LEMMA GotoAccountFrame ==
  ASSUME AuthTypeOK, LockInv, UNCHANGED accountVars,
         NEW s \in Requests, NEW call, Goto(s, call), call.op # "compare"
  PROVE  AccountStep
<1>1. \A r \in Requests : req'[r].op = "compare" => req'[r] = req[r]
  BY DEF Goto, AuthTypeOK
<1>2. QED
  BY <1>1, AccountFrame

LEMMA AnswerAccountFrame ==
  ASSUME AuthTypeOK, LockInv, UNCHANGED accountVars,
         NEW s \in Requests, NEW result, Answer(s, result)
  PROVE  AccountStep
BY GotoAccountFrame DEF Answer

LEMMA FactorFrame ==
  ASSUME AuthTypeOK, CodeInv, UNCHANGED factorVars
  PROVE  FactorStep
<1>1. FactorTypeOK'
  BY DEF AuthTypeOK, factorVars, FactorTypeOK
<1>2. UNCHANGED <<pending, codes>>
  BY DEF factorVars
<1>3. CodeInv'
  BY <1>2, PendingFrame
<1>4. QED
  BY <1>1, <1>3 DEF FactorStep

LEMMA LoginStepInv ==
  ASSUME AuthTypeOK, LockInv, CodeInv, NEW s \in Requests, LoginStep(s)
  PROVE  AccountStep /\ FactorStep /\ AdminTypeOK'
<1>1. CASE FindAccount(s)
  <2>1. /\ UNCHANGED <<failed, locked, tries, factorVars, adminVars>>
        /\ overlapped' \subseteq overlapped \cup {req[s].account} /\ req[s].account \in Accounts
    BY <1>1, CallFields DEF FindAccount, AuthTypeOK
  <2>2. AccountTypeOK' /\ AdminTypeOK' /\ Lasts
    BY <2>1 DEF AuthTypeOK, AccountTypeOK, AdminTypeOK, adminVars, Lasts
  <2>3. QED
    BY <1>1, <2>1, <2>2, FindAccountLock, FactorFrame DEF AccountStep
<1>2. CASE CountFailure(s)
  <2>1. req[s].account \in Accounts /\ req[s].count \in Nat
    BY <1>2, CallFields, AuthAssumption DEF CountFailure, AuthTypeOK
  <2> PICK b \in Accounts : b = req[s].account
    BY <2>1
  <2> PICK count \in Nat : count = req[s].count + 1
    BY <2>1
  <2>2. /\ failed' = [failed EXCEPT ![b] = count] /\ count <= MaxFailures
        /\ locked' = IF count >= MaxFailedAttempts THEN locked \cup {b} ELSE locked \ {b}
        /\ tries' = [tries EXCEPT ![b] = tries[b] + 1]
        /\ UNCHANGED <<overlapped, factorVars, adminVars>>
    BY <1>2 DEF CountFailure
  <2>3. count \in 0..MaxFailures /\ tries[b] + 1 \in Nat
    BY <2>2, AuthAssumption DEF AuthTypeOK
  <2>4. AccountTypeOK' /\ AdminTypeOK'
    BY <2>2, <2>3 DEF AuthTypeOK, AccountTypeOK, AdminTypeOK, adminVars
  <2>5. LockInv' /\ (b \in locked => b \in overlapped)
    BY <1>2, CountFailureLock
  <2>6. Lasts
    BY <2>2, <2>5 DEF Lasts
  <2>7. QED
    BY <2>2, <2>4, <2>5, <2>6, FactorFrame DEF AccountStep
<1>3. CASE ResetFailures(s)
  <2>1. req[s].account \in Accounts
    BY <1>3, CallFields DEF ResetFailures, AuthTypeOK
  <2> PICK b \in Accounts : b = req[s].account
    BY <2>1
  <2>2. /\ failed' = [failed EXCEPT ![b] = 0] /\ tries' = [tries EXCEPT ![b] = 0]
        /\ locked' = locked \ {b} /\ UNCHANGED <<overlapped, factorVars, adminVars>>
    BY <1>3 DEF ResetFailures
  <2>3. 0 \in 0..MaxFailures /\ 0 \in Nat
    BY AuthAssumption
  <2>4. AccountTypeOK' /\ AdminTypeOK'
    BY <2>2, <2>3 DEF AuthTypeOK, AccountTypeOK, AdminTypeOK, adminVars
  <2>5. LockInv' /\ (b \in locked => b \in overlapped)
    BY <1>3, ResetFailuresLock
  <2>6. Lasts
    BY <2>2, <2>5 DEF Lasts
  <2>7. QED
    BY <2>2, <2>4, <2>5, <2>6, FactorFrame DEF AccountStep
<1>4. ASSUME NEW n \in 1..MaxCodes, SendCode(s, n)
      PROVE  AccountStep /\ FactorStep /\ AdminTypeOK'
  <2>1. Answer(s, "code") /\ UNCHANGED accountVars /\ UNCHANGED adminVars
    BY <1>4 DEF SendCode
  <2>2. AdminTypeOK'
    BY <2>1 DEF AuthTypeOK, AdminTypeOK, adminVars
  <2>3. QED
    BY <1>4, <2>1, <2>2, AnswerAccountFrame, SendCodeInv, SendCodeType DEF FactorStep
<1>5. CASE NoCode(s)
  <2>1. /\ Goto(s, [op |-> "issue", account |-> req[s].account])
        /\ UNCHANGED accountVars /\ UNCHANGED factorVars /\ UNCHANGED adminVars
    BY <1>5 DEF NoCode
  <2>2. AdminTypeOK'
    BY <2>1 DEF AuthTypeOK, AdminTypeOK, adminVars
  <2>3. QED
    BY <2>1, <2>2, GotoAccountFrame, FactorFrame
<1>6. CASE IssueTokens(s)
  <2>1. /\ Answer(s, "session")
        /\ UNCHANGED accountVars /\ UNCHANGED factorVars /\ UNCHANGED adminVars
    BY <1>6 DEF IssueTokens
  <2>2. AdminTypeOK'
    BY <2>1 DEF AuthTypeOK, AdminTypeOK, adminVars
  <2>3. QED
    BY <2>1, <2>2, AnswerAccountFrame, FactorFrame
<1>7. QED
  BY <1>1, <1>2, <1>3, <1>4, <1>5, <1>6 DEF LoginStep

LEMMA VerifyStepInv ==
  ASSUME AuthTypeOK, LockInv, CodeInv, NEW s \in Requests, VerifyStep(s)
  PROVE  AccountStep /\ FactorStep /\ AdminTypeOK'
<1>1. UNCHANGED accountVars /\ UNCHANGED adminVars
  BY DEF VerifyStep, NotWaiting, WrongCode, AcceptCode
<1>2. AdminTypeOK'
  BY <1>1 DEF AuthTypeOK, AdminTypeOK, adminVars
<1>3. CASE NotWaiting(s)
  <2>1. /\ Answer(s, "refused") /\ UNCHANGED codes
        /\ pending' = [pending EXCEPT ![req[s].account] = None]
    BY <1>3 DEF NotWaiting
  <2>2. FactorTypeOK'
    BY <2>1 DEF AuthTypeOK, FactorTypeOK
  <2>3. \A a \in Accounts : pending'[a] = None \/ pending'[a] = pending[a]
    BY <2>1 DEF AuthTypeOK
  <2>4. CodeInv'
    BY <2>1, <2>3, PendingFrame
  <2>5. QED
    BY <1>1, <1>2, <2>1, <2>2, <2>4, AnswerAccountFrame DEF FactorStep
<1>4. CASE WrongCode(s)
  <2>1. Answer(s, "refused")
    BY <1>4 DEF WrongCode
  <2>2. QED
    BY <1>1, <1>2, <1>4, <2>1, AnswerAccountFrame, WrongCodeInv DEF FactorStep
<1>5. CASE AcceptCode(s)
  <2>1. Goto(s, [op |-> "issue", account |-> req[s].account])
    BY <1>5 DEF AcceptCode
  <2>2. QED
    BY <1>1, <1>2, <1>5, <2>1, GotoAccountFrame, AcceptCodeInv DEF FactorStep
<1>6. QED
  BY <1>3, <1>4, <1>5 DEF VerifyStep

LEMMA AuthNextInv ==
  ASSUME AuthTypeOK, LockInv, CodeInv, AuthNext
  PROVE  AuthTypeOK' /\ LockInv' /\ CodeInv' /\ Lasts
<1> DEFINE Goal == AccountStep /\ FactorStep /\ AdminTypeOK'
<1>1. ASSUME NEW s \in Requests, LoginStep(s) \/ VerifyStep(s) PROVE Goal
  BY <1>1, LoginStepInv, VerifyStepInv
<1>2. ASSUME NEW s \in Requests, Refuse(s) PROVE Goal
  <2>1. /\ Answer(s, "refused")
        /\ UNCHANGED accountVars /\ UNCHANGED factorVars /\ UNCHANGED adminVars
    BY <1>2 DEF Refuse
  <2>2. AdminTypeOK'
    BY <2>1 DEF AuthTypeOK, AdminTypeOK, adminVars
  <2>3. QED
    BY <2>1, <2>2, AnswerAccountFrame, FactorFrame
<1>3. ASSUME NEW b \in Accounts, LockoutEnds(b) PROVE Goal
  <2>1. /\ locked' = locked \ {b} /\ tries' = [tries EXCEPT ![b] = 0]
        /\ UNCHANGED <<failed, overlapped, req>> /\ UNCHANGED factorVars /\ UNCHANGED adminVars
    BY <1>3 DEF LockoutEnds
  <2>2. AccountTypeOK' /\ AdminTypeOK'
    BY <2>1 DEF AuthTypeOK, AccountTypeOK, AdminTypeOK, adminVars
  <2>3. Lasts
    BY <1>3, <2>1 DEF Lasts
  <2>4. QED
    BY <1>3, <2>1, <2>2, <2>3, LockoutEndsLock, FactorFrame DEF AccountStep
<1>4. ASSUME NEW b \in Accounts, CodeExpires(b) PROVE Goal
  <2>1. /\ pending[b] # None /\ pending' = [pending EXCEPT ![b].expired = TRUE]
        /\ UNCHANGED <<req, codes>> /\ UNCHANGED accountVars /\ UNCHANGED adminVars
    BY <1>4 DEF CodeExpires, Waiting
  <2>2. [pending[b] EXCEPT !.expired = TRUE] \in Pending
    BY <2>1, CodeFields DEF Pending
  <2>3. FactorTypeOK' /\ AdminTypeOK'
    BY <2>1, <2>2 DEF AuthTypeOK, FactorTypeOK, AdminTypeOK, adminVars
  <2>4. \A a \in Accounts :
           \/ pending'[a] = pending[a]
           \/ /\ pending[a] # None
              /\ pending'[a].code = pending[a].code /\ pending'[a].attempts = pending[a].attempts
    BY <2>1, CodeFields DEF AuthTypeOK, Pending
  <2>5. CodeInv'
    BY <2>1, <2>4, PendingFrame
  <2>6. AccountStep
    BY <2>1, AccountFrame
  <2>7. QED
    BY <2>3, <2>5, <2>6 DEF FactorStep
<1>5. ASSUME NEW b \in Accounts, SetStatus(b) \/ SetTwoFactorRequired(b) PROVE Goal
  <2>1. /\ UNCHANGED req /\ UNCHANGED accountVars /\ UNCHANGED factorVars
        /\ active' \subseteq active \cup {b} /\ required' \subseteq required \cup {b}
    BY <1>5 DEF SetStatus, SetTwoFactorRequired
  <2>2. AdminTypeOK'
    BY <2>1 DEF AuthTypeOK, AdminTypeOK
  <2>3. QED
    BY <2>1, <2>2, AccountFrame, FactorFrame
<1>6. ASSUME RestartServer PROVE Goal
  <2>1. /\ pending' = [a \in Accounts |-> None] /\ UNCHANGED codes
        /\ UNCHANGED accountVars /\ UNCHANGED adminVars
    BY <1>6 DEF RestartServer
  <2>2. \A s \in Requests : req'[s] = req[s] \/ req'[s].op = "answer"
    BY <1>6 DEF RestartServer
  <2>3. FactorTypeOK' /\ AdminTypeOK'
    BY <2>1 DEF AuthTypeOK, FactorTypeOK, AdminTypeOK, adminVars
  <2>4. CodeInv'
    BY <2>1, PendingFrame
  <2>5. AccountStep
    BY <2>1, <2>2, AccountFrame
  <2>6. QED
    BY <2>3, <2>4, <2>5 DEF FactorStep
<1>7. Goal
  BY <1>1, <1>2, <1>3, <1>4, <1>5, <1>6 DEF AuthNext
<1>8. req' \in [Requests -> Call \cup {Idle}]
  BY AuthNextKept DEF CallsKept
<1>9. AuthTypeOK'
  BY <1>7, <1>8
  DEF AuthTypeOK, AccountStep, FactorStep, AccountTypeOK, FactorTypeOK, AdminTypeOK
<1>10. QED
  BY <1>7, <1>9 DEF AccountStep, FactorStep

-----------------------------------------------------------------------------
(* Every step of a page.                                                   *)

LEMMA SlotFields ==
  ASSUME AuthTypeOK, NEW p \in Pages, NEW form \in Forms
  PROVE  <<p, form>> \in Requests /\ req[<<p, form>>] \in Call \cup {Idle}
BY LoginAssumption DEF AuthTypeOK

\* A step of a page puts a call into one of its slots or takes an answer out of it.
PageGoto(p, form, call) ==
    /\ Goto(<<p, form>>, call)
    /\ call \in Call \cup {Idle} /\ call.op # "compare"
    /\ form = "logout" => call.op \in {"idle", "logout"}
    /\ form # "logout" => call.op # "logout"
    /\ UNCHANGED Others
    /\ pages' \in [Pages -> Page] /\ token' \in Accounts \cup {NoToken}
    /\ \A q \in Pages \ {p} : pages'[q] = pages[q]

LEMMA PageGotoInv ==
  ASSUME LoginInv, NEW p \in Pages, NEW form \in Forms, NEW call, PageGoto(p, form, call),
         PageInv(p)'
  PROVE  LoginInv'
<1> DEFINE s == <<p, form>>
<1>1. /\ s \in Requests /\ AuthTypeOK /\ LockInv /\ CodeInv /\ SlotsInv
      /\ Goto(s, call) /\ call \in Call \cup {Idle} /\ call.op # "compare"
  BY SlotFields DEF LoginInv, LoginTypeOK, PageGoto
<1>2. /\ UNCHANGED accountVars /\ UNCHANGED factorVars /\ UNCHANGED adminVars
      /\ req' = [req EXCEPT ![s] = call]
  BY <1>1 DEF PageGoto, Others, Goto, accountVars
<1>3. AccountStep /\ FactorStep
  BY <1>1, <1>2, GotoAccountFrame, FactorFrame
<1>4. req' \in [Requests -> Call \cup {Idle}] /\ AdminTypeOK'
  BY <1>1, <1>2 DEF AuthTypeOK, AdminTypeOK, adminVars
<1>5. AuthTypeOK'
  BY <1>3, <1>4
  DEF AuthTypeOK, AccountStep, FactorStep, AccountTypeOK, FactorTypeOK, AdminTypeOK
<1>6. ASSUME NEW q \in Pages, NEW f \in Forms, q # p \/ f # form
      PROVE  req'[<<q, f>>] = req[<<q, f>>]
  <2>1. <<q, f>> # s /\ <<q, f>> \in Requests
    BY <1>1, <1>6, SlotFields
  <2>2. QED
    BY <1>1, <1>2, <2>1 DEF AuthTypeOK
<1>7. req'[s] = call
  BY <1>1, <1>2 DEF AuthTypeOK
<1>8. SlotsInv'
  <2> SUFFICES ASSUME NEW q \in Pages
               PROVE  /\ req'[<<q, "logout">>].op \in {"idle", "logout"}
                      /\ \A f \in {"password", "code"} : req'[<<q, f>>].op # "logout"
    BY DEF SlotsInv
  <2>1. req'[<<q, "logout">>].op \in {"idle", "logout"}
    BY <1>1, <1>6, <1>7 DEF SlotsInv, Forms, PageGoto
  <2>2. ASSUME NEW f \in {"password", "code"} PROVE req'[<<q, f>>].op # "logout"
    BY <1>1, <1>6, <1>7 DEF SlotsInv, Forms, PageGoto
  <2>3. QED
    BY <2>1, <2>2
<1>9. ASSUME NEW q \in Pages, q # p PROVE PageInv(q)'
  <2>1. PageInv(q) /\ pages'[q] = pages[q]
    BY <1>9 DEF LoginInv, PageGoto
  <2>2. \A f \in {"password", "code"} : req'[<<q, f>>] = req[<<q, f>>]
    BY <1>6, <1>9 DEF Forms
  <2>3. QED
    BY <2>1, <2>2 DEF PageInv
<1>10. QED
  BY <1>3, <1>5, <1>8, <1>9 DEF LoginInv, LoginTypeOK, PageGoto, AccountStep, FactorStep

LEMMA SubmitPasswordInv ==
  ASSUME LoginInv, NEW p \in Pages, NEW a \in Accounts, NEW right \in BOOLEAN,
         SubmitPassword(p, a, right)
  PROVE  LoginInv'
<1> DEFINE call == [op |-> "find", account |-> a, right |-> right]
           row == [pages[p] EXCEPT !.last = a,
                                   !.crossed = pages[p].crossed \/ req[<<p, "code">>] # Idle]
<1>1. /\ AuthTypeOK /\ pages \in [Pages -> Page] /\ token \in Accounts \cup {NoToken}
      /\ PageInv(p)
  BY DEF LoginInv, LoginTypeOK
<1>2. /\ pages[p].stage = "credentials" /\ Goto(<<p, "password">>, call) /\ UNCHANGED Others
      /\ UNCHANGED token /\ pages' = [pages EXCEPT ![p] = row]
  BY <1>1 DEF SubmitPassword, Begin, Page
<1>3. row \in Page /\ row.last = a /\ row.stage = "credentials"
  BY <1>1, <1>2 DEF Page
<1>4. row.crossed \/ req[<<p, "code">>] = Idle
  BY <1>1 DEF Page
<1> HIDE DEF row
<1>5. /\ pages' \in [Pages -> Page] /\ pages'[p] = row
      /\ \A q \in Pages \ {p} : pages'[q] = pages[q]
  BY <1>1, <1>2, <1>3
<1>6. call \in Call /\ call.op = "find" /\ call.account = a
  BY DEF Call
<1>7. PageGoto(p, "password", call)
  BY <1>1, <1>2, <1>5, <1>6 DEF PageGoto
<1>8. /\ req'[<<p, "password">>] = call
      /\ req'[<<p, "code">>] = req[<<p, "code">>]
  BY <1>1, <1>2, SlotFields DEF Goto, Forms, AuthTypeOK
<1>9. PageInv(p)'
  BY <1>3, <1>4, <1>5, <1>6, <1>8 DEF PageInv
<1>10. QED
  BY <1>7, <1>9, PageGotoInv DEF Forms

LEMMA SubmitCodeInv ==
  ASSUME LoginInv, NEW p \in Pages, NEW n \in 0..MaxCodes, SubmitCode(p, n)
  PROVE  LoginInv'
<1> DEFINE call == [op |-> "verify", account |-> pages[p].challenge, code |-> n]
<1>1. /\ AuthTypeOK /\ pages \in [Pages -> Page] /\ token \in Accounts \cup {NoToken}
      /\ PageInv(p)
  BY DEF LoginInv, LoginTypeOK
<1>2. /\ pages[p].stage = "2fa" /\ Goto(<<p, "code">>, call)
      /\ UNCHANGED Others /\ UNCHANGED <<pages, token>>
  BY DEF SubmitCode, Begin
<1>3. pages[p].challenge \in Accounts
  BY <1>1, <1>2 DEF PageInv
<1>4. call \in Call /\ call.op = "verify" /\ call.account = pages[p].challenge
  BY <1>3 DEF Call
<1>5. PageGoto(p, "code", call)
  BY <1>1, <1>2, <1>4 DEF PageGoto
<1>6. /\ req'[<<p, "code">>] = call
      /\ req'[<<p, "password">>] = req[<<p, "password">>]
  BY <1>1, <1>2, SlotFields DEF Goto, Forms, AuthTypeOK
<1>7. PageInv(p)'
  BY <1>1, <1>2, <1>4, <1>6 DEF PageInv
<1>8. QED
  BY <1>5, <1>7, PageGotoInv DEF Forms

\* A step that takes the answer out of a slot of the page p.
LEMMA TakeAnswerInv ==
  ASSUME LoginInv, NEW p \in Pages, NEW form \in Forms, Goto(<<p, form>>, Idle),
         UNCHANGED Others, token' \in Accounts \cup {NoToken},
         NEW row \in Page, pages' = [pages EXCEPT ![p] = row],
         row.last = pages[p].last, row.crossed = pages[p].crossed,
         row.stage = "2fa" =>
            \/ row.stage = pages[p].stage /\ row.challenge = pages[p].challenge
            \/ /\ row.challenge \in Accounts
               /\ pages[p].crossed \/ row.challenge = pages[p].last
  PROVE  LoginInv'
<1>1. /\ AuthTypeOK /\ pages \in [Pages -> Page] /\ PageInv(p)
  BY DEF LoginInv, LoginTypeOK
<1>2. /\ pages' \in [Pages -> Page] /\ pages'[p] = row
      /\ \A q \in Pages \ {p} : pages'[q] = pages[q]
  BY <1>1
<1>3. PageGoto(p, form, Idle)
  BY <1>2 DEF PageGoto, Idle
<1>4. \A f \in {"password", "code"} : req'[<<p, f>>] = Idle \/ req'[<<p, f>>] = req[<<p, f>>]
  BY <1>1, SlotFields DEF Goto, Forms, AuthTypeOK
<1>5. PageInv(p)'
  BY <1>1, <1>2, <1>4 DEF PageInv
<1>6. QED
  BY <1>3, <1>5, PageGotoInv

LEMMA PageStepInv ==
  ASSUME LoginInv, NEW p \in Pages, PageStep(p)
  PROVE  LoginInv'
<1>1. /\ AuthTypeOK /\ pages \in [Pages -> Page] /\ token \in Accounts \cup {NoToken}
      /\ PageInv(p) /\ SlotsInv /\ pages[p] \in Page
  BY DEF LoginInv, LoginTypeOK
<1>2. ASSUME NEW a \in Accounts, NEW right \in BOOLEAN, SubmitPassword(p, a, right)
      PROVE  LoginInv'
  BY <1>2, SubmitPasswordInv
<1>3. ASSUME NEW n \in 0..MaxCodes, SubmitCode(p, n) PROVE LoginInv'
  BY <1>3, SubmitCodeInv
<1>4. CASE Back(p)
  <2> DEFINE row == [pages[p] EXCEPT !.stage = "credentials"]
  <2>1. row \in Page /\ row.crossed = pages[p].crossed /\ row.last = pages[p].last
        /\ row.stage = "credentials"
    BY <1>1 DEF Page
  <2>2. pages' = [pages EXCEPT ![p] = row] /\ UNCHANGED <<authVars, token>>
    BY <1>4 DEF Back
  <2> HIDE DEF row
  <2>3. pages' \in [Pages -> Page] /\ pages'[p] = row /\ \A q \in Pages \ {p} : pages'[q] = pages[q]
    BY <1>1, <2>1, <2>2
  <2>4. /\ UNCHANGED <<failed, locked, active, required, pending, req, codes, tries, overlapped>>
        /\ UNCHANGED token
    BY <2>2 DEF authVars
  <2>5. LoginTypeOK'
    BY <1>1, <2>3, <2>4 DEF LoginTypeOK, AuthTypeOK
  <2>6. LockInv' /\ CodeInv' /\ SlotsInv'
    BY <2>4 DEF LoginInv, LockInv, AccountInv, CompareOf, CodeInv, PendingInv, CodeIsGoodOnce, SlotsInv
  <2>7. ASSUME NEW q \in Pages PROVE PageInv(q)'
    BY <1>1, <2>1, <2>3, <2>4 DEF PageInv, LoginInv
  <2>8. QED
    BY <2>5, <2>6, <2>7 DEF LoginInv
<1>5. CASE AskForCode(p)
  <2> DEFINE a == req[<<p, "password">>].account
             row == IF Gone(p) THEN pages[p] ELSE [pages[p] EXCEPT !.stage = "2fa", !.challenge = a]
  <2>1. /\ req[<<p, "password">>].op = "answer" /\ Goto(<<p, "password">>, Idle)
        /\ UNCHANGED Others /\ UNCHANGED token
    BY <1>5 DEF AskForCode, Answered
  <2>2. a \in Accounts /\ req[<<p, "password">>] # Idle
    BY <1>1, <2>1, CallFields, SlotFields DEF Forms
  <2>3. pages' = [pages EXCEPT ![p] = row]
    BY <1>1, <1>5 DEF AskForCode
  <2>4. pages[p].crossed \/ a = pages[p].last
    BY <1>1, <2>2 DEF PageInv
  <2>5. row \in Page /\ row.last = pages[p].last /\ row.crossed = pages[p].crossed
    BY <1>1, <2>2 DEF Page
  <2>6. row.stage = "2fa" => \/ row.stage = pages[p].stage /\ row.challenge = pages[p].challenge
                             \/ row.challenge = a
    BY <1>1 DEF Page
  <2> HIDE DEF row
  <2>7. QED
    BY <1>1, <2>1, <2>2, <2>3, <2>4, <2>5, <2>6, TakeAnswerInv DEF Forms
<1>6. ASSUME NEW form \in {"password", "code"}, EnterSession(p, form) PROVE LoginInv'
  <2> DEFINE row == [pages[p] EXCEPT !.stage = "dashboard"]
  <2>1. /\ form \in Forms /\ req[<<p, form>>].op = "answer" /\ Goto(<<p, form>>, Idle)
        /\ UNCHANGED Others /\ token' = req[<<p, form>>].account
        /\ pages' = [pages EXCEPT ![p] = row]
    BY <1>6 DEF EnterSession, Answered, Forms
  <2>2. token' \in Accounts
    BY <1>1, <2>1, CallFields, SlotFields
  <2>3. /\ row \in Page /\ row.last = pages[p].last /\ row.crossed = pages[p].crossed
        /\ row.stage = "dashboard"
    BY <1>1 DEF Page
  <2> HIDE DEF row
  <2>4. QED
    BY <2>1, <2>2, <2>3, TakeAnswerInv
<1>7. ASSUME NEW form \in {"password", "code"}, ShowError(p, form) PROVE LoginInv'
  <2>1. /\ form \in Forms /\ Goto(<<p, form>>, Idle)
        /\ UNCHANGED Others /\ UNCHANGED <<pages, token>>
    BY <1>7 DEF ShowError, Answered, Forms
  <2>2. pages' = [pages EXCEPT ![p] = pages[p]]
    BY <1>1, <2>1
  <2>3. QED
    BY <1>1, <2>1, <2>2, TakeAnswerInv
<1>8. CASE ClickLogout(p)
  <2> DEFINE call == [op |-> "logout"]
  <2>1. Goto(<<p, "logout">>, call) /\ UNCHANGED Others /\ UNCHANGED <<pages, token>>
    BY <1>8 DEF ClickLogout, Begin
  <2>2. call \in Call /\ call.op = "logout"
    BY DEF Call
  <2>3. PageGoto(p, "logout", call)
    BY <1>1, <2>1, <2>2 DEF PageGoto
  <2>4. \A f \in {"password", "code"} : req'[<<p, f>>] = req[<<p, f>>]
    BY <1>1, <2>1, SlotFields DEF Goto, Forms, AuthTypeOK
  <2>5. PageInv(p)'
    BY <1>1, <2>1, <2>4 DEF PageInv
  <2>6. QED
    BY <2>3, <2>5, PageGotoInv DEF Forms
<1>9. ASSUME NEW ok \in BOOLEAN, FinishLogout(p, ok) PROVE LoginInv'
  <2> DEFINE row == IF ok THEN [pages[p] EXCEPT !.stage = "left"] ELSE pages[p]
  <2>1. /\ Goto(<<p, "logout">>, Idle) /\ UNCHANGED Others /\ token' = NoToken
        /\ pages' = [pages EXCEPT ![p] = row]
    BY <1>1, <1>9 DEF FinishLogout
  <2>2. /\ row \in Page /\ row.last = pages[p].last /\ row.crossed = pages[p].crossed
        /\ row.stage \in {"left", pages[p].stage} /\ row.challenge = pages[p].challenge
    BY <1>1 DEF Page
  <2> HIDE DEF row
  <2>3. QED
    BY <1>1, <2>1, <2>2, TakeAnswerInv DEF Forms
<1>10. QED
  BY <1>2, <1>3, <1>4, <1>5, <1>6, <1>7, <1>8, <1>9 DEF PageStep

LEMMA ServerStepInv ==
  ASSUME LoginInv, AuthNext, UNCHANGED <<pages, token>>
  PROVE  LoginInv' /\ Lasts
<1>1. LoginTypeOK /\ AuthTypeOK /\ LockInv /\ CodeInv /\ SlotsInv /\ \A p \in Pages : PageInv(p)
  BY DEF LoginInv, LoginTypeOK
<1>2. AuthTypeOK' /\ LockInv' /\ CodeInv' /\ Lasts
  BY <1>1, AuthNextInv
<1>3. CallsKept
  BY <1>1, AuthNextKept
<1>4. ASSUME NEW p \in Pages, NEW form \in Forms
      PROVE  LET s == <<p, form>> IN
             \/ req'[s] = req[s]
             \/ /\ req[s].op \notin {"idle", "logout"} /\ req'[s].op # "logout"
                /\ req'[s].account = req[s].account
  BY <1>1, <1>3, <1>4, SlotFields DEF CallsKept
<1>5. SlotsInv'
  BY <1>1, <1>4 DEF SlotsInv, Forms
<1>6. ASSUME NEW p \in Pages PROVE PageInv(p)'
  <2>1. \A form \in {"password", "code"} :
           req'[<<p, form>>] # Idle => /\ req[<<p, form>>] # Idle
                                       /\ req'[<<p, form>>].account = req[<<p, form>>].account
    <3>1. Idle.op = "idle"
      BY DEF Idle
    <3>2. QED
      BY <1>4, <3>1 DEF Forms
  <2>2. PageInv(p) /\ UNCHANGED pages
    BY <1>1
  <2>3. QED
    BY <2>1, <2>2 DEF PageInv
<1>7. QED
  BY <1>1, <1>2, <1>5, <1>6 DEF LoginInv, LoginTypeOK

LEMMA InitLoginInv == LoginInit => LoginInv
<1> SUFFICES ASSUME LoginInit PROVE LoginInv
  OBVIOUS
<1>1. /\ 0 \in 0..MaxFailures /\ 0 \in 0..MaxVerifyAttempts /\ 0 \in Nat
      /\ 0 < MaxFailedAttempts /\ 0 <= MaxFailedAttempts /\ 0 <= 0 /\ 0 <= MaxVerifyAttempts
      /\ 0 <= 1 /\ 0 # 1
  BY AuthAssumption
<1>2. [to |-> None, wrong |-> 0, accepted |-> 0] \in Code
  BY <1>1 DEF Code
<1>3. AuthTypeOK
  BY <1>1, <1>2 DEF LoginInit, AuthInit, AuthTypeOK
<1>4. LoginTypeOK
  BY <1>3 DEF LoginInit, LoginTypeOK, NewPage, Page
<1>5. \A s \in Requests : req[s] = Idle /\ req[s].op = "idle"
  BY DEF LoginInit, AuthInit, Idle
<1>6. LockInv
  BY <1>1, <1>5 DEF LoginInit, AuthInit, LockInv, AccountInv, CompareOf
<1>7. CodeInv
  BY <1>1 DEF LoginInit, AuthInit, CodeInv, PendingInv, CodeIsGoodOnce
<1>8. \A p \in Pages, form \in Forms : req[<<p, form>>] = Idle /\ req[<<p, form>>].op = "idle"
  BY <1>3, <1>5, SlotFields
<1>9. SlotsInv /\ \A p \in Pages : PageInv(p)
  BY <1>8 DEF SlotsInv, PageInv, Forms, LoginInit, NewPage
<1>10. QED
  BY <1>4, <1>6, <1>7, <1>9 DEF LoginInv

LEMMA NextLoginInv == LoginInv /\ [LoginNext]_loginVars => LoginInv'
<1> SUFFICES ASSUME LoginInv, [LoginNext]_loginVars PROVE LoginInv'
  OBVIOUS
<1>1. CASE AuthNext /\ UNCHANGED <<pages, token>>
  BY <1>1, ServerStepInv
<1>2. ASSUME NEW p \in Pages, PageStep(p) PROVE LoginInv'
  BY <1>2, PageStepInv
<1>3. CASE UNCHANGED loginVars
  <2>1. UNCHANGED <<failed, locked, active, required, pending, req, codes, tries, overlapped,
                    pages, token>>
    BY <1>3 DEF loginVars, authVars
  <2>2. QED
    BY <2>1 DEF LoginInv, LoginTypeOK, AuthTypeOK, LockInv, AccountInv, CompareOf, CodeInv,
                PendingInv, CodeIsGoodOnce, SlotsInv, PageInv
<1>4. QED
  BY <1>1, <1>2, <1>3 DEF LoginNext

LEMMA LoginInvariant == LoginSpec => []LoginInv
BY InitLoginInv, NextLoginInv, PTL DEF LoginSpec

-----------------------------------------------------------------------------
\* The calls, the counts, the codes and the pages have their types: a code is
\* never counted wrong more often than the limit, a challenge is an account's.
THEOREM LoginTypes == LoginSpec => []LoginTypeOK
<1>1. LoginInv => LoginTypeOK
  BY DEF LoginInv
<1>2. QED
  BY <1>1, LoginInvariant, PTL

\* login: MAX_FAILED_ATTEMPTS wrong passwords in a row lock an account whose
\* logins do not overlap, whatever the server's restarts, the lock's ends and
\* the logins of other accounts in between.
THEOREM LimitAlwaysLocks == LoginSpec => []LimitLocks
<1>1. LoginInv => LimitLocks
  <2> SUFFICES ASSUME LoginInv, NEW a \in Accounts, a \notin overlapped
               PROVE  /\ tries[a] <= MaxFailedAttempts
                      /\ tries[a] = MaxFailedAttempts => a \in locked
    BY DEF LimitLocks
  <2>1. AccountInv(a) /\ tries[a] \in Nat
    BY DEF LoginInv, LoginTypeOK, LockInv, AuthTypeOK
  <2>2. QED
    BY <2>1, AuthAssumption DEF AccountInv
<1>2. QED
  BY <1>1, LoginInvariant, PTL

\* login: no login, right or wrong, takes away the lock of an account whose
\* logins do not overlap before lockedUntil is over.
THEOREM LockoutAlwaysLasts == LoginSpec => LockoutLasts
<1>1. LoginInv /\ [LoginNext]_loginVars =>
         [\A a \in locked : a \notin locked' => a \in overlapped \/ LockoutEnds(a)]_authVars
  <2> SUFFICES ASSUME LoginInv, [LoginNext]_loginVars
               PROVE  Lasts \/ UNCHANGED authVars
    BY DEF Lasts
  <2>1. CASE AuthNext /\ UNCHANGED <<pages, token>>
    BY <2>1, ServerStepInv
  <2>2. ASSUME NEW p \in Pages, PageStep(p) PROVE Lasts
    <3>1. locked' = locked
      BY <2>2 DEF PageStep, SubmitPassword, SubmitCode, Back, EnterSession, AskForCode, ShowError,
                  ClickLogout, FinishLogout, Others, authVars
    <3>2. QED
      BY <3>1 DEF Lasts
  <2>3. CASE UNCHANGED loginVars
    BY <2>3 DEF loginVars
  <2>4. QED
    BY <2>1, <2>2, <2>3 DEF LoginNext
<1>2. QED
  BY <1>1, LoginInvariant, PTL DEF LoginSpec, LockoutLasts

\* verifyTwoFactor: whatever the order of codes sent, entered, expired and lost,
\* a code is accepted once at most, and not after the limit of wrong entries.
THEOREM CodeIsAlwaysGoodOnce == LoginSpec => []CodeIsGoodOnce
<1>1. LoginInv => CodeIsGoodOnce
  BY DEF LoginInv, CodeInv
<1>2. QED
  BY <1>1, LoginInvariant, PTL

\* LoginPage: the session that a page stores is of the account it logged in
\* last, unless it went back and logged in while a code was being verified.
THEOREM SessionIsAlwaysOfLastLogin == LoginSpec => SessionIsOfLastLogin
<1>1. LoginInv /\ [LoginNext]_loginVars =>
         [\A p \in Pages, form \in Forms :
             EnterSession(p, form) => token' = pages[p].last \/ pages[p].crossed]_loginVars
  <2> SUFFICES ASSUME LoginInv, NEW p \in Pages, NEW form \in Forms, EnterSession(p, form)
               PROVE  token' = pages[p].last \/ pages[p].crossed
    OBVIOUS
  <2>1. req[<<p, form>>].op = "answer" /\ token' = req[<<p, form>>].account
    BY DEF EnterSession, Answered
  <2>2. Idle.op = "idle"
    BY DEF Idle
  <2>3. form # "logout" /\ req[<<p, form>>] # Idle
    BY <2>1, <2>2 DEF LoginInv, SlotsInv
  <2>4. PageInv(p)
    BY DEF LoginInv
  <2>5. QED
    BY <2>1, <2>3, <2>4 DEF PageInv, Forms
<1>2. QED
  BY <1>1, LoginInvariant, PTL DEF LoginSpec, SessionIsOfLastLogin

-----------------------------------------------------------------------------
(* The codes implement one-time codes.                                     *)

codeView == <<codeOwner, standingCodes, codeWrong, usedCodes>>

\* A step that touches no code and makes none stand again.
LEMMA DropSeen ==
  ASSUME UNCHANGED codes, standingCodes' \subseteq standingCodes
  PROVE  SecondFactor!CodeNext
<1>1. codeOwner' = codeOwner /\ codeWrong' = codeWrong /\ usedCodes' = usedCodes
  BY DEF codeOwner, codeWrong, usedCodes
<1>2. PICK N \in SUBSET (1..MaxCodes) : N = standingCodes \ standingCodes'
  BY DEF standingCodes
<1>3. SecondFactor!Drop(N)
  BY <1>1, <1>2 DEF SecondFactor!Drop
<1>4. QED
  BY <1>3 DEF SecondFactor!CodeNext

\* A login sends a code: it replaces the one that its account has.
LEMMA SendSeen ==
  ASSUME AuthTypeOK, CodeInv, NEW s \in Requests, NEW n \in 1..MaxCodes, SendCode(s, n)
  PROVE  SecondFactor!CodeNext
<1>1. req[s].account \in Accounts
  BY CallFields DEF SendCode, AuthTypeOK
<1> PICK b \in Accounts : b = req[s].account
  BY <1>1
<1>2. /\ codes[n].to = None
      /\ codes' = [codes EXCEPT ![n].to = b]
      /\ pending' = [pending EXCEPT ![b] = [code |-> n, attempts |-> 0, expired |-> FALSE]]
  BY DEF SendCode
<1>3. /\ codes'[n].to = b /\ codes'[n].wrong = codes[n].wrong
      /\ codes'[n].accepted = codes[n].accepted
      /\ \A k \in 1..MaxCodes : k # n => codes'[k] = codes[k]
  BY <1>2, CodeFields DEF AuthTypeOK, Code
<1>4. /\ codeOwner[n] = None /\ codeOwner' = [codeOwner EXCEPT ![n] = b]
      /\ codeWrong' = codeWrong /\ usedCodes' = usedCodes
  <2>1. codeOwner[n] = None /\ codeOwner' = [codeOwner EXCEPT ![n] = b]
    <3>1. codeOwner' = [k \in 1..MaxCodes |-> IF k = n THEN b ELSE codes[k].to]
      BY <1>3 DEF codeOwner
    <3>2. codeOwner = [k \in 1..MaxCodes |-> codes[k].to] /\ codes[n].to = None
      BY <1>2 DEF codeOwner
    <3>3. QED
      BY <3>1, <3>2
  <2>2. \A k \in 1..MaxCodes : codes'[k].wrong = codes[k].wrong /\ codes'[k].accepted = codes[k].accepted
    BY <1>3
  <2>3. QED
    BY <2>1, <2>2 DEF codeWrong, usedCodes
<1>5. /\ Waiting(b)' /\ pending'[b].code = n
      /\ \A a \in Accounts : a # b => pending'[a] = pending[a]
  <2>1. [code |-> n, attempts |-> 0, expired |-> FALSE] \in Pending
    BY AuthAssumption DEF Pending
  <2>2. QED
    BY <1>2, <2>1, NoneAssumption DEF AuthTypeOK, Waiting
<1>6. standingCodes' = (standingCodes \ SecondFactor!OfAccount(b)) \cup {n}
  <2>1. ASSUME NEW k \in 1..MaxCodes
        PROVE  k \in standingCodes' <=> k = n \/ (k \in standingCodes /\ codes[k].to # b)
    <3>1. k \in standingCodes' <=> k = n \/ \E a \in Accounts \ {b} : Waiting(a) /\ pending[a].code = k
      <4>1. \A a \in Accounts : a # b => (Waiting(a)' <=> Waiting(a)) /\ pending'[a].code = pending[a].code
        BY <1>5 DEF Waiting
      <4>2. QED
        BY <1>5, <4>1 DEF standingCodes
    <3>2. \A a \in Accounts : Waiting(a) /\ pending[a].code = k => codes[k].to = a
      BY DEF CodeInv, PendingInv, Waiting
    <3>3. QED
      BY <3>1, <3>2 DEF standingCodes
  <2>2. SecondFactor!OfAccount(b) = {k \in 1..MaxCodes : codes[k].to = b}
    BY DEF SecondFactor!OfAccount, codeOwner
  <2>3. standingCodes \subseteq 1..MaxCodes /\ standingCodes' \subseteq 1..MaxCodes
    BY DEF standingCodes
  <2>4. QED
    BY <2>1, <2>2, <2>3
<1>7. SecondFactor!Send(b, n)
  BY <1>4, <1>6 DEF SecondFactor!Send
<1>8. QED
  BY <1>7 DEF SecondFactor!CodeNext

\* A step of b's verification that takes b's code away or leaves it.
LEMMA StandingAfter ==
  ASSUME AuthTypeOK, CodeInv, NEW b \in Accounts, Waiting(b), NEW n, n = pending[b].code,
         \A a \in Accounts \ {b} : pending'[a] = pending[a]
  PROVE  /\ pending'[b] = None => standingCodes' = standingCodes \ {n}
         /\ (/\ pending'[b] # None /\ pending'[b].code = n
             /\ pending'[b].expired = pending[b].expired) => standingCodes' = standingCodes
<1>1. \A a \in Accounts \ {b} : Waiting(a)' <=> Waiting(a)
  BY DEF Waiting
<1>2. \A a \in Accounts : Waiting(a) /\ pending[a].code = n => a = b
  BY DEF CodeInv, PendingInv, Waiting
<1>3. ASSUME pending'[b] = None PROVE standingCodes' = standingCodes \ {n}
  <2>1. ~Waiting(b)'
    BY <1>3 DEF Waiting
  <2>2. QED
    BY <1>1, <1>2, <2>1 DEF standingCodes
<1>4. ASSUME pending'[b] # None, pending'[b].code = n, pending'[b].expired = pending[b].expired
      PROVE  standingCodes' = standingCodes
  <2>1. Waiting(b)'
    BY <1>4 DEF Waiting
  <2>2. QED
    BY <1>1, <1>4, <2>1 DEF standingCodes
<1>5. QED
  BY <1>3, <1>4

\* A wrong code is counted, and the last one ends the code.
LEMMA MissSeen ==
  ASSUME AuthTypeOK, CodeInv, NEW s \in Requests, WrongCode(s)
  PROVE  SecondFactor!CodeNext
<1>1. req[s].account \in Accounts
  BY CallFields DEF WrongCode, AuthTypeOK
<1> PICK b \in Accounts : b = req[s].account
  BY <1>1
<1>2. /\ Waiting(b) /\ pending[b] # None
      /\ pending' = [pending EXCEPT ![b] =
            IF pending[b].attempts + 1 >= MaxVerifyAttempts THEN None
            ELSE [pending[b] EXCEPT !.attempts = pending[b].attempts + 1]]
      /\ codes' = [codes EXCEPT ![pending[b].code].wrong = codes[pending[b].code].wrong + 1]
  BY DEF WrongCode, Waiting
<1>3. pending[b].code \in 1..MaxCodes /\ pending[b].attempts \in Nat
  BY <1>2, CodeFields, AuthAssumption
<1> PICK n \in 1..MaxCodes : n = pending[b].code
  BY <1>3
<1>4. codes[n].wrong = pending[b].attempts
  BY <1>2 DEF CodeInv, PendingInv
<1>5. n \in standingCodes
  BY <1>2 DEF standingCodes
<1>6. /\ codes'[n].wrong = codes[n].wrong + 1 /\ codes'[n].to = codes[n].to
      /\ codes'[n].accepted = codes[n].accepted
      /\ \A k \in 1..MaxCodes : k # n => codes'[k] = codes[k]
  BY <1>2, CodeFields DEF AuthTypeOK, Code
<1>7. /\ codeWrong[n] = codes[n].wrong
      /\ codeWrong' = [codeWrong EXCEPT ![n] = codeWrong[n] + 1]
      /\ codeOwner' = codeOwner /\ usedCodes' = usedCodes
  BY <1>6 DEF codeOwner, codeWrong, usedCodes
<1>8. \A a \in Accounts \ {b} : pending'[a] = pending[a]
  BY <1>2 DEF AuthTypeOK
<1>9. standingCodes' =
         IF codes[n].wrong + 1 < MaxVerifyAttempts THEN standingCodes ELSE standingCodes \ {n}
  <2>1. CASE codes[n].wrong + 1 < MaxVerifyAttempts
    <3> PICK tried \in Nat : tried = pending[b].attempts
      BY <1>3
    <3>0. MaxVerifyAttempts \in Nat /\ tried + 1 \in 0..MaxVerifyAttempts
      BY <1>4, <2>1, AuthAssumption
    <3>1. pending'[b] = [pending[b] EXCEPT !.attempts = tried + 1]
      <4>1. ~(tried + 1 >= MaxVerifyAttempts)
        BY <1>4, <2>1, <3>0
      <4>2. pending' = [pending EXCEPT ![b] = [pending[b] EXCEPT !.attempts = tried + 1]]
        BY <1>2, <4>1
      <4>3. QED
        BY <4>2 DEF AuthTypeOK
    <3>2. /\ pending'[b].code = n /\ pending'[b].expired = pending[b].expired
          /\ pending'[b] \in Pending
      <4>1. pending[b] \in Pending
        BY <1>2, CodeFields
      <4>2. QED
        BY <3>0, <3>1, <4>1 DEF Pending
    <3>3. pending'[b] # None
      BY <3>2, NoneAssumption
    <3>4. QED
      BY <1>2, <1>8, <2>1, <3>2, <3>3, StandingAfter
  <2>2. CASE ~(codes[n].wrong + 1 < MaxVerifyAttempts)
    <3>1. pending'[b] = None
      BY <1>2, <1>3, <1>4, <2>2, AuthAssumption DEF AuthTypeOK
    <3>2. QED
      BY <1>2, <1>8, <2>2, <3>1, StandingAfter
  <2>3. QED
    BY <2>1, <2>2
<1>10. SecondFactor!Miss(n)
  BY <1>5, <1>7, <1>9 DEF SecondFactor!Miss
<1>11. QED
  BY <1>10 DEF SecondFactor!CodeNext

\* The right code is used up.
LEMMA UseSeen ==
  ASSUME AuthTypeOK, CodeInv, NEW s \in Requests, AcceptCode(s)
  PROVE  SecondFactor!CodeNext
<1>1. req[s].account \in Accounts
  BY CallFields DEF AcceptCode, AuthTypeOK
<1> PICK b \in Accounts : b = req[s].account
  BY <1>1
<1>2. /\ Waiting(b) /\ pending[b] # None
      /\ pending' = [pending EXCEPT ![b] = None]
      /\ codes' = [codes EXCEPT ![pending[b].code].accepted = codes[pending[b].code].accepted + 1]
  BY DEF AcceptCode, Waiting
<1>3. pending[b].code \in 1..MaxCodes
  BY <1>2, CodeFields
<1> PICK n \in 1..MaxCodes : n = pending[b].code
  BY <1>3
<1>4. codes[n].accepted = 0
  BY <1>2 DEF CodeInv, PendingInv
<1>5. n \in standingCodes
  BY <1>2 DEF standingCodes
<1>6. /\ codes'[n].accepted = 1 /\ codes'[n].to = codes[n].to /\ codes'[n].wrong = codes[n].wrong
      /\ \A k \in 1..MaxCodes : k # n => codes'[k] = codes[k]
  BY <1>2, <1>4, CodeFields DEF AuthTypeOK, Code
<1>7. usedCodes' = usedCodes \cup {n} /\ codeOwner' = codeOwner /\ codeWrong' = codeWrong
  BY <1>6 DEF codeOwner, codeWrong, usedCodes
<1>8. /\ \A a \in Accounts \ {b} : pending'[a] = pending[a]
      /\ pending'[b] = None
  BY <1>2 DEF AuthTypeOK
<1>9. standingCodes' = standingCodes \ {n}
  BY <1>2, <1>8, StandingAfter
<1>10. SecondFactor!Use(n)
  BY <1>5, <1>7, <1>9 DEF SecondFactor!Use
<1>11. QED
  BY <1>10 DEF SecondFactor!CodeNext

LEMMA NothingSeen ==
  ASSUME UNCHANGED <<pending, codes>>
  PROVE  UNCHANGED codeView
BY DEF codeView, codeOwner, standingCodes, codeWrong, usedCodes, Waiting

LEMMA ServerSeen ==
  ASSUME AuthTypeOK, CodeInv, AuthNext
  PROVE  SecondFactor!CodeNext \/ UNCHANGED codeView
<1>1. ASSUME NEW s \in Requests, LoginStep(s)
      PROVE  SecondFactor!CodeNext \/ UNCHANGED codeView
  <2>1. ASSUME NEW n \in 1..MaxCodes, SendCode(s, n) PROVE SecondFactor!CodeNext
    BY <2>1, SendSeen
  <2>2. CASE FindAccount(s) \/ CountFailure(s) \/ ResetFailures(s) \/ NoCode(s) \/ IssueTokens(s)
    BY <2>2, NothingSeen
    DEF FindAccount, CountFailure, ResetFailures, NoCode, IssueTokens, factorVars
  <2>3. QED
    BY <1>1, <2>1, <2>2 DEF LoginStep
<1>2. ASSUME NEW s \in Requests, NotWaiting(s)
      PROVE  SecondFactor!CodeNext
  <2>1. standingCodes' \subseteq standingCodes
    BY <1>2 DEF NotWaiting, standingCodes, Waiting, AuthTypeOK
  <2>2. QED
    BY <1>2, <2>1, DropSeen DEF NotWaiting
<1>3. ASSUME NEW s \in Requests, VerifyStep(s)
      PROVE  SecondFactor!CodeNext
  BY <1>2, <1>3, MissSeen, UseSeen DEF VerifyStep
<1>4. ASSUME NEW s \in Requests, Refuse(s)
      PROVE  UNCHANGED codeView
  BY <1>4, NothingSeen DEF Refuse, factorVars
<1>5. ASSUME NEW a \in Accounts, CodeExpires(a)
      PROVE  SecondFactor!CodeNext
  <2>1. /\ Waiting(a) /\ pending[a] \in Pending
        /\ pending' = [pending EXCEPT ![a] = [pending[a] EXCEPT !.expired = TRUE]]
    BY <1>5, CodeFields DEF CodeExpires, Waiting
  <2>2. pending'[a].expired = TRUE /\ \A b \in Accounts : b # a => pending'[b] = pending[b]
    BY <2>1 DEF AuthTypeOK, Pending
  <2>3. standingCodes' \subseteq standingCodes
    BY <2>2 DEF standingCodes, Waiting
  <2>4. QED
    BY <1>5, <2>3, DropSeen DEF CodeExpires
<1>6. ASSUME NEW a \in Accounts, LockoutEnds(a) \/ SetStatus(a) \/ SetTwoFactorRequired(a)
      PROVE  UNCHANGED codeView
  BY <1>6, NothingSeen DEF LockoutEnds, SetStatus, SetTwoFactorRequired, factorVars
<1>7. CASE RestartServer
  <2>1. standingCodes' \subseteq standingCodes
    BY <1>7 DEF RestartServer, standingCodes, Waiting
  <2>2. QED
    BY <1>7, <2>1, DropSeen DEF RestartServer
<1>8. QED
  BY <1>1, <1>3, <1>4, <1>5, <1>6, <1>7 DEF AuthNext

\* AuthService: the codes that wait in the memory of the server, through every
\* order of logins, entries, expiries and restarts, implement one-time codes: sent
\* to one account, replaced by its next one, good until used, missed too often or
\* dropped, and never again.
THEOREM ImplementsOneTimeCodes == LoginSpec => OneTimeCodeSpec
<1>1. LoginInit => SecondFactor!CodeInit
  <2> SUFFICES ASSUME LoginInit PROVE SecondFactor!CodeInit
    OBVIOUS
  <2>1. /\ codes = [n \in 1..MaxCodes |-> [to |-> None, wrong |-> 0, accepted |-> 0]]
        /\ \A a \in Accounts : pending[a] = None
    BY DEF LoginInit, AuthInit
  <2>2. \A n \in 1..MaxCodes : codes[n].to = None /\ codes[n].wrong = 0 /\ ~(codes[n].accepted > 0)
    BY <2>1
  <2>3. QED
    BY <2>1, <2>2 DEF SecondFactor!CodeInit, codeOwner, standingCodes, codeWrong, usedCodes, Waiting
<1>2. LoginInv /\ [LoginNext]_loginVars => [SecondFactor!CodeNext]_codeView
  <2> SUFFICES ASSUME LoginInv, [LoginNext]_loginVars
               PROVE  SecondFactor!CodeNext \/ UNCHANGED codeView
    OBVIOUS
  <2>1. CASE AuthNext
    BY <2>1, ServerSeen DEF LoginInv, LoginTypeOK
  <2>2. ASSUME NEW p \in Pages, PageStep(p) PROVE UNCHANGED codeView
    <3>1. UNCHANGED <<pending, codes>>
      BY <2>2 DEF PageStep, SubmitPassword, SubmitCode, Back, EnterSession, AskForCode, ShowError,
                  ClickLogout, FinishLogout, Others, authVars, factorVars
    <3>2. QED
      BY <3>1, NothingSeen
  <2>3. CASE UNCHANGED loginVars
    BY <2>3, NothingSeen DEF loginVars, authVars
  <2>4. QED
    BY <2>1, <2>2, <2>3 DEF LoginNext
<1>3. QED
  BY <1>1, <1>2, LoginInvariant, PTL
  DEF LoginSpec, OneTimeCodeSpec, SecondFactor!CodeSpec, SecondFactor!codeVars, codeView
=============================================================================
