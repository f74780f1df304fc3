------------------------------- MODULE Accounts -------------------------------
(***************************************************************************)
(* Accounts, one-time codes and sessions of the server: the request        *)
(* handlers of server/api/auth_handlers.py with the use cases of           *)
(* server/auth, over the tables users, email_verification and              *)
(* user_sessions and the in-memory session store.                          *)
(*                                                                         *)
(* A request is a task of the event loop that suspends at its database     *)
(* statements, so an action is one statement (a repository function is one *)
(* transaction) with the code up to the next one.  A password is named by  *)
(* the request that set it, a session token by the request that made it, a *)
(* code by the place of its row in email_verification.  A message that is  *)
(* mailed, an audit row and a timestamp change nothing here.               *)
(***************************************************************************)
EXTENDS Naturals, Sequences, FiniteSets

CONSTANTS Requests,      \* HTTP requests; each is handled once
          Emails, Names,
          Before,        \* the password of an account that exists at the start
          NoUser, NoRequest,
          MaxAttempts,   \* comparisons of one code (5 in verify.py)
          MaxCodes,      \* bound: codes issued
          MaxRestarts    \* bound: restarts of the server

ASSUME BoundsAssumption ==
    MaxAttempts \in Nat /\ MaxCodes \in Nat /\ MaxRestarts \in Nat
ASSUME NullAssumption ==
    /\ Before \notin Requests
    /\ NoUser \notin [name : Names, secret : Requests \cup {Before},
                      verified : BOOLEAN]

VARIABLES
    users,      \* users[e]: the row of e in users, or NoUser
    codes,      \* rows of email_verification in the order of their ids
    rows,       \* rows[t]: none, open or closed: the user_sessions row of t
    store,      \* tokens in app["session_store"]
    held,       \* tokens that have been sent to a client
    req,        \* req[r]: the request, once it has arrived
    pc,         \* pc[r]: the statement r waits for
    found,      \* found[r]: the code find_active_otp gave it, 0 for none
    restarts    \* restarts so far

vars == <<users, codes, rows, store, held, req, pc, found, restarts>>

Purposes == {"signup", "password_reset"}
Secrets == Requests \cup {Before}
Users == [name : Names, secret : Secrets, verified : BOOLEAN]
\* guesses and passes count the comparisons of a code and those that succeeded.
Codes == [email : Emails, purpose : Purposes, used : BOOLEAN,
          expired : BOOLEAN, tries : Nat, guesses : Nat, passes : Nat]
Arrivals ==
    [name : Names, email : Emails, kind : {"register"}]
      \cup [email : Emails, kind : {"resend", "forgot", "login"}]
      \cup [email : Emails, kind : {"verify", "reset"}, code : Nat]
      \cup [kind : {"logout", "delete", "other"}, bearer : Requests]
Steps == {"new", "reclaim", "lookup name", "insert user", "issue", "pending",
          "account to reset", "prior", "invalidate", "find", "try", "consume", "account", "mark",
          "set password", "login", "last login", "session", "session row",
          "auth", "read", "file", "close session", "done"}

TypeOK ==
    /\ users \in [Emails -> Users \cup {NoUser}]
    /\ codes \in Seq(Codes)
    /\ rows \in [Requests -> {"none", "open", "closed"}]
    /\ store \subseteq Requests
    /\ held \subseteq Requests
    /\ req \in [Requests -> Arrivals \cup {NoRequest}]
    /\ pc \in [Requests -> Steps]
    /\ found \in [Requests -> Nat]
    /\ restarts \in Nat

\* The account exists, and its address has been verified.
Verified(e) == users[e] # NoUser /\ users[e].verified

\* The purpose of the codes that r is about.
Purpose(r) == IF req[r].kind \in {"reset", "forgot"} THEN "password_reset"
                                                     ELSE "signup"

NewCode(e, p) == [email |-> e, purpose |-> p, used |-> FALSE,
                  expired |-> FALSE, tries |-> 0, guesses |-> 0, passes |-> 0]

\* The tables hold nobody, or one account that has been verified or waits for
\* its code.
Init ==
    /\ \/ users = [e \in Emails |-> NoUser] /\ codes = <<>>
       \/ \E e \in Emails, u \in [name : Names, secret : {Before},
                                  verified : BOOLEAN] :
             /\ users = [f \in Emails |-> IF f = e THEN u ELSE NoUser]
             /\ codes = IF u.verified THEN <<>> ELSE <<NewCode(e, "signup")>>
    /\ rows = [t \in Requests |-> "none"]
    /\ store = {}
    /\ held = {}
    /\ req = [r \in Requests |-> NoRequest]
    /\ pc = [r \in Requests |-> "new"]
    /\ found = [r \in Requests |-> 0]
    /\ restarts = 0

\* Request r goes from one statement to another, and nothing else moves on.
Goto(r, from, to) ==
    /\ pc[r] = from
    /\ pc' = [pc EXCEPT ![r] = to]

-----------------------------------------------------------------------------
\* Requests arrive: register, resend, forgot (/reset/request), login; verify and
\* reset (/reset/consume) with a code that was issued or a wrong one; logout, the
\* deletion of an account and any other request under the token of a session.

First(kind) ==
    CASE kind = "register" -> "reclaim"
      [] kind = "resend" -> "pending"
      [] kind = "forgot" -> "account to reset"
      [] kind = "login" -> "login"
      [] kind \in {"verify", "reset"} -> "find"
      [] kind \in {"logout", "delete", "other"} -> "auth"

Arrive(r, a) ==
    /\ Goto(r, "new", First(a.kind))
    /\ req' = [req EXCEPT ![r] = a]
    /\ UNCHANGED <<users, codes, rows, store, held, found, restarts>>

RecvRegister(r) ==
    \E e \in Emails, n \in Names :
       Arrive(r, [name |-> n, email |-> e, kind |-> "register"])

RecvResend(r) == \E e \in Emails : Arrive(r, [email |-> e, kind |-> "resend"])
RecvForgot(r) == \E e \in Emails : Arrive(r, [email |-> e, kind |-> "forgot"])
RecvLogin(r) == \E e \in Emails : Arrive(r, [email |-> e, kind |-> "login"])

RecvVerify(r) ==
    \E e \in Emails, i \in 0..Len(codes) :
       Arrive(r, [email |-> e, kind |-> "verify", code |-> i])
RecvReset(r) ==
    \E e \in Emails, i \in 0..Len(codes) :
       Arrive(r, [email |-> e, kind |-> "reset", code |-> i])

RecvLogout(r) == \E t \in held : Arrive(r, [kind |-> "logout", bearer |-> t])
RecvDelete(r) == \E t \in held : Arrive(r, [kind |-> "delete", bearer |-> t])
RecvOther(r) == \E t \in held : Arrive(r, [kind |-> "other", bearer |-> t])

-----------------------------------------------------------------------------
\* email_verification

\* The rows with the codes for a registration marked as consumed.
SignupConsumed(e) ==
    [i \in DOMAIN codes |->
       IF codes[i].email = e /\ codes[i].purpose = "signup"
       THEN [codes[i] EXCEPT !.used = TRUE] ELSE codes[i]]

Active(e, p) ==
    {i \in DOMAIN codes : /\ codes[i].email = e
                          /\ codes[i].purpose = p
                          /\ ~codes[i].used
                          /\ ~codes[i].expired
                          /\ codes[i].tries < MaxAttempts}

\* find_active_otp
Newest(e, p) ==
    IF Active(e, p) = {} THEN 0
    ELSE CHOOSE i \in Active(e, p) : \A j \in Active(e, p) : j <= i

\* insert_otp, for register, resend and forgot; then the code is mailed.
IssueCode(r) ==
    /\ Goto(r, "issue", "done")
    /\ Len(codes) < MaxCodes
    /\ codes' = Append(codes, NewCode(req[r].email, Purpose(r)))
    /\ UNCHANGED <<users, rows, store, held, req, found, restarts>>

FindCode(r) ==
    LET i == Newest(req[r].email, Purpose(r))
    IN  /\ Goto(r, "find", IF i = 0 THEN "done" ELSE "try")
        /\ found' = [found EXCEPT ![r] = i]
        /\ UNCHANGED <<users, codes, rows, store, held, req, restarts>>

\* increment_attempt has committed when the code is compared.
TryCode(r) ==
    LET i == found[r]
        compared == codes[i].tries + 1 <= MaxAttempts
        right == compared /\ req[r].code = i
    IN  /\ Goto(r, "try", IF ~right THEN "done" ELSE
                          IF req[r].kind = "verify" THEN "consume" ELSE "account")
        /\ codes' = [codes EXCEPT
                       ![i].tries = @ + 1,
                       ![i].guesses = IF compared THEN @ + 1 ELSE @,
                       ![i].passes = IF right THEN @ + 1 ELSE @]
        /\ UNCHANGED <<users, rows, store, held, req, found, restarts>>

\* consume_otp
ConsumeCode(r) ==
    /\ Goto(r, "consume", IF req[r].kind = "verify" THEN "account"
                                                    ELSE "set password")
    /\ codes' = [codes EXCEPT ![found[r]].used = TRUE]
    /\ UNCHANGED <<users, rows, store, held, req, found, restarts>>

Expire(i) ==
    /\ ~codes[i].expired
    /\ codes' = [codes EXCEPT ![i].expired = TRUE]
    /\ UNCHANGED <<users, rows, store, held, req, pc, found, restarts>>

-----------------------------------------------------------------------------
\* register_user

NameTaken(n, e) == \E f \in Emails \ {e} : users[f] # NoUser /\ users[f].name = n

\* The row of e with the credentials that r brought.
Registered(r) == [name |-> req[r].name, secret |-> r, verified |-> FALSE]

\* Mutant of Reclaim: the row is overwritten without a look at email_verified.
ReclaimAny(r) ==
    LET e == req[r].email
        reclaimed == users[e] # NoUser /\ ~NameTaken(req[r].name, e)
    IN  /\ Goto(r, "reclaim", IF reclaimed THEN "issue" ELSE
                              IF users[e] = NoUser THEN "lookup name" ELSE "done")
        /\ users' = IF reclaimed THEN [users EXCEPT ![e] = Registered(r)]
                                 ELSE users
        /\ codes' = IF reclaimed THEN SignupConsumed(e) ELSE codes
        /\ UNCHANGED <<rows, store, held, req, found, restarts>>

\* reclaim_unverified_user_atomic: the row of the address is locked throughout.
Reclaim(r) ==
    LET e == req[r].email
        reclaimed == /\ users[e] # NoUser
                     /\ ~Verified(e)
                     /\ ~NameTaken(req[r].name, e)
    IN  /\ Goto(r, "reclaim", IF reclaimed THEN "issue" ELSE
                              IF users[e] = NoUser THEN "lookup name" ELSE "done")
        /\ users' = IF reclaimed THEN [users EXCEPT ![e] = Registered(r)]
                                 ELSE users
        /\ codes' = IF reclaimed THEN SignupConsumed(e) ELSE codes
        /\ UNCHANGED <<rows, store, held, req, found, restarts>>

LookupName(r) ==
    /\ Goto(r, "lookup name",
            IF \E e \in Emails : users[e] # NoUser /\ users[e].name = req[r].name
            THEN "done" ELSE "insert user")
    /\ UNCHANGED <<users, codes, rows, store, held, req, found, restarts>>

\* insert_user: the UNIQUE keys refuse what was registered in the meantime, and
\* handle_register answers 409.
InsertUser(r) ==
    LET e == req[r].email
        free == users[e] = NoUser /\ ~NameTaken(req[r].name, e)
    IN  /\ Goto(r, "insert user", IF free THEN "issue" ELSE "done")
        /\ users' = IF free THEN [users EXCEPT ![e] = Registered(r)] ELSE users
        /\ UNCHANGED <<codes, rows, store, held, req, found, restarts>>

-----------------------------------------------------------------------------
\* resend_signup_otp and request_password_reset

\* Nobody, or an address that has been verified: there is nothing to resend.
LookupPending(r) ==
    LET pending == users[req[r].email] # NoUser /\ ~Verified(req[r].email)
    IN  /\ Goto(r, "pending", IF pending THEN "prior" ELSE "done")
        /\ UNCHANGED <<users, codes, rows, store, held, req, found, restarts>>

\* The answer is the same whether there is an account or not.
LookupForgetful(r) ==
    /\ Goto(r, "account to reset",
            IF users[req[r].email] = NoUser THEN "done" ELSE "issue")
    /\ UNCHANGED <<users, codes, rows, store, held, req, found, restarts>>

\* The cooldown since an active code was issued may have passed or not.
Cooldown(r) ==
    /\ \/ Goto(r, "prior", "invalidate")
       \/ Goto(r, "prior", "done") /\ Newest(req[r].email, "signup") # 0
    /\ UNCHANGED <<users, codes, rows, store, held, req, found, restarts>>

\* invalidate_pending
Invalidate(r) ==
    /\ Goto(r, "invalidate", "issue")
    /\ codes' = SignupConsumed(req[r].email)
    /\ UNCHANGED <<users, rows, store, held, req, found, restarts>>

-----------------------------------------------------------------------------
\* The ends of verify_signup_otp and consume_password_reset

VerifiedAccount(r) ==
    /\ Goto(r, "account", IF users[req[r].email] = NoUser THEN "done" ELSE "mark")
    /\ req[r].kind = "verify"
    /\ UNCHANGED <<users, codes, rows, store, held, req, found, restarts>>

ResetAccount(r) ==
    /\ Goto(r, "account", IF users[req[r].email] = NoUser THEN "done" ELSE "consume")
    /\ req[r].kind = "reset"
    /\ UNCHANGED <<users, codes, rows, store, held, req, found, restarts>>

\* mark_email_verified
MarkVerified(r) ==
    /\ Goto(r, "mark", "session")
    /\ users' = [users EXCEPT ![req[r].email].verified = TRUE]
    /\ UNCHANGED <<codes, rows, store, held, req, found, restarts>>

\* update_password
SetPassword(r) ==
    /\ Goto(r, "set password", "done")
    /\ users' = [users EXCEPT ![req[r].email].secret = r]
    /\ UNCHANGED <<codes, rows, store, held, req, found, restarts>>

-----------------------------------------------------------------------------
\* login_user, and the session of a login or a verification

\* The account is read once; the password is right or wrong.
Login(r) ==
    /\ \/ Goto(r, "login", "last login") /\ Verified(req[r].email)
       \/ Goto(r, "login", "done")
    /\ UNCHANGED <<users, codes, rows, store, held, req, found, restarts>>

LastLogin(r) ==
    /\ Goto(r, "last login", "session")
    /\ UNCHANGED <<users, codes, rows, store, held, req, found, restarts>>

OpenSession(r) ==
    /\ Goto(r, "session", "session row")
    /\ store' = store \cup {r}
    /\ UNCHANGED <<users, codes, rows, held, req, found, restarts>>

\* _create_session_row may give up; the answer bears the token all the same.
InsertSession(r) ==
    /\ Goto(r, "session row", "done")
    /\ \E row \in {"open", "none"} : rows' = [rows EXCEPT ![r] = row]
    /\ held' = held \cup {r}
    /\ UNCHANGED <<users, codes, store, req, found, restarts>>

-----------------------------------------------------------------------------
\* auth_middleware, and the handlers behind it

\* What is left of the store when the handler, once it knows the user, has come
\* to its first statement: logout and deletion take the token out.
Kept(r, tokens) ==
    IF req[r].kind \in {"logout", "delete"} THEN tokens \ {req[r].bearer}
                                            ELSE tokens
Handled(r) == IF req[r].kind = "logout" THEN "close session" ELSE "done"

Authenticate(r) ==
    LET known == req[r].bearer \in store
    IN  /\ Goto(r, "auth", IF known THEN Handled(r) ELSE "read")
        /\ store' = IF known THEN Kept(r, store) ELSE store
        /\ UNCHANGED <<users, codes, rows, held, req, found, restarts>>

\* Mutant of ReadSession: disconnected_at is not asked for.
ReadAnySession(r) ==
    /\ Goto(r, "read", IF rows[req[r].bearer] # "none" THEN "file" ELSE "done")
    /\ UNCHANGED <<users, codes, rows, store, held, req, found, restarts>>

\* The row is read here and the token filed when the task goes on.
ReadSession(r) ==
    /\ Goto(r, "read", IF rows[req[r].bearer] = "open" THEN "file" ELSE "done")
    /\ UNCHANGED <<users, codes, rows, store, held, req, found, restarts>>

Rehydrate(r) ==
    /\ Goto(r, "file", Handled(r))
    /\ store' = Kept(r, store \cup {req[r].bearer})
    /\ UNCHANGED <<users, codes, rows, held, req, found, restarts>>

\* close_session; an error is logged and the row stays as it is.
CloseSession(r) ==
    LET t == req[r].bearer
    IN  /\ Goto(r, "close session", "done")
        /\ \/ rows' = [rows EXCEPT ![t] = IF @ = "open" THEN "closed" ELSE @]
           \/ UNCHANGED rows
        /\ UNCHANGED <<users, codes, store, held, req, found, restarts>>

-----------------------------------------------------------------------------
\* A statement fails, or the retries of error 1020 are used up: the request ends
\* with what it has committed.
Fail(r) ==
    /\ pc[r] \notin {"new", "auth", "file", "last login", "session",
                     "session row", "close session", "done"}
    /\ Goto(r, pc[r], "done")
    /\ UNCHANGED <<users, codes, rows, store, held, req, found, restarts>>

\* The process starts again: the tables stay, the store and the tasks do not.
Restart ==
    /\ restarts < MaxRestarts
    /\ restarts' = restarts + 1
    /\ store' = {}
    /\ pc' = [r \in Requests |-> IF pc[r] = "new" THEN "new" ELSE "done"]
    /\ UNCHANGED <<users, codes, rows, held, req, found>>

Receive(r) ==
    \/ RecvRegister(r) \/ RecvResend(r) \/ RecvForgot(r) \/ RecvLogin(r)
    \/ RecvVerify(r) \/ RecvReset(r)
    \/ RecvLogout(r) \/ RecvDelete(r) \/ RecvOther(r)
Signup(r) ==
    Reclaim(r) \/ LookupName(r) \/ InsertUser(r) \/ IssueCode(r)
Resend(r) ==
    LookupPending(r) \/ LookupForgetful(r) \/ Cooldown(r) \/ Invalidate(r)
UseCode(r) ==
    \/ FindCode(r) \/ TryCode(r) \/ ConsumeCode(r) \/ VerifiedAccount(r)
    \/ ResetAccount(r) \/ MarkVerified(r) \/ SetPassword(r)
Session(r) ==
    \/ Login(r) \/ LastLogin(r) \/ OpenSession(r) \/ InsertSession(r)
    \/ Authenticate(r) \/ ReadSession(r) \/ Rehydrate(r) \/ CloseSession(r)

Next ==
    \/ \E r \in Requests :
          Receive(r) \/ Signup(r) \/ Resend(r) \/ UseCode(r) \/ Session(r)
             \/ Fail(r)
    \/ \E i \in DOMAIN codes : Expire(i)
    \/ Restart

Spec == Init /\ [][Next]_vars

-----------------------------------------------------------------------------
\* Properties

\* An account whose address has been verified is changed by nobody but a request
\* that has shown and used up a code mailed to that address for the purpose: a
\* registration never takes it over, however the two interleave, and the code
\* was compared no more often than it may be, although several requests can have
\* found it active at once (verify.py:49-51, users.py:307-354 against verify.py:60).
OnlyAResetChangesVerified ==
    [][\A e \in Emails : Verified(e) /\ users'[e] # users[e] =>
          \E r \in Requests :
             /\ pc[r] = "set password" /\ pc'[r] = "done"
             /\ req[r].email = e
             /\ LET c == codes[found[r]]
                IN  /\ c.email = e /\ c.purpose = "password_reset"
                    /\ c.used /\ c.passes > 0 /\ c.guesses <= MaxAttempts]_vars

\* Session t, whose token a client has had, is over: its row does not say open,
\* the store does not have it and no request is about to put it back.
Over(t) ==
    /\ t \in held \ store
    /\ rows[t] # "open"
    /\ \A r \in Requests : pc[r] = "file" => req[r].bearer # t

\* A session that is over stays over, whatever requests still come with its
\* token and however often the server starts again (middleware.py:92-107).
OverStaysOver == [][\A t \in Requests : Over(t) => Over(t)']_vars

\* A code does its work once (consume_otp is there to stop its second use,
\* email_verification.py:195).
CodeUsedOnce == \A i \in DOMAIN codes : codes[i].passes <= 1

=============================================================================
