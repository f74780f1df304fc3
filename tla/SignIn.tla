-------------------------------- MODULE SignIn --------------------------------
(***************************************************************************)
(* Signing in on the desktop: the loop of main() that shows the login and  *)
(* the signup dialog in turn, the one of _perform_logout_and_relogin, the  *)
(* dialogs with the one-time code nested in them, and what the main window *)
(* and its clients take over.                                              *)
(*                                                                         *)
(* A dialog sends its requests from threads (HttpJsonWorker): a click, the *)
(* work of the server and the answer are three actions, the answer may be  *)
(* lost, and it may come when the dialog has closed.  exec() returns only  *)
(* when the dialogs above have closed.  Of the server (module Accounts)    *)
(* what an answer says is kept; session t belongs to owners[t].            *)
(***************************************************************************)
EXTENDS Naturals, Sequences, SequencesExt

CONSTANTS People,      \* e-mail addresses, one for each account
          NoOne,
          ResendCap,   \* RESEND_CAP of the one-time code dialog
          MaxClicks,   \* bound: requests sent
          MaxDialogs   \* bound: dialogs opened

ASSUME SignInAssumption ==
    /\ NoOne \notin People
    /\ {ResendCap, MaxClicks, MaxDialogs} \subseteq Nat

VARIABLES
    screen,     \* welcome, dialogs, main, over or aborted
    again,      \* the loop is that of _perform_logout_and_relogin
    dialogs,    \* the dialogs opened so far
    stack,      \* those on the screen: that of the loop (none over the main
                \* window), and codes above it
    calls,      \* requests of the dialogs
    clicks,     \* requests sent so far
    window,     \* what the main window and its clients hold
    loads,      \* what the start still loads for the window
    accounts,   \* on the server: none, pending or verified
    owners      \* on the server: the owners of the sessions

signInVars == <<screen, again, dialogs, stack, calls, clicks, window, loads,
                accounts, owners>>
deskOnly == <<screen, again, dialogs, stack, clicks, window, loads>>
serverVars == <<accounts, owners>>

-----------------------------------------------------------------------------
(* Dialogs.  wants is the address of the last request, busy says what is   *)
(* in flight, left that the time of the code has not run out.              *)

NewDialog(k, by, e) ==
    [kind |-> k, wants |-> e, busy |-> {}, token |-> 0, user |-> NoOne,
     result |-> "open", owner |-> by, boxes |-> "empty", left |-> TRUE,
     resends |-> ResendCap, page |-> 0]

Top == dialogs[Last(stack)]
Shown(k) == /\ stack # <<>>
            /\ Top.kind = k
            /\ Top.result = "open"

Open(k, by, e) ==
    /\ Len(dialogs) < MaxDialogs
    /\ dialogs' = Append(dialogs, NewDialog(k, by, e))

LoginDialog == Open("login", 0, NoOne)

Close(d, how) == [dialogs EXCEPT ![d].result = how]

\* An answer accepts its dialog; one that has closed already stays as it is.
Accepted(d) == IF dialogs[d].result = "open" THEN "accepted" ELSE dialogs[d].result

\* HttpJsonWorker: what is sent, and for whom.
Send(d, p, e, r) ==
    /\ clicks < MaxClicks
    /\ clicks' = clicks + 1
    /\ calls' = calls \cup {[id |-> clicks, by |-> d, path |-> p, email |-> e,
                             right |-> r, state |-> "sent", token |-> 0]}

Flying(d) == \E c \in calls : c.by = d

-----------------------------------------------------------------------------
(* The dialogs of login, signup, find-id and password reset.               *)

\* Mutant of LoginClick: without _login_in_flight.
LoginClickAlways(e) ==
    /\ Shown("login")
    /\ Send(Last(stack), "login", e, TRUE)
    /\ dialogs' = [dialogs EXCEPT ![Last(stack)].busy = {"call"},
                                  ![Last(stack)].wants = e]
    /\ UNCHANGED <<screen, again, stack, window, loads, serverVars>>

LoginClick(e) ==
    /\ Shown("login")
    /\ "call" \notin Top.busy
    /\ Send(Last(stack), "login", e, TRUE)
    /\ dialogs' = [dialogs EXCEPT ![Last(stack)].busy = {"call"},
                                  ![Last(stack)].wants = e]
    /\ UNCHANGED <<screen, again, stack, window, loads, serverVars>>

SignupClick(e) ==
    /\ Shown("signup")
    /\ "call" \notin Top.busy
    /\ Send(Last(stack), "register", e, TRUE)
    /\ dialogs' = [dialogs EXCEPT ![Last(stack)].busy = {"call"},
                                  ![Last(stack)].wants = e]
    /\ UNCHANGED <<screen, again, stack, window, loads, serverVars>>

\* Nothing is in the way of a second question.
FindClick ==
    /\ Shown("find id")
    /\ Send(Last(stack), "find", NoOne, TRUE)
    /\ UNCHANGED <<screen, again, dialogs, stack, window, loads, serverVars>>

\* The two requests of the reset are tasks of the event loop.  An exception
\* that is none of aiohttp's ends them without a word.
ResetRequested ==
    /\ Shown("reset") /\ Top.page = 0
    /\ dialogs' = [dialogs EXCEPT ![Last(stack)].page = 1]
    /\ UNCHANGED <<screen, again, stack, calls, clicks, window, loads, serverVars>>
ResetBack ==
    /\ Shown("reset") /\ Top.page = 1
    /\ dialogs' = [dialogs EXCEPT ![Last(stack)].page = 0]
    /\ UNCHANGED <<screen, again, stack, calls, clicks, window, loads, serverVars>>
ResetConsumed ==
    /\ Shown("reset") /\ Top.page = 1
    /\ dialogs' = Close(Last(stack), "accepted")
    /\ UNCHANGED <<screen, again, stack, calls, clicks, window, loads, serverVars>>

\* done(2), done(3) and done(4) of the links; the cross, Escape and cancel.
LoginLinks == {"signup", "find id", "reset"}
SignupLinks == {"login"}
Links(k) == {"rejected"} \cup CASE k = "login" -> LoginLinks
                               [] k = "signup" -> SignupLinks
                               [] OTHER -> {}

Leave(how) ==
    /\ stack # <<>> /\ Top.result = "open"
    /\ how \in Links(Top.kind)
    /\ dialogs' = Close(Last(stack), how)
    /\ UNCHANGED <<screen, again, stack, calls, clicks, window, loads, serverVars>>

-----------------------------------------------------------------------------
(* OTPDialog.                                                              *)

Verify(d, w) ==
    /\ Send(d, "verify", dialogs[d].wants, w = "right")
    /\ dialogs' = [dialogs EXCEPT ![d].busy = @ \cup {"call"}, ![d].boxes = w]

\* The last box verifies when it is filled; the others may be filled later.
Type(w) ==
    LET d == Last(stack)
    IN  /\ Shown("code") /\ Top.left /\ Top.boxes = "empty"
        /\ \/ "call" \notin Top.busy /\ Verify(d, w)
           \/ /\ dialogs' = [dialogs EXCEPT ![d].boxes = w]
              /\ UNCHANGED <<calls, clicks>>
        /\ UNCHANGED <<screen, again, stack, window, loads, serverVars>>

VerifyClick ==
    /\ Shown("code") /\ Top.boxes # "empty"
    /\ "call" \notin Top.busy
    /\ Verify(Last(stack), Top.boxes)
    /\ UNCHANGED <<screen, again, stack, window, loads, serverVars>>

Ticks ==
    /\ stack # <<>> /\ Top.kind = "code" /\ Top.left
    /\ dialogs' = [dialogs EXCEPT ![Last(stack)].left = FALSE]
    /\ UNCHANGED <<screen, again, stack, calls, clicks, window, loads, serverVars>>

\* The count and the boxes show the resend before it is sent.
ResendClick ==
    LET d == Last(stack)
    IN  /\ Shown("code") /\ Top.resends > 0
        /\ "resend" \notin Top.busy
        /\ Send(d, "resend", Top.wants, TRUE)
        /\ dialogs' = [dialogs EXCEPT
                         ![d].busy = @ \cup {"resend"}, ![d].resends = @ - 1,
                         ![d].left = TRUE, ![d].boxes = "empty"]
        /\ UNCHANGED <<screen, again, stack, window, loads, serverVars>>

Rollback(n) == IF n < ResendCap THEN n + 1 ELSE ResendCap

-----------------------------------------------------------------------------
(* The server; a request that is no longer waited for is served too.       *)

Passes(c) ==
    CASE c.path = "login" -> accounts[c.email] = "verified"
      [] c.path = "register" -> accounts[c.email] # "verified"
      [] c.path = "verify" -> c.right /\ accounts[c.email] = "pending"
      [] c.path = "resend" -> accounts[c.email] = "pending"
      [] c.path = "find" -> TRUE

Served(c) ==
    /\ c.state = "sent" /\ Passes(c)
    /\ accounts' = CASE c.path = "register" -> [accounts EXCEPT ![c.email] = "pending"]
                     [] c.path = "verify" -> [accounts EXCEPT ![c.email] = "verified"]
                     [] c.path \in {"login", "resend", "find"} -> accounts
    /\ owners' = IF c.path \in {"login", "verify"} THEN Append(owners, c.email)
                                                   ELSE owners
    /\ calls' = (calls \ {c}) \cup
                 (IF c.by = 0 THEN {}
                  ELSE {[c EXCEPT !.state = "ok", !.token = Len(owners')]})
    /\ UNCHANGED deskOnly

\* A wrong password or code, too many attempts, a name that is taken, a rate limit.
Refused(c) ==
    /\ c.state = "sent"
    /\ calls' = (calls \ {c}) \cup
                 (IF c.by = 0 THEN {} ELSE {[c EXCEPT !.state = "refused"]})
    /\ UNCHANGED <<deskOnly, serverVars>>

-----------------------------------------------------------------------------
(* Answers: _on_login_finished, _on_signup_finished, _on_verify_finished,  *)
(* _on_resend_finished and FindIdDialog._on_finished.                      *)

Answer(c) ==
    /\ screen \in {"dialogs", "main"} /\ c.by # 0
    /\ calls' = calls \ {c}
    /\ UNCHANGED <<screen, again, clicks, window, loads, serverVars>>

LoggedIn(c) ==
    /\ c.path = "login" /\ c.state = "ok"
    /\ Answer(c)
    /\ dialogs' = [dialogs EXCEPT
                     ![c.by].busy = {}, ![c.by].token = c.token,
                     ![c.by].user = owners[c.token], ![c.by].result = Accepted(c.by)]
    /\ UNCHANGED stack

\* The code is asked for also when the dialog of the signup has closed.
Registers(c) ==
    /\ c.path = "register" /\ c.state = "ok"
    /\ Answer(c)
    /\ Len(dialogs) < MaxDialogs
    /\ dialogs' = Append([dialogs EXCEPT ![c.by].busy = {}],
                         NewDialog("code", c.by, dialogs[c.by].wants))
    /\ stack' = Append(stack, Len(dialogs) + 1)

CodeVerified(c) ==
    /\ c.path = "verify" /\ c.state = "ok"
    /\ Answer(c)
    /\ dialogs' = [dialogs EXCEPT
                     ![c.by].busy = @ \ {"call"}, ![c.by].token = c.token,
                     ![c.by].user = owners[c.token], ![c.by].result = Accepted(c.by)]
    /\ UNCHANGED stack

Answered(c) ==
    /\ c.path \in {"resend", "find"} /\ c.state = "ok"
    /\ Answer(c)
    /\ dialogs' = [dialogs EXCEPT ![c.by].busy = @ \ {"resend"}]
    /\ UNCHANGED stack

\* Without the verification or the resend that failed.
AfterFailure(c) ==
    [dialogs EXCEPT
       ![c.by].busy = @ \ {IF c.path = "resend" THEN "resend" ELSE "call"},
       ![c.by].boxes = IF c.path = "verify" THEN "empty" ELSE @,
       ![c.by].resends = IF c.path = "resend" THEN Rollback(@) ELSE @]

RefusedAnswer(c) ==
    /\ c.state = "refused"
    /\ Answer(c)
    /\ dialogs' = AfterFailure(c)
    /\ UNCHANGED stack

\* URLError or ten seconds: the request, or its answer, may be on its way.
NoAnswer(c) ==
    /\ screen \in {"dialogs", "main"} /\ c.by # 0
    /\ calls' = (calls \ {c}) \cup
                 (IF c.state = "sent" THEN {[c EXCEPT !.by = 0]} ELSE {})
    /\ dialogs' = AfterFailure(c)
    /\ UNCHANGED <<screen, again, stack, clicks, window, loads, serverVars>>

\* exec_modal of the code returns to _on_signup_finished.
CodeCloses ==
    LET otp == Last(stack)
        s == dialogs[otp].owner
    IN  /\ stack # <<>> /\ Top.kind = "code" /\ Top.result # "open"
        /\ stack' = Front(stack)
        /\ dialogs' = IF Top.result # "accepted" THEN dialogs
                      ELSE [dialogs EXCEPT ![s].token = Top.token, ![s].user = Top.user,
                                           ![s].result = Accepted(s)]
        /\ UNCHANGED <<screen, again, calls, clicks, window, loads, serverVars>>

-----------------------------------------------------------------------------
(* The loop, once its dialog has closed and all above it have.             *)

Welcomed ==
    /\ screen = "welcome"
    /\ screen' = "dialogs"
    /\ LoginDialog
    /\ stack' = <<1>>
    /\ UNCHANGED <<again, calls, clicks, window, loads, serverVars>>

Leaves(to) ==
    /\ screen' = to
    /\ stack' = <<>>
    /\ UNCHANGED <<again, dialogs, calls, clicks, window, loads, serverVars>>

NotWelcomed == screen = "welcome" /\ Leaves("over")

\* The dialog of the loop has closed, and in which way.
LoopOn(how) ==
    /\ screen = "dialogs" /\ Len(stack) = 1
    /\ Top.result = how

\* What the loop shows next; after a logout only the signup has a place in it.
NextDialog(k, how) ==
    CASE k = "login" /\ how = "signup" -> "signup"
      [] k = "login" /\ how \in {"find id", "reset"} /\ ~again -> how
      [] k = "signup" /\ how = "login" -> "login"
      [] k \in {"find id", "reset"} -> "login"
      [] OTHER -> "none"

\* A local variable takes the new dialog, and lets go of the last one of its
\* kind with its thread: a thread that runs then ends the process (QThread).
\* The lambda of a signup dialog keeps it alive until the garbage collector.
LetGo(k) == {d \in DOMAIN dialogs : /\ dialogs[d].kind = k
                                    /\ k \in {"login", "find id"}
                                    /\ Flying(d)}

Switch ==
    \E how \in {"signup", "login", "find id", "reset", "rejected", "accepted"} :
       LET k == NextDialog(Top.kind, how)
       IN  /\ LoopOn(how) /\ k # "none"
           /\ LetGo(k) = {}
           /\ Open(k, 0, NoOne)
           /\ stack' = <<Len(dialogs) + 1>>
           /\ UNCHANGED <<screen, again, calls, clicks, window, loads, serverVars>>

SwitchAborts ==
    \E how \in {"signup", "login", "find id", "reset", "rejected", "accepted"} :
       LET k == NextDialog(Top.kind, how)
       IN  /\ LoopOn(how) /\ k # "none"
           /\ LetGo(k) # {}
           /\ Leaves("aborted")

Collected ==
    /\ screen \in {"dialogs", "main"}
    /\ \E d \in DOMAIN dialogs :
          /\ dialogs[d].kind = "signup" /\ Flying(d)
          /\ \A i \in DOMAIN stack : stack[i] # d /\ dialogs[stack[i]].owner # d
    /\ Leaves("aborted")

\* After a logout the links for a forgotten address or password lead here too.
GivesUp ==
    /\ \E how \in {"rejected", "find id", "reset"} :
          LoopOn(how) /\ NextDialog(Top.kind, how) = "none"
    /\ Leaves("over")

\* main() gives every client the token, and has an address from the login only.
EnterFirst ==
    /\ LoopOn("accepted") /\ ~again /\ Top.kind \in {"login", "signup"}
    /\ window' = [token |-> Top.token, user |-> Top.user, auth |-> Top.token,
                  friends |-> Top.token, rooms |-> Top.token, listed |-> NoOne,
                  email |-> IF Top.kind = "login" THEN Top.user ELSE NoOne]
    /\ loads' = {"profile", "rooms"}
    /\ screen' = "main" /\ stack' = <<>>
    /\ UNCHANGED <<again, dialogs, calls, clicks, serverVars>>

\* _perform_logout_and_relogin gives the token to the friends client alone; its
\* variables, and the dialogs in them, end with it.
EnterAgain ==
    /\ LoopOn("accepted") /\ again /\ Top.kind \in {"login", "signup"}
    /\ window' = [window EXCEPT
                    !.token = Top.token, !.user = Top.user, !.friends = Top.token,
                    !.auth = IF Top.kind = "login" THEN Top.token ELSE @]
    /\ screen' = IF LetGo("login") = {} THEN "main" ELSE "aborted"
    /\ stack' = <<>>
    /\ UNCHANGED <<again, dialogs, calls, clicks, loads, serverVars>>

-----------------------------------------------------------------------------
(* The main window.                                                        *)

PopulateRooms == [window EXCEPT !.listed = owners[window.rooms]]

\* ProfileGetWorker and _populate_rooms of the start, under its token.
Loaded(what) ==
    /\ what \in loads /\ screen \in {"main", "dialogs"}
    /\ loads' = loads \ {what}
    /\ window' = IF what = "profile"
                 THEN [window EXCEPT !.email = owners[window.rooms]]
                 ELSE PopulateRooms
    /\ UNCHANGED <<screen, again, dialogs, stack, calls, clicks, serverVars>>

NotLoaded(what) ==
    /\ what \in loads /\ screen \in {"main", "dialogs"}
    /\ loads' = loads \ {what}
    /\ UNCHANGED <<screen, again, dialogs, stack, calls, clicks, window, serverVars>>

\* The menu offers the logout, and it works, only with a token.
LoggedInMenu == window.token # 0

LogOut ==
    /\ screen = "main" /\ stack = <<>> /\ LoggedInMenu
    /\ window' = [window EXCEPT !.token = 0, !.user = NoOne, !.auth = 0,
                                !.friends = 0]
    /\ screen' = "dialogs" /\ again' = TRUE
    /\ LoginDialog
    /\ stack' = <<Len(dialogs) + 1>>
    /\ UNCHANGED <<calls, clicks, loads, serverVars>>

Quit == screen = "main" /\ stack = <<>> /\ Leaves("over")

-----------------------------------------------------------------------------
SignInInit ==
    /\ screen = "welcome"
    /\ again = FALSE
    /\ dialogs = <<>> /\ stack = <<>>
    /\ calls = {} /\ clicks = 0
    /\ window = [token |-> 0, user |-> NoOne, auth |-> 0, friends |-> 0,
                 rooms |-> 0, listed |-> NoOne, email |-> NoOne]
    /\ loads = {}
    /\ accounts \in [People -> {"none", "verified"}]
    /\ owners = <<>>

Clicks ==
    \/ \E e \in People : LoginClick(e) \/ SignupClick(e)
    \/ FindClick \/ ResetRequested \/ ResetBack \/ ResetConsumed
    \/ \E how \in {"signup", "login", "find id", "reset", "rejected"} : Leave(how)
    \/ \E w \in {"right", "wrong"} : Type(w)
    \/ VerifyClick \/ ResendClick \/ Ticks

Answers ==
    \E c \in calls :
       \/ Served(c) \/ Refused(c)
       \/ LoggedIn(c) \/ Registers(c) \/ CodeVerified(c) \/ Answered(c)
       \/ RefusedAnswer(c) \/ NoAnswer(c)

Loop ==
    \/ Welcomed \/ NotWelcomed \/ CodeCloses \/ Switch \/ SwitchAborts
    \/ Collected \/ GivesUp \/ EnterFirst \/ EnterAgain

MainWindow ==
    \/ \E what \in loads : Loaded(what) \/ NotLoaded(what)
    \/ LogOut \/ Quit

SignInNext == Clicks \/ Answers \/ Loop \/ MainWindow

SignInSpec == SignInInit /\ [][SignInNext]_signInVars

-----------------------------------------------------------------------------
(* Properties.                                                             *)

\* Whoever comes to the main window is signed in as the account whose address
\* was given in the dialog that let them in, however late the answers and the
\* codes of other attempts come (login_dialog.py:205, signup_dialog.py:191).
SignedInAsAsked ==
    [][screen = "dialogs" /\ screen' = "main" =>
          LET asked == dialogs[Head(stack)].wants
          IN  window'.user = asked /\ owners[window'.token] = asked]_signInVars

\* "세션 폐기 + LoginDialog modal re-spawn + 신규 session token swap"
\* (_tray_mixin.py:119): every client of the main window has the session of the
\* account that is signed in.
OneAccount ==
    screen = "main" =>
       \A t \in {window.token, window.auth, window.friends, window.rooms} :
          t # 0 /\ owners[t] = window.user

-----------------------------------------------------------------------------
(* Faulty variants of definitions.                                         *)

=============================================================================
