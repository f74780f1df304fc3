-------------------------------- MODULE Webmail --------------------------------
(***************************************************************************)
(* The webmail program (server_webmail): it keeps nothing but the key of   *)
(* its cookies.  A browser with several tabs holds the session - the name  *)
(* and the password of a mailbox, encrypted - and every request for mail   *)
(* signs in to the IMAP server with it, in a thread of its own, lists or   *)
(* reads, and signs out; the server may take the password or refuse it.    *)
(* Requests overlap, mail comes and goes meanwhile, and the program may    *)
(* restart, with its key from the environment or with a new one.           *)
(***************************************************************************)
EXTENDS Naturals, Sequences, SequencesExt

CONSTANTS MailUsers,     \* the mailboxes
          Blank,         \* what a form with an empty field names
          MaxRequests,   \* requests of the browser (bound)
          MaxMail,       \* mails that arrive (bound)
          Limit,         \* rows of a list
          MaxKeys        \* keys the program has had (bound)

ASSUME WebmailAssumption == Limit \in Nat \ {0} /\ Blank \notin MailUsers

VARIABLES
    cookie,    \* WEBMAIL_SESSION as the browser holds it, or NoCookie
    tabs,      \* the requests sent so far
    key,       \* the key the program encrypts sessions with
    mailbox,   \* the uids of each mailbox, oldest first
    arrived    \* mails so far

webmailVars == <<cookie, tabs, key, mailbox, arrived>>

NoCookie == [key |-> 0, user |-> Blank]
Tabs == DOMAIN tabs

\* _read_credentials: a cookie of another key opens an empty session.
ReadCredentials(c) == IF c.key = key THEN c ELSE NoCookie

NewRequest(op, user) ==
    [op |-> op, user |-> user, cookie |-> cookie, at |-> "sent",
     sets |-> NoCookie, found |-> <<>>, rows |-> <<>>]

Ends(r, how) == tabs' = [tabs EXCEPT ![r].at = how]
Answers(r, how, sets) == tabs' = [tabs EXCEPT ![r].at = how, ![r].sets = sets]

-----------------------------------------------------------------------------
(* The browser and the mailboxes.                                          *)

Click(op, user) ==
    /\ Len(tabs) < MaxRequests
    /\ tabs' = Append(tabs, NewRequest(op, user))
    /\ UNCHANGED <<cookie, key, mailbox, arrived>>

\* The answer arrives, in any order: the cookie it carries replaces the one there is.
Arrives(r) ==
    /\ tabs[r].at \in {"kept", "cleared", "accepted"}
    /\ cookie' = IF tabs[r].at = "kept" THEN cookie ELSE tabs[r].sets
    /\ Ends(r, "shown")
    /\ UNCHANGED <<key, mailbox, arrived>>

MailArrives(u) ==
    /\ arrived < MaxMail
    /\ arrived' = arrived + 1
    /\ mailbox' = [mailbox EXCEPT ![u] = Append(@, arrived')]
    /\ UNCHANGED <<cookie, tabs, key>>

Expunged(u) ==
    /\ mailbox[u] # <<>>
    /\ \E i \in DOMAIN mailbox[u] : mailbox' = [mailbox EXCEPT ![u] = RemoveAt(@, i)]
    /\ UNCHANGED <<cookie, tabs, key, arrived>>

\* _resolve_session_key: the key of the environment, or a new one; the requests
\* under way get no answer.
Restarts ==
    /\ key' \in {key, key + 1} /\ key' <= MaxKeys
    /\ tabs' = [r \in Tabs |-> IF tabs[r].at = "shown" THEN tabs[r] ELSE [tabs[r] EXCEPT !.at = "broken"]]
    /\ UNCHANGED <<cookie, mailbox, arrived>>

-----------------------------------------------------------------------------
(* The handlers, up to the thread.                                         *)

LoginBegins(r) ==
    /\ tabs[r].at = "sent" /\ tabs[r].op = "login"
    /\ Ends(r, IF tabs[r].user = Blank THEN "kept" ELSE "connecting")
    /\ UNCHANGED <<cookie, key, mailbox, arrived>>

LogoutHandled(r) ==
    /\ tabs[r].at = "sent" /\ tabs[r].op = "logout"
    /\ Answers(r, "cleared", NoCookie)
    /\ UNCHANGED <<cookie, key, mailbox, arrived>>

\* handle_inbox and handle_mail_get: without credentials the browser is sent to /login.
MailBegins(r) ==
    /\ tabs[r].at = "sent" /\ tabs[r].op \in {"list", "read"}
    /\ LET session == ReadCredentials(tabs[r].cookie) IN
         IF session = NoCookie THEN Ends(r, "kept")
         ELSE tabs' = [tabs EXCEPT ![r].at = "connecting", ![r].user = session.user]
    /\ UNCHANGED <<cookie, key, mailbox, arrived>>

-----------------------------------------------------------------------------
(* The thread (imap_service) and what the handler makes of it.             *)

\* IMAPError: the login form again, or the end of the session.
SignInFails(r) ==
    /\ tabs[r].at = "connecting"
    /\ IF tabs[r].op = "login" THEN Ends(r, "kept") ELSE Answers(r, "cleared", NoCookie)
    /\ UNCHANGED <<cookie, key, mailbox, arrived>>

ConnectAndLogin(r) ==
    /\ tabs[r].at = "connecting"
    /\ Ends(r, IF tabs[r].op = "login" THEN "leaving" ELSE "selecting")
    /\ UNCHANGED <<cookie, key, mailbox, arrived>>

\* An exception that is no IMAPError leaves the handler: 500, the session as it was.
Raises(r) ==
    /\ tabs[r].at \in {"connecting", "selecting", "fetching", "leaving"}
    /\ Ends(r, "kept")
    /\ UNCHANGED <<cookie, key, mailbox, arrived>>

\* _store_credentials: the cookie, under the key of now.
SessionOf(user) == [key |-> key, user |-> user]

\* The connection was left.
StoreCredentials(r) ==
    /\ tabs[r].at = "leaving"
    /\ Answers(r, "accepted", SessionOf(tabs[r].user))
    /\ UNCHANGED <<cookie, key, mailbox, arrived>>

\* uids[-limit:][::-1]
Latest(uids) == Reverse(SubSeq(uids, IF Len(uids) > Limit THEN Len(uids) - Limit + 1 ELSE 1, Len(uids)))

\* list_inbox: SELECT and SEARCH; either may be refused, and nothing is listed.
Search(r) ==
    /\ tabs[r].at = "selecting" /\ tabs[r].op = "list"
    /\ \/ tabs' = [tabs EXCEPT ![r].at = "fetching", ![r].found = mailbox[tabs[r].user]]
       \/ Ends(r, "kept")
    /\ UNCHANGED <<cookie, key, mailbox, arrived>>

\* _parse_header_fields: a mail that has gone gives a row without a header.
FetchHeader(r) ==
    /\ tabs[r].at = "fetching" /\ Len(tabs[r].rows) < Len(Latest(tabs[r].found))
    /\ LET uid == Latest(tabs[r].found)[Len(tabs[r].rows) + 1]
           row == [uid |-> uid, blank |-> ~Contains(mailbox[tabs[r].user], uid)]
       IN tabs' = [tabs EXCEPT ![r].rows = Append(@, row)]
    /\ UNCHANGED <<cookie, key, mailbox, arrived>>

\* Mutant of ListAnswered: the session is renewed with every page.
ListRenews(r) ==
    /\ tabs[r].at = "fetching" /\ Len(tabs[r].rows) = Len(Latest(tabs[r].found))
    /\ Answers(r, "cleared", SessionOf(tabs[r].user))
    /\ UNCHANGED <<cookie, key, mailbox, arrived>>

ListAnswered(r) ==
    /\ tabs[r].at = "fetching" /\ Len(tabs[r].rows) = Len(Latest(tabs[r].found))
    /\ Ends(r, "kept")
    /\ UNCHANGED <<cookie, key, mailbox, arrived>>

\* fetch_body: the mail, or 404 when it is not there; the session stays.
FetchBody(r) ==
    /\ tabs[r].at = "selecting" /\ tabs[r].op = "read"
    /\ Ends(r, "kept")
    /\ UNCHANGED <<cookie, key, mailbox, arrived>>

-----------------------------------------------------------------------------
WebmailInit ==
    /\ cookie = NoCookie /\ tabs = <<>> /\ key = 1 /\ arrived = 0
    /\ mailbox = [u \in MailUsers |-> <<>>]

Browser ==
    \/ \E u \in MailUsers \cup {Blank} : Click("login", u)
    \/ \E op \in {"logout", "list", "read"} : Click(op, Blank)
    \/ \E r \in Tabs : Arrives(r)

WebmailNext ==
    \/ Browser
    \/ \E u \in MailUsers : MailArrives(u) \/ Expunged(u)
    \/ Restarts
    \/ \E r \in Tabs :
         \/ LoginBegins(r) \/ LogoutHandled(r) \/ MailBegins(r)
         \/ SignInFails(r) \/ ConnectAndLogin(r) \/ Raises(r) \/ StoreCredentials(r)
         \/ Search(r) \/ FetchHeader(r) \/ ListAnswered(r) \/ FetchBody(r)

WebmailSpec == WebmailInit /\ [][WebmailNext]_webmailVars

-----------------------------------------------------------------------------
(* Properties.                                                             *)

\* Type invariant.  A request that got past the look for credentials names a mailbox.
WebmailTypeOK ==
    /\ cookie \in [key : 0..MaxKeys, user : MailUsers \cup {Blank}] /\ key \in 1..MaxKeys
    /\ \A r \in Tabs : tabs[r].at \in {"connecting", "selecting", "fetching", "leaving"} => tabs[r].user \in MailUsers
    /\ \A u \in MailUsers : ToSet(mailbox[u]) \subseteq 1..arrived

\* A browser that has been signed out - by a logout, or because the server of
\* the mail refused it - stays so until a login that the server accepted is
\* answered, whatever answers of other tabs are still to come (handle_logout,
\* handle_inbox, handle_mail_get, handle_login_post).
SignedOutStays ==
    [][cookie = NoCookie /\ cookie' # NoCookie =>
         \E r \in Tabs : /\ tabs[r].op = "login" /\ tabs[r].at = "accepted" /\ tabs'[r].at = "shown"
                         /\ cookie'.user = tabs[r].user]_webmailVars

===============================================================================
