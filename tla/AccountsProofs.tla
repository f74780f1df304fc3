----------------------------- MODULE AccountsProofs -----------------------------
(***************************************************************************)
(* Proofs about Accounts, for any number of requests, addresses, names,    *)
(* codes and restarts, and about SignIn.                                   *)
(***************************************************************************)
EXTENDS MC_Accounts, ListProofs, TLAPS

Registering == [name : Names, email : Emails, kind : {"register"}]
Simple(kind) == [email : Emails, kind : {kind}]
Showing(kind) == [email : Emails, kind : {kind}, code : Nat]
Bearing == [kind : {"logout", "delete", "other"}, bearer : Requests]

\* A statement belongs to a handler, and finds the fields of its requests.
Fits(step, a) ==
    /\ step \in {"reclaim", "lookup name", "insert user"} => a \in Registering
    /\ step = "issue" => a \in Registering \cup Simple("resend") \cup Simple("forgot")
    /\ step \in {"pending", "prior", "invalidate"} => a \in Simple("resend")
    /\ step = "account to reset" => a \in Simple("forgot")
    /\ step \in {"login", "last login"} => a \in Simple("login")
    /\ step \in {"find", "try", "consume", "account"}
          => a \in Showing("verify") \cup Showing("reset")
    /\ step = "mark" => a \in Showing("verify")
    /\ step = "set password" => a \in Showing("reset")
    /\ step \in {"session", "session row"}
          => a \in Showing("verify") \cup Simple("login")
    /\ step \in {"auth", "read", "file", "close session"} => a \in Bearing

Staged == \A r \in Requests : Fits(pc[r], req[r])

\* The account of the address that r is about is there.
HasAccount(r) == users[req[r].email] # NoUser

\* The code that r has found is one of its address and purpose.
HasCode(r) ==
    /\ found[r] \in DOMAIN codes
    /\ codes[found[r]].email = req[r].email
    /\ codes[found[r]].purpose = Purpose(r)

\* A code is compared as often as its tries say, and no more often than it may be.
Guessed ==
    \A i \in DOMAIN codes : /\ codes[i].guesses <= codes[i].tries
                            /\ codes[i].guesses <= MaxAttempts

\* What a request that goes on has seen is still there.
Backed(r) ==
    /\ pc[r] \in {"mark", "set password"} => HasAccount(r)
    /\ pc[r] = "consume" /\ req[r].kind = "reset" => HasAccount(r)
    /\ pc[r] \in {"try", "consume", "account", "set password"} => HasCode(r)
    /\ pc[r] \in {"consume", "account", "set password"}
          => codes[found[r]].passes > 0
    /\ pc[r] = "set password" => codes[found[r]].used

Proven == Guessed /\ \A r \in Requests : Backed(r)

\* A token is sent when the request that made it has ended.
Sent == \A t \in held : pc[t] = "done"

-----------------------------------------------------------------------------
\* The table of codes

\* The rows of email_verification are numbered from 1 on, and each is a code.
LEMMA Numbered ==
    ASSUME TypeOK
    PROVE  /\ codes \in Seq(Codes) /\ Len(codes) \in Nat
           /\ DOMAIN codes = 1 .. Len(codes)
           /\ \A i \in DOMAIN codes : i \in Nat /\ codes[i] \in Codes
<1>1. codes \in Seq(Codes)
  BY DEF TypeOK
<1>. QED  BY <1>1

\* find_active_otp finds an active code, if there is one.
LEMMA NewestIsActive ==
    ASSUME TypeOK, NEW e, NEW p, Active(e, p) # {}
    PROVE  Newest(e, p) \in Active(e, p)
<1>. DEFINE A == Active(e, p)
<1>1. A \subseteq 1 .. Len(codes) /\ A # {}
  BY Numbered DEF Active
<1>. HIDE DEF A
<1>2. \E i \in A : \A j \in A : j <= i
  BY <1>1, Numbered, Greatest
<1>3. (CHOOSE i \in A : \A j \in A : j <= i) \in A
  BY <1>2
<1>. QED  BY <1>1, <1>3 DEF A, Newest

\* A code keeps its address and its purpose; what was used stays used, what was
\* shown was shown.
Grown ==
    /\ codes' \in Seq(Codes)
    /\ DOMAIN codes \subseteq DOMAIN codes'
    /\ \A i \in DOMAIN codes :
          /\ codes'[i].email = codes[i].email /\ codes'[i].purpose = codes[i].purpose
          /\ codes[i].used => codes'[i].used
          /\ codes'[i].passes >= codes[i].passes

\* What leaves the codes alone keeps what is known of them.
LEMMA SameCodes == ASSUME TypeOK, UNCHANGED codes PROVE Grown /\ (Guessed => Guessed')
  BY Numbered DEF Codes, Grown, Guessed

\* insert_otp adds a code that has not been compared yet.
LEMMA CodeIssued ==
    ASSUME TypeOK, NEW e \in Emails, NEW p \in Purposes,
           codes' = Append(codes, NewCode(e, p)), Guessed
    PROVE  Grown /\ Guessed'
<1>1. NewCode(e, p) \in Codes /\ NewCode(e, p).guesses = 0 /\ NewCode(e, p).tries = 0
  BY DEF NewCode, Codes
<1>2. /\ codes' \in Seq(Codes) /\ DOMAIN codes' = 1 .. Len(codes) + 1
      /\ \A i \in 1 .. Len(codes) : codes'[i] = codes[i]
      /\ codes'[Len(codes) + 1] = NewCode(e, p)
  BY <1>1, Numbered
<1>. HIDE DEF NewCode
<1>3. Grown
  BY <1>2, Numbered DEF Codes, Grown
<1>4. ASSUME NEW i \in DOMAIN codes'
      PROVE  codes'[i].guesses <= codes'[i].tries /\ codes'[i].guesses <= MaxAttempts
  <2>1. CASE i \in 1 .. Len(codes)
    BY <1>2, <2>1, Numbered DEF Guessed
  <2>2. CASE i = Len(codes) + 1
    BY <1>1, <1>2, <2>2, BoundsAssumption
  <2>. QED  BY <1>2, <2>1, <2>2, Numbered
<1>. QED  BY <1>3, <1>4 DEF Guessed

\* One code changes, in what may change of it.
LEMMA CodeChanged ==
    ASSUME TypeOK, Guessed, NEW i \in DOMAIN codes, NEW c \in Codes,
           codes' = [codes EXCEPT ![i] = c],
           c.email = codes[i].email, c.purpose = codes[i].purpose,
           codes[i].used => c.used, c.passes >= codes[i].passes,
           c.guesses <= c.tries, c.guesses <= MaxAttempts
    PROVE  Grown /\ Guessed'
<1>1. /\ codes' \in Seq(Codes) /\ DOMAIN codes' = DOMAIN codes
      /\ codes'[i] = c
      /\ \A j \in DOMAIN codes \ {i} : codes'[j] = codes[j]
  <2>. DEFINE C == Codes
  <2>1. codes \in Seq(C) /\ c \in C /\ i \in DOMAIN codes /\ codes' = [codes EXCEPT ![i] = c]
    BY Numbered
  <2>. HIDE DEF C
  <2>2. codes' \in Seq(C)
    BY ONLY <2>1
  <2>3. DOMAIN codes' = DOMAIN codes /\ codes'[i] = c
        /\ \A j \in DOMAIN codes \ {i} : codes'[j] = codes[j]
    BY ONLY <2>1
  <2>. QED  BY <2>2, <2>3 DEF C
<1>2. Grown
  <2>1. ASSUME NEW j \in DOMAIN codes
        PROVE  /\ codes'[j].email = codes[j].email /\ codes'[j].purpose = codes[j].purpose
               /\ codes[j].used => codes'[j].used
               /\ codes'[j].passes >= codes[j].passes
    <3>1. CASE j = i
      BY <1>1, <3>1
    <3>2. CASE j # i
      <4>1. codes'[j] = codes[j] /\ codes[j] \in Codes
        BY <1>1, <3>2, Numbered
      <4>2. codes[j].passes \in Nat
        BY <4>1 DEF Codes
      <4>. QED  BY <4>1, <4>2
    <3>. QED  BY <3>1, <3>2
  <2>. QED  BY <1>1, <2>1 DEF Grown
<1>3. Guessed'
  BY <1>1 DEF Guessed
<1>. QED  BY <1>2, <1>3

\* The codes of a registration are marked as used.
LEMMA CodesConsumed ==
    ASSUME TypeOK, Guessed, NEW e, codes' = SignupConsumed(e)
    PROVE  Grown /\ Guessed'
<1>. DEFINE c(i) == [codes[i] EXCEPT !.used = TRUE]
<1>1. \A i \in DOMAIN codes :
         /\ c(i) \in Codes /\ c(i).email = codes[i].email
         /\ c(i).purpose = codes[i].purpose /\ c(i).used
         /\ c(i).passes = codes[i].passes /\ c(i).tries = codes[i].tries
         /\ c(i).guesses = codes[i].guesses
  BY Numbered DEF Codes
<1>2. /\ DOMAIN codes' = DOMAIN codes
      /\ \A i \in DOMAIN codes : codes'[i] = codes[i] \/ codes'[i] = c(i)
  BY DEF SignupConsumed
<1>. HIDE DEF c
<1>3. codes' \in Seq(Codes)
  <2>1. codes' \in [1 .. Len(codes) -> Codes]
    <3>1. \A i \in DOMAIN codes : codes'[i] \in Codes
      BY <1>1, <1>2, Numbered
    <3>. QED  BY <1>2, <3>1, Numbered DEF SignupConsumed
  <2>. QED  BY <2>1, Numbered, SeqDef
<1>4. Grown
  <2>1. \A i \in DOMAIN codes : codes[i].passes \in Nat /\ codes'[i].passes = codes[i].passes
    BY <1>1, <1>2, Numbered DEF Codes
  <2>2. \A i \in DOMAIN codes : /\ codes'[i].email = codes[i].email
                                /\ codes'[i].purpose = codes[i].purpose
                                /\ codes[i].used => codes'[i].used
    BY <1>1, <1>2
  <2>. QED  BY <1>2, <1>3, <2>1, <2>2 DEF Grown
<1>5. Guessed'
  BY <1>1, <1>2 DEF Guessed
<1>. QED  BY <1>4, <1>5

-----------------------------------------------------------------------------
\* A step of one request leaves what the others rest on

\* No account goes away.
Present ==
    /\ users' \in [Emails -> Users \cup {NoUser}]
    /\ \A e \in Emails : users[e] # NoUser => users'[e] # NoUser

\* What leaves the accounts alone removes none.
LEMMA SameUsers == ASSUME TypeOK, UNCHANGED users PROVE Present
  BY DEF TypeOK, Present

\* Nor does a row that is written anew.
LEMMA AccountWritten ==
    ASSUME TypeOK, NEW e, NEW u \in Users, users' = [users EXCEPT ![e] = u]
    PROVE  Present
  BY NullAssumption DEF TypeOK, Present, Users, Secrets

\* Nor do mark_email_verified and update_password, which change one column.
LEMMA AccountMarked ==
    ASSUME TypeOK, NEW e \in Emails, NEW r \in Requests, users[e] # NoUser,
           \/ users' = [users EXCEPT ![e].verified = TRUE]
           \/ users' = [users EXCEPT ![e].secret = r]
    PROVE  Present
<1>. DEFINE old == users[e]
            one == [old EXCEPT !.verified = TRUE]
            two == [old EXCEPT !.secret = r]
<1>1. old \in Users
  BY DEF TypeOK
<1>2. users' = [users EXCEPT ![e] = one] \/ users' = [users EXCEPT ![e] = two]
  OBVIOUS
<1>. HIDE DEF old
<1>3. one \in Users /\ two \in Users
  BY <1>1, Zenon DEF Users, Secrets
<1>. QED  BY <1>2, <1>3, AccountWritten

\* What a waiting request has seen is still there after a step of another one.
LEMMA OthersBacked ==
    ASSUME TypeOK, NEW q \in Requests, Backed(q), Fits(pc[q], req[q]),
           Grown, Present,
           pc'[q] = pc[q], req'[q] = req[q], found'[q] = found[q]
    PROVE  Backed(q)'
<1>1. ASSUME HasAccount(q), req[q].email \in Emails PROVE HasAccount(q)'
  BY <1>1 DEF HasAccount, Present
<1>2. HasCode(q) => HasCode(q)'
  BY DEF HasCode, Grown, Purpose
<1>3. ASSUME HasCode(q), codes[found[q]].passes > 0 PROVE codes'[found'[q]].passes > 0
  <2>1. codes[found[q]].passes \in Nat /\ codes'[found[q]].passes \in Nat
    <3>1. /\ codes[found[q]] \in Codes
          /\ codes' \in Seq(Codes) /\ found[q] \in DOMAIN codes'
      BY <1>3, Numbered DEF HasCode, Grown
    <3>2. codes'[found[q]] \in Codes
      BY <3>1
    <3>. QED  BY <3>1, <3>2 DEF Codes
  <2>. QED  BY <1>3, <2>1 DEF HasCode, Grown
<1>4. ASSUME HasCode(q), codes[found[q]].used PROVE codes'[found'[q]].used
  BY <1>4 DEF HasCode, Grown
<1>5. pc[q] \in {"mark", "set password", "consume"} => req[q].email \in Emails
  BY DEF Fits, Showing
<1>. QED  BY <1>1, <1>2, <1>3, <1>4, <1>5 DEF Backed

\* A request goes on to a statement that fits it and that it has grounds for.
LEMMA Moves ==
    ASSUME NEW r \in Requests, NEW to \in Steps, NEW a \in Arrivals,
           TypeOK, Staged, Proven,
           pc' = [pc EXCEPT ![r] = to],
           req' = [req EXCEPT ![r] = a],
           found' \in [Requests -> Nat],
           \A q \in Requests \ {r} : found'[q] = found[q],
           Fits(to, a), Grown, Guessed', Present, Backed(r)'
    PROVE  /\ pc' \in [Requests -> Steps]
           /\ req' \in [Requests -> Arrivals \cup {NoRequest}]
           /\ Staged' /\ Proven'
<1>1. /\ pc' \in [Requests -> Steps]
      /\ req' \in [Requests -> Arrivals \cup {NoRequest}]
      /\ pc'[r] = to /\ req'[r] = a
      /\ \A q \in Requests \ {r} : pc'[q] = pc[q] /\ req'[q] = req[q]
  BY DEF TypeOK
<1>2. \A q \in Requests : Fits(pc'[q], req'[q])
  BY <1>1 DEF Staged
<1>3. \A q \in Requests \ {r} : Backed(q)'
  BY <1>1, OthersBacked DEF Staged, Proven
<1>. QED  BY <1>1, <1>2, <1>3 DEF Staged, Fits, Proven

\* A request that is being handled is one that came.
LEMMA Came ==
    ASSUME NEW r \in Requests, TypeOK, Staged,
           pc[r] \in Steps \ {"new", "done"}
    PROVE  req[r] \in Arrivals /\ [req EXCEPT ![r] = req[r]] = req
<1>1. req[r] \in Arrivals
  BY DEF Staged, Fits, Steps, Arrivals, Registering, Simple, Showing, Bearing
<1>. QED  BY <1>1 DEF TypeOK

-----------------------------------------------------------------------------
\* The inductive invariant

IInv == TypeOK /\ Staged /\ Proven

\* A statement of r that leaves the requests alone: what has to be shown of it.
LEMMA Statement ==
    ASSUME NEW r \in Requests, NEW to \in Steps,
           IInv,
           Goto(r, pc[r], to), pc[r] \notin {"new", "done"},
           UNCHANGED req,
           found' \in [Requests -> Nat],
           \A q \in Requests \ {r} : found'[q] = found[q],
           Fits(to, req[r]), Grown, Guessed', Present, Backed(r)',
           rows' \in [Requests -> {"none", "open", "closed"}],
           store' \subseteq Requests, held' \subseteq Requests,
           UNCHANGED restarts
    PROVE  IInv'
<1>1. pc' = [pc EXCEPT ![r] = to] /\ pc[r] \in Steps \ {"new", "done"}
  BY DEF Goto, IInv, TypeOK
<1>2. req[r] \in Arrivals /\ req' = [req EXCEPT ![r] = req[r]]
  BY <1>1, Came DEF IInv
<1>3. /\ pc' \in [Requests -> Steps]
      /\ req' \in [Requests -> Arrivals \cup {NoRequest}]
      /\ Staged' /\ Proven'
  BY <1>1, <1>2, Moves DEF IInv
<1>. QED  BY <1>3 DEF IInv, TypeOK, Grown, Present

\* No request has come, and no code has been compared.
LEMMA InitIInv == Init => IInv
<1>. SUFFICES ASSUME Init PROVE IInv
  OBVIOUS
<1>2. users \in [Emails -> Users \cup {NoUser}] /\ codes \in Seq(Codes) /\ Guessed
  <2>1. CASE users = [e \in Emails |-> NoUser] /\ codes = <<>>
    BY <2>1 DEF Guessed
  <2>2. ASSUME NEW e \in Emails,
               NEW u \in [name : Names, secret : {Before}, verified : BOOLEAN],
               users = [f \in Emails |-> IF f = e THEN u ELSE NoUser],
               codes = IF u.verified THEN <<>> ELSE <<NewCode(e, "signup")>>
        PROVE  users \in [Emails -> Users \cup {NoUser}] /\ codes \in Seq(Codes) /\ Guessed
    <3>1. u \in Users
      BY DEF Users, Secrets
    <3>2. NewCode(e, "signup") \in Codes /\ NewCode(e, "signup").guesses = 0
          /\ NewCode(e, "signup").tries = 0
      BY DEF NewCode, Codes, Purposes
    <3>. HIDE DEF NewCode
    <3>3. codes = <<>> \/ codes = <<NewCode(e, "signup")>>
      BY <2>2
    <3>. QED  BY <2>2, <3>1, <3>2, <3>3, BoundsAssumption DEF Guessed
  <2>. QED  BY <2>1, <2>2 DEF Init
<1>3. TypeOK
  BY <1>2 DEF Init, TypeOK, Steps
<1>4. Staged /\ \A r \in Requests : Backed(r)
  BY DEF Init, Staged, Fits, Backed
<1>. QED  BY <1>2, <1>3, <1>4 DEF IInv, Proven

\* A request that arrives begins with a statement of its handler.
LEMMA ReceiveStep ==
    ASSUME NEW r \in Requests, IInv, Receive(r)
    PROVE  IInv'
<1>. DEFINE Comes(a, first) ==
       /\ a \in Arrivals /\ first \in Steps /\ Fits(first, a)
       /\ first \notin {"mark", "set password", "consume", "try", "account"}
       /\ Goto(r, "new", first) /\ req' = [req EXCEPT ![r] = a]
       /\ UNCHANGED <<users, codes, rows, store, held, found, restarts>>
<1>. USE DEF IInv
<1>. SUFFICES \E a, first : Comes(a, first)
  <2>1. PICK a, first : Comes(a, first)
    OBVIOUS
  <2>2. pc' = [pc EXCEPT ![r] = first] /\ pc'[r] = first
    BY <2>1 DEF Goto, TypeOK
  <2>3. Backed(r)' /\ found' \in [Requests -> Nat]
    BY <2>1, <2>2 DEF Backed, TypeOK
  <2>4. Grown /\ Guessed' /\ Present
    BY <2>1, SameCodes, SameUsers DEF Proven
  <2>5. /\ pc' \in [Requests -> Steps]
        /\ req' \in [Requests -> Arrivals \cup {NoRequest}]
        /\ Staged' /\ Proven'
    BY <2>1, <2>2, <2>3, <2>4, Moves
  <2>. QED  BY <2>1, <2>5 DEF TypeOK
<1>. USE DEF Fits, Steps, Arrivals
<1>1. CASE RecvRegister(r)
  <2>1. PICK e \in Emails, n \in Names :
            Arrive(r, [name |-> n, email |-> e, kind |-> "register"])
    BY <1>1 DEF RecvRegister
  <2>. DEFINE a == [name |-> n, email |-> e, kind |-> "register"]
  <2>2. a \in Registering /\ a.kind = "register"
    BY DEF Registering
  <2>. HIDE DEF a
  <2>3. First("register") = "reclaim"
    BY DEF First
  <2>4. Comes(a, "reclaim")
    BY <2>1, <2>2, <2>3 DEF Arrive, Registering, a
  <2>. QED  BY <2>4
<1>2. ASSUME NEW e \in Emails, NEW kind \in {"resend", "forgot", "login"},
             Arrive(r, [email |-> e, kind |-> kind])
      PROVE  \E a, first : Comes(a, first)
  <2>. DEFINE a == [email |-> e, kind |-> kind]
  <2>1. a \in Simple(kind) /\ a.kind = kind
    BY DEF Simple
  <2>. HIDE DEF a
  <2>2. Arrive(r, a)
    BY <1>2 DEF a
  <2>3. CASE kind = "resend"
    <3>1. First("resend") = "pending"
      BY DEF First
    <3>2. Comes(a, "pending")
      BY <2>1, <2>2, <2>3, <3>1 DEF Arrive, Simple
    <3>. QED  BY <3>2
  <2>4. CASE kind = "forgot"
    <3>1. First("forgot") = "account to reset"
      BY DEF First
    <3>2. Comes(a, "account to reset")
      BY <2>1, <2>2, <2>4, <3>1 DEF Arrive, Simple
    <3>. QED  BY <3>2
  <2>5. CASE kind = "login"
    <3>1. First("login") = "login"
      BY DEF First
    <3>2. Comes(a, "login")
      BY <2>1, <2>2, <2>5, <3>1 DEF Arrive, Simple
    <3>. QED  BY <3>2
  <2>. QED  BY <2>3, <2>4, <2>5
<1>3. ASSUME NEW e \in Emails, NEW i \in Nat, NEW kind \in {"verify", "reset"},
             Arrive(r, [email |-> e, kind |-> kind, code |-> i])
      PROVE  \E a, first : Comes(a, first)
  <2>. DEFINE a == [email |-> e, kind |-> kind, code |-> i]
  <2>1. a \in Showing(kind) /\ a.kind = kind
    BY DEF Showing
  <2>. HIDE DEF a
  <2>2. Arrive(r, a) /\ First(kind) = "find"
    BY <1>3 DEF a, First
  <2>3. Comes(a, "find")
    BY <2>1, <2>2 DEF Arrive, Showing
  <2>. QED  BY <2>3
<1>4. ASSUME NEW t \in Requests, NEW kind \in {"logout", "delete", "other"},
             Arrive(r, [kind |-> kind, bearer |-> t])
      PROVE  \E a, first : Comes(a, first)
  <2>. DEFINE a == [kind |-> kind, bearer |-> t]
  <2>1. a \in Bearing /\ a.kind = kind
    BY DEF Bearing
  <2>. HIDE DEF a
  <2>2. Arrive(r, a) /\ First(kind) = "auth"
    BY <1>4 DEF a, First
  <2>3. Comes(a, "auth")
    BY <2>1, <2>2 DEF Arrive, Bearing
  <2>. QED  BY <2>3
<1>5. held \subseteq Requests
  BY DEF TypeOK
<1>6. \A i \in 0 .. Len(codes) : i \in Nat
  OBVIOUS
<1>. QED
  BY <1>1, <1>2, <1>3, <1>4, <1>5, <1>6 DEF Receive, RecvResend, RecvForgot, RecvLogin,
     RecvVerify, RecvReset, RecvLogout, RecvDelete, RecvOther

\* A statement that is followed by one that rests on nothing.
LEMMA Plain ==
    ASSUME NEW r \in Requests,
           NEW to \in Steps \ {"mark", "set password", "consume", "try", "account"},
           IInv,
           Goto(r, pc[r], to), pc[r] \notin {"new", "done"}, Fits(to, req[r]),
           UNCHANGED <<req, found, restarts>>,
           Grown, Guessed', Present,
           rows' \in [Requests -> {"none", "open", "closed"}],
           store' \subseteq Requests, held' \subseteq Requests
    PROVE  IInv'
<1>1. pc'[r] = to
  BY DEF Goto, IInv, TypeOK
<1>2. Backed(r)'
  BY <1>1 DEF Backed
<1>. QED  BY <1>2, Statement DEF IInv, TypeOK

\* The statements of a registration.
LEMMA SignupStep ==
    ASSUME NEW r \in Requests, IInv, Signup(r)
    PROVE  IInv'
<1>. USE DEF IInv
<1>0. /\ rows \in [Requests -> {"none", "open", "closed"}]
      /\ store \subseteq Requests /\ held \subseteq Requests /\ Guessed
  BY DEF TypeOK, Proven
<1>1. ASSUME req[r] \in Registering
      PROVE  req[r].email \in Emails /\ Registered(r) \in Users
  BY <1>1 DEF Registering, Registered, Users, Secrets
<1>2. CASE Reclaim(r)
  <2>1. pc[r] = "reclaim" /\ req[r] \in Registering
    BY <1>2 DEF Reclaim, Goto, Staged, Fits
  <2>2. PICK to \in {"issue", "lookup name", "done"} : Goto(r, pc[r], to)
    BY <1>2, <2>1 DEF Reclaim, Goto
  <2>3. Fits(to, req[r]) /\ to \in Steps
    BY <2>1 DEF Fits, Steps
  <2>4. Grown /\ Guessed'
    <3>1. codes' = codes \/ codes' = SignupConsumed(req[r].email)
      BY <1>2 DEF Reclaim
    <3>. QED  BY <1>0, <3>1, SameCodes, CodesConsumed
  <2>5. Present
    <3>1. users' = users \/ users' = [users EXCEPT ![req[r].email] = Registered(r)]
      BY <1>2 DEF Reclaim
    <3>. QED  BY <1>1, <2>1, <3>1, SameUsers, AccountWritten
  <2>6. UNCHANGED <<rows, store, held, req, found, restarts>>
    BY <1>2 DEF Reclaim
  <2>. QED  BY <1>0, <2>1, <2>2, <2>3, <2>4, <2>5, <2>6, Plain
<1>3. CASE LookupName(r)
  <2>1. pc[r] = "lookup name" /\ req[r] \in Registering
    BY <1>3 DEF LookupName, Goto, Staged, Fits
  <2>2. PICK to \in {"insert user", "done"} : Goto(r, pc[r], to)
    BY <1>3, <2>1 DEF LookupName, Goto
  <2>3. Fits(to, req[r]) /\ to \in Steps
    BY <2>1 DEF Fits, Steps
  <2>4. UNCHANGED <<users, codes, rows, store, held, req, found, restarts>>
    BY <1>3 DEF LookupName
  <2>5. Grown /\ Guessed' /\ Present
    BY <1>0, <2>4, SameCodes, SameUsers
  <2>. QED  BY <1>0, <2>1, <2>2, <2>3, <2>4, <2>5, Plain
<1>4. CASE InsertUser(r)
  <2>1. pc[r] = "insert user" /\ req[r] \in Registering
    BY <1>4 DEF InsertUser, Goto, Staged, Fits
  <2>2. PICK to \in {"issue", "done"} : Goto(r, pc[r], to)
    BY <1>4, <2>1 DEF InsertUser, Goto
  <2>3. Fits(to, req[r]) /\ to \in Steps
    BY <2>1 DEF Fits, Steps
  <2>4. UNCHANGED <<codes, rows, store, held, req, found, restarts>>
    BY <1>4 DEF InsertUser
  <2>5. Grown /\ Guessed'
    BY <1>0, <2>4, SameCodes
  <2>6. Present
    <3>1. users' = users \/ users' = [users EXCEPT ![req[r].email] = Registered(r)]
      BY <1>4 DEF InsertUser
    <3>. QED  BY <1>1, <2>1, <3>1, SameUsers, AccountWritten
  <2>. QED  BY <1>0, <2>1, <2>2, <2>3, <2>4, <2>5, <2>6, Plain
<1>5. CASE IssueCode(r)
  <2>1. /\ pc[r] = "issue"
        /\ req[r] \in Registering \cup Simple("resend") \cup Simple("forgot")
        /\ Goto(r, pc[r], "done")
    BY <1>5 DEF IssueCode, Goto, Staged, Fits
  <2>2. req[r].email \in Emails /\ Purpose(r) \in Purposes
    BY <2>1 DEF Registering, Simple, Purpose, Purposes
  <2>3. codes' = Append(codes, NewCode(req[r].email, Purpose(r)))
        /\ UNCHANGED <<users, rows, store, held, req, found, restarts>>
    BY <1>5 DEF IssueCode
  <2>4. Grown /\ Guessed' /\ Present
    BY <1>0, <2>2, <2>3, CodeIssued, SameUsers
  <2>5. Fits("done", req[r]) /\ "done" \in Steps
    BY DEF Fits, Steps
  <2>. QED  BY <1>0, <2>1, <2>3, <2>4, <2>5, Plain
<1>. QED  BY <1>2, <1>3, <1>4, <1>5 DEF Signup

\* The statements of a resend and of a forgotten password.
LEMMA ResendStep ==
    ASSUME NEW r \in Requests, IInv, Resend(r)
    PROVE  IInv'
<1>. USE DEF IInv
<1>0. /\ rows \in [Requests -> {"none", "open", "closed"}]
      /\ store \subseteq Requests /\ held \subseteq Requests /\ Guessed
  BY DEF TypeOK, Proven
<1>1. PICK to \in {"prior", "invalidate", "issue", "done"} :
         Goto(r, pc[r], to) /\ Fits(to, req[r])
  <2>1. Fits("done", req[r])
    BY DEF Fits
  <2>2. CASE LookupPending(r) \/ Cooldown(r) \/ Invalidate(r)
    <3>1. req[r] \in Simple("resend")
      BY <2>2 DEF LookupPending, Cooldown, Invalidate, Goto, Staged, Fits
    <3>2. Fits("prior", req[r]) /\ Fits("invalidate", req[r]) /\ Fits("issue", req[r])
      BY <3>1 DEF Fits
    <3>. QED  BY <2>1, <2>2, <3>2 DEF LookupPending, Cooldown, Invalidate, Goto
  <2>3. CASE LookupForgetful(r)
    <3>1. req[r] \in Simple("forgot")
      BY <2>3 DEF LookupForgetful, Goto, Staged, Fits
    <3>2. Fits("issue", req[r])
      BY <3>1 DEF Fits
    <3>. QED  BY <2>1, <2>3, <3>2 DEF LookupForgetful, Goto
  <2>. QED  BY <2>2, <2>3 DEF Resend
<1>2. /\ codes' = codes \/ codes' = SignupConsumed(req[r].email)
      /\ UNCHANGED <<users, rows, store, held, req, found, restarts>>
      /\ pc[r] \notin {"new", "done"}
  BY DEF Resend, LookupPending, Cooldown, Invalidate, LookupForgetful, Goto
<1>3. Grown /\ Guessed' /\ Present
  BY <1>0, <1>2, SameCodes, CodesConsumed, SameUsers
<1>4. to \in Steps
  BY DEF Steps
<1>. QED  BY <1>0, <1>1, <1>2, <1>3, <1>4, Plain

\* A code with other counts.
WithCounts(old, n, k, m) == [old EXCEPT !.tries = n, !.guesses = k, !.passes = m]

\* Trying a code counts the try, and a comparison only if it may be made.
LEMMA TryCodeStep ==
    ASSUME NEW r \in Requests, IInv, TryCode(r)
    PROVE  IInv'
<1>. USE DEF IInv
<1>0. /\ rows \in [Requests -> {"none", "open", "closed"}]
      /\ store \subseteq Requests /\ held \subseteq Requests /\ Guessed
  BY DEF TypeOK, Proven
<1>1. /\ pc[r] = "try" /\ req[r] \in Showing("verify") \cup Showing("reset")
      /\ HasCode(r)
      /\ UNCHANGED <<users, rows, store, held, req, found, restarts>>
  BY DEF TryCode, Goto, Staged, Fits, Proven, Backed
<1>. DEFINE i == found[r]
            compared == codes[i].tries + 1 <= MaxAttempts
            right == compared /\ req[r].code = i
            g == IF compared THEN codes[i].guesses + 1 ELSE codes[i].guesses
            p == IF right THEN codes[i].passes + 1 ELSE codes[i].passes
            t == codes[i].tries + 1
            c == WithCounts(codes[i], t, g, p)
<1>2. /\ i \in DOMAIN codes /\ codes[i] \in Codes
      /\ codes[i].tries \in Nat /\ codes[i].guesses \in Nat /\ codes[i].passes \in Nat
      /\ codes[i].guesses <= codes[i].tries /\ codes[i].guesses <= MaxAttempts
  BY <1>0, <1>1, Numbered DEF HasCode, Codes, Guessed
<1>3. /\ g \in Nat /\ p \in Nat /\ p >= codes[i].passes
      /\ right => p > 0
      /\ g <= codes[i].tries + 1 /\ g <= MaxAttempts
  BY <1>2, BoundsAssumption
<1>4. codes' = [codes EXCEPT ![i] = c]
  BY DEF TryCode, WithCounts
<1>5. Goto(r, pc[r], IF ~right THEN "done"
                     ELSE IF req[r].kind = "verify" THEN "consume" ELSE "account")
  BY DEF TryCode, Goto
<1>. HIDE DEF g, p, right, compared
<1>6. /\ c \in Codes
      /\ c.email = codes[i].email /\ c.purpose = codes[i].purpose
      /\ c.used = codes[i].used
      /\ c.tries = codes[i].tries + 1 /\ c.guesses = g /\ c.passes = p
  <2>. DEFINE d == codes[i]
  <2>1. d \in Codes /\ t \in Nat /\ g \in Nat /\ p \in Nat /\ c = WithCounts(d, t, g, p)
    BY <1>2, <1>3
  <2>. HIDE DEF c, t, d
  <2>2. /\ c \in Codes
        /\ c.email = d.email /\ c.purpose = d.purpose /\ c.used = d.used
        /\ c.tries = t /\ c.guesses = g /\ c.passes = p
    BY <2>1, Zenon DEF WithCounts, Codes
  <2>. QED  BY <2>2 DEF d, t
<1>. HIDE DEF c
<1>7. Grown /\ Guessed'
  <2>1. /\ codes[i].used => c.used
        /\ c.passes >= codes[i].passes
        /\ c.guesses <= c.tries /\ c.guesses <= MaxAttempts
    BY <1>2, <1>3, <1>6
  <2>. HIDE DEF i
  <2>. QED  BY <1>0, <1>2, <1>4, <1>6, <2>1, CodeChanged
<1>8. Present
  BY <1>1, SameUsers
<1>9. CASE ~right
  <2>1. Fits("done", req[r]) /\ "done" \in Steps
    BY DEF Fits, Steps
  <2>. QED  BY <1>0, <1>1, <1>5, <1>7, <1>8, <1>9, <2>1, Plain
<1>10. CASE right
  <2>1. PICK to \in {"consume", "account"} :
           Goto(r, pc[r], to) /\ (req[r].kind = "reset" => to = "account")
    BY <1>5, <1>10
  <2>2. Fits(to, req[r]) /\ to \in Steps
    BY <1>1 DEF Fits, Steps
  <2>3. pc'[r] = to
    BY <2>1 DEF Goto, TypeOK
  <2>4. HasCode(r)' /\ codes'[found'[r]].passes > 0
    <3>1. codes'[i] = c
      BY <1>2, <1>4
    <3>2. HasCode(r)'
      BY <1>1, <1>2, <1>6, <1>7, <3>1 DEF HasCode, Purpose, Grown
    <3>3. c.passes > 0
      BY <1>3, <1>6, <1>10
    <3>. QED  BY <1>1, <3>1, <3>2, <3>3
  <2>5. Backed(r)'
    BY <1>1, <2>1, <2>3, <2>4 DEF Backed
  <2>. QED  BY <1>0, <1>1, <1>7, <1>8, <2>1, <2>2, <2>5, Statement DEF TypeOK
<1>. QED  BY <1>9, <1>10

\* The statements of a verification and of a reset: each has what it rests on.
LEMMA UseCodeStep ==
    ASSUME NEW r \in Requests, IInv, UseCode(r)
    PROVE  IInv'
<1>. USE DEF IInv
<1>0. /\ rows \in [Requests -> {"none", "open", "closed"}]
      /\ store \subseteq Requests /\ held \subseteq Requests /\ Guessed
      /\ found \in [Requests -> Nat] /\ pc \in [Requests -> Steps]
  BY DEF TypeOK, Proven
<1>. DEFINE Shows == Showing("verify") \cup Showing("reset")
<1>1. CASE FindCode(r)
  <2>. DEFINE i == Newest(req[r].email, Purpose(r))
  <2>1. /\ pc[r] = "find" /\ req[r] \in Shows
        /\ UNCHANGED <<users, codes, rows, store, held, req, restarts>>
        /\ found' = [found EXCEPT ![r] = i]
        /\ Goto(r, pc[r], IF i = 0 THEN "done" ELSE "try")
    BY <1>1 DEF FindCode, Goto, Staged, Fits
  <2>2. i = 0 \/ i \in Active(req[r].email, Purpose(r))
    BY NewestIsActive DEF Newest
  <2>3. i # 0 => /\ i \in DOMAIN codes /\ codes[i].email = req[r].email
                 /\ codes[i].purpose = Purpose(r)
    BY <2>2 DEF Active
  <2>4. i \in Nat
    BY <2>3, Numbered
  <2>. HIDE DEF i
  <2>5. /\ found' \in [Requests -> Nat] /\ found'[r] = i
        /\ \A q \in Requests \ {r} : found'[q] = found[q]
    BY <1>0, <2>1, <2>4
  <2>6. Grown /\ Guessed' /\ Present
    BY <1>0, <2>1, SameCodes, SameUsers
  <2>7. PICK to \in {"done", "try"} : Goto(r, pc[r], to) /\ (to = "try" => i # 0)
    BY <2>1
  <2>8. Fits(to, req[r]) /\ to \in Steps
    BY <2>1 DEF Fits, Steps
  <2>9. to = "try" => HasCode(r)'
    BY <2>1, <2>3, <2>5, <2>7 DEF HasCode, Purpose
  <2>10. Backed(r)'
    <3>1. pc'[r] = to
      BY <1>0, <2>7 DEF Goto
    <3>. QED  BY <2>9, <3>1 DEF Backed
  <2>. QED  BY <1>0, <2>1, <2>5, <2>6, <2>7, <2>8, <2>10, Statement
<1>2. CASE ConsumeCode(r)
  <2>1. /\ pc[r] = "consume" /\ req[r] \in Shows /\ HasCode(r)
        /\ codes[found[r]].passes > 0
        /\ req[r].kind = "reset" => HasAccount(r)
        /\ UNCHANGED <<users, rows, store, held, req, found, restarts>>
        /\ Goto(r, pc[r], IF req[r].kind = "verify" THEN "account"
                                                    ELSE "set password")
        /\ codes' = [codes EXCEPT ![found[r]].used = TRUE]
    BY <1>2 DEF ConsumeCode, Goto, Staged, Fits, Proven, Backed
  <2>. DEFINE i == found[r]
              c == [codes[i] EXCEPT !.used = TRUE]
  <2>2. i \in DOMAIN codes /\ codes[i] \in Codes
    BY <2>1, Numbered DEF HasCode
  <2>3. /\ c \in Codes /\ c.email = codes[i].email /\ c.purpose = codes[i].purpose
        /\ c.used /\ c.passes = codes[i].passes /\ c.tries = codes[i].tries
        /\ c.guesses = codes[i].guesses
    BY <2>2 DEF Codes
  <2>4. codes' = [codes EXCEPT ![i] = c]
    BY <2>1
  <2>. HIDE DEF c
  <2>5. /\ codes[i].guesses <= codes[i].tries /\ codes[i].guesses <= MaxAttempts
        /\ codes[i].passes \in Nat
    BY <1>0, <2>2 DEF Guessed, Codes
  <2>6. Grown /\ Guessed'
    <3>1. /\ codes[i].used => c.used
          /\ c.passes >= codes[i].passes
          /\ c.guesses <= c.tries /\ c.guesses <= MaxAttempts
      BY <2>3, <2>5
    <3>. HIDE DEF i
    <3>. QED  BY <1>0, <2>2, <2>3, <2>4, <3>1, CodeChanged
  <2>7. Present
    BY <2>1, SameUsers
  <2>8. PICK to \in {"account", "set password"} :
           Goto(r, pc[r], to) /\ (to = "set password" => req[r].kind # "verify")
    BY <2>1
  <2>9. to = "set password" => req[r] \in Showing("reset") /\ req[r].kind = "reset"
    BY <2>1, <2>8 DEF Showing
  <2>10. Fits(to, req[r]) /\ to \in Steps
    BY <2>1, <2>9 DEF Fits, Steps
  <2>11. /\ HasCode(r)' /\ codes'[found'[r]].passes > 0 /\ codes'[found'[r]].used
         /\ to = "set password" => HasAccount(r)'
    <3>1. codes'[i] = c
      BY <2>2, <2>4
    <3>. QED  BY <2>1, <2>2, <2>3, <2>6, <2>9, <3>1 DEF HasCode, Purpose, Grown, HasAccount
  <2>12. Backed(r)'
    <3>1. pc'[r] = to
      BY <1>0, <2>8 DEF Goto
    <3>. QED  BY <2>11, <3>1 DEF Backed
  <2>. QED  BY <1>0, <2>1, <2>6, <2>7, <2>8, <2>10, <2>12, Statement
<1>3. CASE TryCode(r)
  BY <1>3, TryCodeStep
<1>4. CASE VerifiedAccount(r)
  <2>1. /\ pc[r] = "account" /\ req[r] \in Shows /\ req[r].kind = "verify"
        /\ UNCHANGED <<users, codes, rows, store, held, req, found, restarts>>
        /\ Goto(r, pc[r], IF users[req[r].email] = NoUser THEN "done" ELSE "mark")
    BY <1>4 DEF VerifiedAccount, Goto, Staged, Fits
  <2>2. req[r] \in Showing("verify")
    BY <2>1 DEF Showing
  <2>3. PICK to \in {"done", "mark"} : Goto(r, pc[r], to) /\ (to = "mark" => HasAccount(r))
    BY <2>1 DEF HasAccount
  <2>4. Fits(to, req[r]) /\ to \in Steps
    BY <2>2 DEF Fits, Steps
  <2>5. Grown /\ Guessed' /\ Present
    BY <1>0, <2>1, SameCodes, SameUsers
  <2>6. Backed(r)'
    <3>1. pc'[r] = to
      BY <1>0, <2>3 DEF Goto
    <3>. QED  BY <2>1, <2>3, <3>1 DEF Backed, HasAccount
  <2>. QED  BY <1>0, <2>1, <2>3, <2>4, <2>5, <2>6, Statement
<1>5. CASE ResetAccount(r)
  <2>1. /\ pc[r] = "account" /\ req[r] \in Shows /\ req[r].kind = "reset"
        /\ HasCode(r) /\ codes[found[r]].passes > 0
        /\ UNCHANGED <<users, codes, rows, store, held, req, found, restarts>>
        /\ Goto(r, pc[r], IF users[req[r].email] = NoUser THEN "done" ELSE "consume")
    BY <1>5 DEF ResetAccount, Goto, Staged, Fits, Proven, Backed
  <2>2. PICK to \in {"done", "consume"} :
           Goto(r, pc[r], to) /\ (to = "consume" => HasAccount(r))
    BY <2>1 DEF HasAccount
  <2>3. Fits(to, req[r]) /\ to \in Steps
    BY <2>1 DEF Fits, Steps
  <2>4. Grown /\ Guessed' /\ Present
    BY <1>0, <2>1, SameCodes, SameUsers
  <2>5. Backed(r)'
    <3>1. pc'[r] = to
      BY <1>0, <2>2 DEF Goto
    <3>2. HasCode(r)' /\ codes'[found'[r]].passes > 0 /\ (to = "consume" => HasAccount(r)')
      BY <2>1, <2>2 DEF HasCode, HasAccount, Purpose
    <3>. QED  BY <3>1, <3>2 DEF Backed
  <2>. QED  BY <1>0, <2>1, <2>2, <2>3, <2>4, <2>5, Statement
<1>6. CASE MarkVerified(r)
  <2>1. /\ pc[r] = "mark" /\ req[r] \in Showing("verify") /\ HasAccount(r)
        /\ UNCHANGED <<codes, rows, store, held, req, found, restarts>>
        /\ Goto(r, pc[r], "session")
        /\ users' = [users EXCEPT ![req[r].email].verified = TRUE]
    BY <1>6 DEF MarkVerified, Goto, Staged, Fits, Proven, Backed
  <2>2. Grown /\ Guessed' /\ Fits("session", req[r]) /\ "session" \in Steps
    BY <1>0, <2>1, SameCodes DEF Fits, Steps
  <2>3. Present
    BY <2>1, AccountMarked DEF HasAccount, Showing
  <2>. QED  BY <1>0, <2>1, <2>2, <2>3, Plain
<1>7. CASE SetPassword(r)
  <2>1. /\ pc[r] = "set password" /\ req[r] \in Showing("reset") /\ HasAccount(r)
        /\ UNCHANGED <<codes, rows, store, held, req, found, restarts>>
        /\ Goto(r, pc[r], "done")
        /\ users' = [users EXCEPT ![req[r].email].secret = r]
    BY <1>7 DEF SetPassword, Goto, Staged, Fits, Proven, Backed
  <2>2. Grown /\ Guessed' /\ Fits("done", req[r]) /\ "done" \in Steps
    BY <1>0, <2>1, SameCodes DEF Fits, Steps
  <2>3. Present
    BY <2>1, AccountMarked DEF HasAccount, Showing
  <2>. QED  BY <1>0, <2>1, <2>2, <2>3, Plain
<1>. QED  BY <1>1, <1>2, <1>3, <1>4, <1>5, <1>6, <1>7 DEF UseCode

\* The sessions: what they change is theirs.
LEMMA SessionStep ==
    ASSUME NEW r \in Requests, IInv, Session(r)
    PROVE  IInv'
<1>. USE DEF IInv
<1>0. /\ rows \in [Requests -> {"none", "open", "closed"}]
      /\ store \subseteq Requests /\ held \subseteq Requests /\ Guessed
  BY DEF TypeOK, Proven
<1>1. UNCHANGED <<users, codes, req, found, restarts>>
  BY DEF Session, Login, LastLogin, OpenSession, InsertSession, Authenticate,
     ReadSession, Rehydrate, CloseSession
<1>2. Grown /\ Guessed' /\ Present
  BY <1>0, <1>1, SameCodes, SameUsers
<1>3. CASE Login(r) \/ LastLogin(r)
  <2>1. PICK to \in {"last login", "session", "done"} : Goto(r, pc[r], to)
    BY <1>3 DEF Login, LastLogin, Goto
  <2>2. req[r] \in Simple("login") /\ pc[r] \notin {"new", "done"}
    BY <1>3 DEF Login, LastLogin, Goto, Staged, Fits
  <2>3. UNCHANGED <<rows, store, held>>
    BY <1>3 DEF Login, LastLogin
  <2>4. Fits(to, req[r]) /\ to \in Steps
    BY <2>2 DEF Fits, Steps
  <2>. QED  BY <1>0, <1>1, <1>2, <2>1, <2>2, <2>3, <2>4, Plain
<1>4. CASE OpenSession(r) \/ InsertSession(r)
  <2>1. PICK to \in {"session row", "done"} : Goto(r, pc[r], to)
    BY <1>4 DEF OpenSession, InsertSession, Goto
  <2>2. req[r] \in Showing("verify") \cup Simple("login") /\ pc[r] \notin {"new", "done"}
    BY <1>4 DEF OpenSession, InsertSession, Goto, Staged, Fits
  <2>3. /\ rows' \in [Requests -> {"none", "open", "closed"}]
        /\ store' \subseteq Requests /\ held' \subseteq Requests
    BY <1>0, <1>4 DEF OpenSession, InsertSession
  <2>4. Fits(to, req[r]) /\ to \in Steps
    BY <2>2 DEF Fits, Steps
  <2>. QED  BY <1>1, <1>2, <2>1, <2>2, <2>3, <2>4, Plain
<1>5. CASE Authenticate(r) \/ ReadSession(r) \/ Rehydrate(r) \/ CloseSession(r)
  <2>1. PICK to \in {"read", "file", "close session", "done"} : Goto(r, pc[r], to)
    BY <1>5 DEF Authenticate, ReadSession, Rehydrate, CloseSession, Handled, Goto
  <2>2. req[r] \in Bearing /\ pc[r] \notin {"new", "done"}
    BY <1>5 DEF Authenticate, ReadSession, Rehydrate, CloseSession, Goto, Staged, Fits
  <2>3. req[r].bearer \in Requests
    BY <2>2 DEF Bearing
  <2>4. rows' \in [Requests -> {"none", "open", "closed"}]
    BY <1>0, <1>5, <2>3 DEF Authenticate, ReadSession, Rehydrate, CloseSession
  <2>5. store' \subseteq Requests /\ held' \subseteq Requests
    BY <1>0, <1>5, <2>3 DEF Authenticate, ReadSession, Rehydrate, CloseSession, Kept
  <2>6. Fits(to, req[r]) /\ to \in Steps
    BY <2>2 DEF Fits, Steps
  <2>. QED  BY <1>1, <1>2, <2>1, <2>2, <2>4, <2>5, <2>6, Plain
<1>. QED  BY <1>3, <1>4, <1>5 DEF Session

\* A request that fails has nothing more to rest on.
LEMMA FailStep ==
    ASSUME NEW r \in Requests, IInv, Fail(r)
    PROVE  IInv'
<1>. USE DEF IInv
<1>1. /\ Goto(r, pc[r], "done") /\ pc[r] \notin {"new", "done"}
      /\ UNCHANGED <<users, codes, rows, store, held, req, found, restarts>>
  BY DEF Fail
<1>2. Grown /\ Guessed' /\ Present
  BY <1>1, SameCodes, SameUsers DEF Proven
<1>3. Fits("done", req[r]) /\ "done" \in Steps
  BY DEF Fits, Steps
<1>. QED  BY <1>1, <1>2, <1>3, Plain DEF TypeOK

\* Time passes for one code, and nobody moves.
LEMMA ExpireStep ==
    ASSUME IInv, NEW i \in DOMAIN codes, Expire(i)
    PROVE  IInv'
<1>. USE DEF IInv
<1>1. UNCHANGED <<users, rows, store, held, req, pc, found, restarts>>
  BY DEF Expire
<1>. DEFINE old == codes[i]
            c == [old EXCEPT !.expired = TRUE]
<1>2. old \in Codes /\ codes' = [codes EXCEPT ![i] = c]
  BY Numbered DEF Expire
<1>3. old.guesses <= old.tries /\ old.guesses <= MaxAttempts /\ old.passes \in Nat
  BY <1>2 DEF Proven, Guessed, Codes
<1>. HIDE DEF old
<1>4. /\ c \in Codes /\ c.email = old.email /\ c.purpose = old.purpose
      /\ c.used = old.used /\ c.passes = old.passes /\ c.tries = old.tries
      /\ c.guesses = old.guesses
  BY <1>2, Zenon DEF Codes
<1>. HIDE DEF c
<1>5. Grown /\ Guessed'
  <2>1. /\ old.used => c.used
        /\ c.passes >= old.passes /\ c.guesses <= c.tries /\ c.guesses <= MaxAttempts
    BY <1>3, <1>4
  <2>. QED  BY <1>2, <1>4, <2>1, CodeChanged DEF Proven, old
<1>6. Present
  BY <1>1, SameUsers
<1>7. ASSUME NEW r \in Requests PROVE Backed(r)'
  <2>1. Backed(r) /\ Fits(pc[r], req[r])
    BY DEF Staged, Proven
  <2>. QED  BY <1>1, <1>5, <1>6, <2>1, OthersBacked
<1>8. Staged'
  BY <1>1 DEF Staged, Fits
<1>. QED  BY <1>1, <1>5, <1>6, <1>7, <1>8 DEF TypeOK, Proven, Grown, Present

\* A restart leaves no request that rests on anything.
LEMMA RestartStep == IInv /\ Restart => IInv'
<1>. SUFFICES ASSUME IInv, Restart PROVE IInv'
  OBVIOUS
<1>. USE DEF IInv
<1>1. /\ UNCHANGED <<users, codes, rows, held, req, found>>
      /\ restarts' = restarts + 1 /\ store' = {}
      /\ pc' \in [Requests -> {"new", "done"}]
  BY DEF Restart
<1>2. Staged' /\ \A r \in Requests : Backed(r)'
  BY <1>1 DEF Staged, Fits, Backed
<1>3. Guessed'
  BY <1>1, SameCodes DEF Proven
<1>4. pc' \in [Requests -> Steps]
  BY <1>1 DEF Steps
<1>5. TypeOK'
  BY <1>1, <1>4 DEF TypeOK
<1>. QED  BY <1>2, <1>3, <1>5 DEF Proven

\* Every step keeps the inductive invariant.
LEMMA NextIInv == IInv /\ [Next]_vars => IInv'
<1>. SUFFICES ASSUME IInv, [Next]_vars PROVE IInv'
  OBVIOUS
<1>1. CASE UNCHANGED vars
  BY <1>1 DEF IInv, vars, TypeOK, Staged, Fits, Proven, Guessed, Backed, HasAccount,
     HasCode, Purpose
<1>2. CASE Next
  BY <1>2, ReceiveStep, SignupStep, ResendStep, UseCodeStep, SessionStep, FailStep,
     ExpireStep, RestartStep DEF Next
<1>. QED  BY <1>1, <1>2

\* It holds throughout.
LEMMA Invariant == Spec => []IInv
<1>. QED  BY InitIInv, NextIInv, PTL DEF Spec

\* Every variable keeps to its type, in every run of the server: the tables hold
\* rows of the form the handlers write, whatever requests come and interleave.
THEOREM TypeCorrect == Spec => []TypeOK
<1>1. IInv => TypeOK
  BY DEF IInv
<1>. QED  BY <1>1, Invariant, PTL

-----------------------------------------------------------------------------
\* A verified account

\* Request r ends a reset of the password of e with a code that was mailed to e,
\* compared as often as it may be, and used up.
Resets(r, e) ==
    /\ pc[r] = "set password" /\ pc'[r] = "done"
    /\ req[r].email = e
    /\ LET c == codes[found[r]]
       IN  /\ c.email = e /\ c.purpose = "password_reset"
           /\ c.used /\ c.passes > 0 /\ c.guesses <= MaxAttempts

\* What update_password rests on when it is run.
LEMMA SetByReset ==
    ASSUME NEW r \in Requests, IInv, SetPassword(r)
    PROVE  Resets(r, req[r].email)
<1>1. /\ pc[r] = "set password" /\ pc'[r] = "done"
      /\ req[r] \in Showing("reset") /\ HasCode(r)
      /\ codes[found[r]].passes > 0 /\ codes[found[r]].used
  BY DEF IInv, TypeOK, SetPassword, Goto, Staged, Fits, Proven, Backed
<1>2. codes[found[r]].purpose = "password_reset" /\ codes[found[r]].email = req[r].email
  BY <1>1 DEF HasCode, Purpose, Showing
<1>3. codes[found[r]].guesses <= MaxAttempts
  BY <1>1 DEF IInv, Proven, Guessed, HasCode
<1>. QED  BY <1>1, <1>2, <1>3 DEF Resets

\* mark_email_verified finds nothing to change in an account that is verified.
LEMMA VerifiedStays ==
    ASSUME TypeOK, NEW e \in Emails, NEW r, Verified(e),
           users' = [users EXCEPT ![req[r].email].verified = TRUE]
    PROVE  users'[e] = users[e]
<1>. DEFINE u == users[e]
<1>1. u \in Users /\ u.verified
  BY DEF TypeOK, Verified
<1>. DEFINE v == [u EXCEPT !.verified = TRUE]
<1>2. users'[e] = u \/ users'[e] = v
  BY DEF TypeOK
<1>. HIDE DEF u
<1>3. v = u
  BY <1>1, Zenon DEF Users
<1>. QED  BY <1>2, <1>3 DEF u

\* A step that changes a verified account is the last one of a reset.
LEMMA OnlyAReset ==
    ASSUME IInv, [Next]_vars, NEW e \in Emails, Verified(e), users'[e] # users[e]
    PROVE  \E r \in Requests : Resets(r, e)
<1>. USE DEF IInv
<1>1. Next
  BY DEF vars
<1>2. ~Restart /\ \A i \in DOMAIN codes : ~Expire(i)
  BY DEF Restart, Expire
<1>3. PICK r \in Requests :
         Receive(r) \/ Signup(r) \/ Resend(r) \/ UseCode(r) \/ Session(r) \/ Fail(r)
  BY <1>1, <1>2 DEF Next
<1>4. ~Receive(r)
  BY DEF Receive, Arrive, RecvRegister, RecvResend, RecvForgot, RecvLogin, RecvVerify,
     RecvReset, RecvLogout, RecvDelete, RecvOther
<1>5. ~Resend(r) /\ ~Fail(r)
  BY DEF Resend, LookupPending, LookupForgetful, Cooldown, Invalidate, Fail
<1>6. ~Session(r)
  BY DEF Session, Login, LastLogin, OpenSession, InsertSession, Authenticate,
     ReadSession, Rehydrate, CloseSession
<1>7. ~Signup(r)
  <2>1. ~Reclaim(r)
    <3>1. SUFFICES ASSUME Reclaim(r) PROVE FALSE
      OBVIOUS
    <3>2. /\ users' = [users EXCEPT ![req[r].email] = Registered(r)]
          /\ ~Verified(req[r].email)
      BY <3>1 DEF Reclaim
    <3>. QED  BY <3>2 DEF TypeOK
  <2>2. ~InsertUser(r)
    <3>1. SUFFICES ASSUME InsertUser(r) PROVE FALSE
      OBVIOUS
    <3>2. /\ users' = [users EXCEPT ![req[r].email] = Registered(r)]
          /\ users[req[r].email] = NoUser
      BY <3>1 DEF InsertUser
    <3>. QED  BY <3>2 DEF TypeOK, Verified
  <2>3. ~LookupName(r) /\ ~IssueCode(r)
    BY DEF LookupName, IssueCode
  <2>. QED  BY <2>1, <2>2, <2>3 DEF Signup
<1>8. CASE UseCode(r)
  <2>1. ~FindCode(r) /\ ~TryCode(r) /\ ~ConsumeCode(r)
    BY DEF FindCode, TryCode, ConsumeCode
  <2>2. ~VerifiedAccount(r) /\ ~ResetAccount(r)
    BY DEF VerifiedAccount, ResetAccount
  <2>3. ~MarkVerified(r)
    BY VerifiedStays DEF MarkVerified
  <2>4. SetPassword(r)
    BY <1>8, <2>1, <2>2, <2>3 DEF UseCode
  <2>5. req[r].email = e
    BY <2>4 DEF SetPassword, TypeOK
  <2>. QED  BY <2>4, <2>5, SetByReset
<1>. QED  BY <1>3, <1>4, <1>5, <1>6, <1>7, <1>8

\* A verified account is changed by nobody but a request that has shown and used
\* up a code mailed to its address, however registrations, resends, resets and
\* failures interleave: the row lock of reclaim_unverified_user_atomic, the UNIQUE
\* keys and the order of consume_password_reset are what it takes.
THEOREM ResetsOnly == Spec => OnlyAResetChangesVerified
<1>1. IInv /\ [Next]_vars =>
         [\A e \in Emails : Verified(e) /\ users'[e] # users[e] =>
             \E r \in Requests :
                /\ pc[r] = "set password" /\ pc'[r] = "done"
                /\ req[r].email = e
                /\ LET c == codes[found[r]]
                   IN  /\ c.email = e /\ c.purpose = "password_reset"
                       /\ c.used /\ c.passes > 0 /\ c.guesses <= MaxAttempts]_vars
  BY OnlyAReset DEF Resets
<1>. QED  BY <1>1, Invariant, PTL DEF Spec, OnlyAResetChangesVerified

-----------------------------------------------------------------------------
\* A session that is over

\* What a step of r outside of the sessions does to them.
Aside(r) ==
    /\ pc[r] # "done"
    /\ \E to \in Steps \ {"file"} : Goto(r, pc[r], to)
    /\ UNCHANGED <<rows, store, held>>
    /\ pc'[r] # "file" /\ \A q \in Requests \ {r} : req'[q] = req[q]

\* Requests arrive, register, resend, verify, reset and fail without a session.
LEMMA StepAside ==
    ASSUME NEW r \in Requests, TypeOK,
           Receive(r) \/ Signup(r) \/ Resend(r) \/ UseCode(r) \/ Fail(r)
    PROVE  Aside(r)
<1>1. ASSUME NEW to \in Steps \ {"file"}, Goto(r, pc[r], to), pc[r] # "done",
             UNCHANGED <<rows, store, held>>,
             \A q \in Requests \ {r} : req'[q] = req[q]
      PROVE  Aside(r)
  <2>1. pc'[r] = to
    BY <1>1 DEF Goto, TypeOK
  <2>. QED  BY <1>1, <2>1 DEF Aside
<1>2. CASE Receive(r)
  <2>1. ASSUME NEW a, Arrive(r, a),
               a.kind \in {"register", "resend", "forgot", "login", "verify", "reset",
                          "logout", "delete", "other"}
        PROVE  Aside(r)
    <3>1. First("register") = "reclaim"
      BY DEF First
    <3>2. First("resend") = "pending"
      BY DEF First
    <3>3. First("forgot") = "account to reset"
      BY DEF First
    <3>4. First("login") = "login"
      BY DEF First
    <3>5. \A k \in {"verify", "reset"} : First(k) = "find"
      BY DEF First
    <3>6. \A k \in {"logout", "delete", "other"} : First(k) = "auth"
      BY DEF First
    <3>7. First(a.kind) \in Steps \ {"file"}
      BY <2>1, <3>1, <3>2, <3>3, <3>4, <3>5, <3>6 DEF Steps
    <3>8. /\ Goto(r, pc[r], First(a.kind)) /\ pc[r] # "done"
          /\ UNCHANGED <<rows, store, held>>
          /\ \A q \in Requests \ {r} : req'[q] = req[q]
      BY <2>1 DEF Arrive, Goto, TypeOK
    <3>. QED  BY <1>1, <3>7, <3>8
  <2>2. ASSUME NEW e, NEW n, Arrive(r, [name |-> n, email |-> e, kind |-> "register"])
        PROVE  Aside(r)
    BY <2>1, <2>2
  <2>3. ASSUME NEW e, NEW kind \in {"resend", "forgot", "login"},
               Arrive(r, [email |-> e, kind |-> kind])
        PROVE  Aside(r)
    BY <2>1, <2>3
  <2>4. ASSUME NEW e, NEW i, NEW kind \in {"verify", "reset"},
               Arrive(r, [email |-> e, kind |-> kind, code |-> i])
        PROVE  Aside(r)
    BY <2>1, <2>4
  <2>5. ASSUME NEW t, NEW kind \in {"logout", "delete", "other"},
               Arrive(r, [kind |-> kind, bearer |-> t])
        PROVE  Aside(r)
    BY <2>1, <2>5
  <2>. QED
    BY <1>2, <2>2, <2>3, <2>4, <2>5 DEF Receive, RecvRegister, RecvResend, RecvForgot,
       RecvLogin, RecvVerify, RecvReset, RecvLogout, RecvDelete, RecvOther
<1>3. CASE Signup(r) \/ Resend(r)
  <2>1. PICK to \in {"issue", "lookup name", "insert user", "prior", "invalidate",
                     "done"} : Goto(r, pc[r], to)
    BY <1>3 DEF Signup, Reclaim, LookupName, InsertUser, IssueCode, Resend,
       LookupPending, LookupForgetful, Cooldown, Invalidate, Goto
  <2>2. UNCHANGED <<rows, store, held, req>> /\ pc[r] # "done"
    BY <1>3 DEF Signup, Reclaim, LookupName, InsertUser, IssueCode, Resend,
       LookupPending, LookupForgetful, Cooldown, Invalidate, Goto
  <2>. QED  BY <1>1, <2>1, <2>2 DEF Steps
<1>4. CASE UseCode(r)
  <2>1. PICK to \in {"try", "consume", "account", "mark", "set password", "session",
                     "done"} : Goto(r, pc[r], to)
    BY <1>4 DEF UseCode, FindCode, TryCode, ConsumeCode, VerifiedAccount, ResetAccount,
       MarkVerified, SetPassword, Goto
  <2>2. UNCHANGED <<rows, store, held, req>> /\ pc[r] # "done"
    BY <1>4 DEF UseCode, FindCode, TryCode, ConsumeCode, VerifiedAccount, ResetAccount,
       MarkVerified, SetPassword, Goto
  <2>. QED  BY <1>1, <2>1, <2>2 DEF Steps
<1>5. CASE Fail(r)
  <2>1. Goto(r, pc[r], "done") /\ pc[r] # "done" /\ UNCHANGED <<rows, store, held, req>>
    BY <1>5 DEF Fail
  <2>. QED  BY <1>1, <2>1 DEF Steps
<1>. QED  BY <1>2, <1>3, <1>4, <1>5

\* What is changed by a request that works on a session.
LEMMA SessionPlaces ==
    ASSUME NEW r \in Requests, TypeOK, Session(r)
    PROVE  /\ pc[r] # "done" /\ UNCHANGED req
           /\ \A q \in Requests \ {r} : pc'[q] = pc[q]
           /\ held' = held \/ (held' = held \cup {r} /\ pc'[r] = "done")
<1>1. UNCHANGED req
  BY DEF Session, Login, LastLogin, OpenSession, InsertSession, Authenticate,
     ReadSession, Rehydrate, CloseSession
<1>2. CASE InsertSession(r)
  BY <1>1, <1>2 DEF InsertSession, Goto, TypeOK
<1>3. CASE ~InsertSession(r)
  <2>1. PICK to : Goto(r, pc[r], to)
    BY DEF Session, Login, LastLogin, OpenSession, InsertSession, Authenticate,
       ReadSession, Rehydrate, CloseSession, Goto
  <2>2. pc[r] # "done" /\ held' = held
    BY <1>3 DEF Session, Login, LastLogin, OpenSession, Authenticate, ReadSession,
       Rehydrate, CloseSession, Goto
  <2>. QED  BY <1>1, <2>1, <2>2 DEF Goto, TypeOK
<1>. QED  BY <1>2, <1>3

\* A request that has sent its token has ended, and stays so.
LEMMA SentKept == IInv /\ Sent /\ [Next]_vars => Sent'
<1>. SUFFICES ASSUME TypeOK, Sent, [Next]_vars PROVE Sent'
  BY DEF IInv
<1>0. held \subseteq Requests
  BY DEF TypeOK
<1>1. CASE UNCHANGED vars
  BY <1>1 DEF vars, Sent
<1>2. ASSUME NEW r \in Requests,
             Receive(r) \/ Signup(r) \/ Resend(r) \/ UseCode(r) \/ Fail(r)
      PROVE  Sent'
  <2>1. Aside(r)
    BY <1>2, StepAside
  <2>. QED  BY <1>0, <2>1 DEF Aside, Goto, TypeOK, Sent
<1>3. ASSUME NEW r \in Requests, Session(r) PROVE Sent'
  BY <1>0, <1>3, SessionPlaces DEF Sent
<1>4. CASE Restart
  BY <1>0, <1>4 DEF Restart, Sent
<1>5. ASSUME NEW i \in DOMAIN codes, Expire(i) PROVE Sent'
  BY <1>5 DEF Expire, Sent
<1>. QED  BY <1>1, <1>2, <1>3, <1>4, <1>5 DEF Next

\* What has to be shown of a step for a session to stay over.
LEMMA OverKept ==
    ASSUME NEW t \in Requests, Over(t),
           held \subseteq held', t \notin store', rows'[t] # "open",
           \A q \in Requests :
              pc'[q] = "file" => \/ pc[q] = "file" /\ req'[q] = req[q]
                                \/ req'[q].bearer # t
    PROVE  Over(t)'
  BY DEF Over

\* A step of any kind leaves a session over.
LEMMA OverStep ==
    ASSUME IInv, Sent, [Next]_vars, NEW t \in Requests, Over(t)
    PROVE  Over(t)'
<1>. USE DEF IInv
<1>1. /\ t \in held /\ t \notin store /\ rows[t] # "open" /\ pc[t] = "done"
      /\ \A q \in Requests : pc[q] = "file" => req[q].bearer # t
      /\ rows \in [Requests -> {"none", "open", "closed"}]
      /\ pc \in [Requests -> Steps]
  BY DEF Over, Sent, TypeOK
<1>2. CASE UNCHANGED vars
  BY <1>2 DEF vars, Over
<1>3. ASSUME NEW r \in Requests,
             Receive(r) \/ Signup(r) \/ Resend(r) \/ UseCode(r) \/ Fail(r)
      PROVE  Over(t)'
  <2>1. Aside(r)
    BY <1>3, StepAside
  <2>2. \A q \in Requests :
           pc'[q] = "file" => pc[q] = "file" /\ req'[q] = req[q]
    BY <1>1, <2>1 DEF Aside, Goto
  <2>. QED  BY <1>1, <2>1, <2>2, OverKept DEF Aside
<1>4. ASSUME NEW r \in Requests, Session(r) PROVE Over(t)'
  <2>1. /\ r # t /\ UNCHANGED req /\ held \subseteq held'
        /\ \A q \in Requests \ {r} : pc'[q] = pc[q]
    BY <1>1, <1>4, SessionPlaces
  <2>2. rows'[t] # "open"
    <3>1. CASE InsertSession(r)
      BY <1>1, <2>1, <3>1 DEF InsertSession
    <3>2. CASE CloseSession(r)
      BY <1>1, <3>2 DEF CloseSession
    <3>3. CASE ~InsertSession(r) /\ ~CloseSession(r)
      BY <1>1, <1>4, <3>3 DEF Session, Login, LastLogin, OpenSession, Authenticate,
         ReadSession, Rehydrate
    <3>. QED  BY <3>1, <3>2, <3>3
  <2>3. t \notin store'
    <3>1. CASE OpenSession(r)
      BY <1>1, <2>1, <3>1 DEF OpenSession
    <3>2. CASE Authenticate(r)
      BY <1>1, <3>2 DEF Authenticate, Kept
    <3>3. CASE Rehydrate(r)
      BY <1>1, <3>3 DEF Rehydrate, Kept, Goto
    <3>4. CASE ~OpenSession(r) /\ ~Authenticate(r) /\ ~Rehydrate(r)
      BY <1>1, <1>4, <3>4 DEF Session, Login, LastLogin, InsertSession, ReadSession,
         CloseSession
    <3>. QED  BY <3>1, <3>2, <3>3, <3>4
  <2>4. pc'[r] = "file" => rows[req[r].bearer] = "open"
    <3>1. CASE ReadSession(r)
      BY <1>1, <3>1 DEF ReadSession, Goto
    <3>2. CASE ~ReadSession(r)
      <4>1. PICK to : Goto(r, pc[r], to) /\ to # "file"
        BY <1>4, <3>2 DEF Session, Login, LastLogin, OpenSession, InsertSession,
           Authenticate, Rehydrate, CloseSession, Handled, Goto
      <4>. QED  BY <1>1, <4>1 DEF Goto
    <3>. QED  BY <3>1, <3>2
  <2>5. pc'[r] = "file" => req'[r].bearer # t
    BY <1>1, <2>1, <2>4
  <2>. QED  BY <2>1, <2>2, <2>3, <2>5, OverKept
<1>5. CASE Restart
  <2>1. /\ UNCHANGED <<rows, held, req>> /\ store' = {}
        /\ \A q \in Requests : pc'[q] # "file"
    BY <1>5 DEF Restart
  <2>. QED  BY <1>1, <2>1, OverKept
<1>6. ASSUME NEW i \in DOMAIN codes, Expire(i) PROVE Over(t)'
  BY <1>6 DEF Expire, Over
<1>. QED  BY <1>2, <1>3, <1>4, <1>5, <1>6 DEF Next

\* A session that a logout or a deletion has ended is not brought back by a request
\* that still bears its token, nor by a restart: the token is put into the store
\* again only after its row was read as open (middleware.py:92-107).
THEOREM OverForGood == Spec => OverStaysOver
<1>1. Init => Sent
  BY DEF Init, Sent
<1>2. IInv /\ Sent /\ [Next]_vars => [\A t \in Requests : Over(t) => Over(t)']_vars
  BY OverStep
<1>. QED  BY <1>1, <1>2, Invariant, SentKept, PTL DEF Spec, OverStaysOver

-----------------------------------------------------------------------------
(***************************************************************************)
(* SignIn, for any number of people, dialogs and requests.                 *)
(*                                                                         *)
(* A request is bound to the dialog that sent it, and an accepted dialog   *)
(* to the address last asked for in it.  The address of a dialog changes   *)
(* only while it is the whole stack: then no code of its signup is up, and *)
(* no login of it is on its way.  The parts below are stated of any        *)
(* dialogs ds, stack st, requests cs and owners os, so that a step is a    *)
(* change of one of them after the other.                                  *)
(***************************************************************************)

Addresses == People \cup {NoOne}
DialogRows ==
    [kind : {"login", "signup", "find id", "reset", "code"}, wants : Addresses,
     busy : SUBSET {"call", "resend"}, token : Nat, user : Addresses,
     result : {"open", "accepted", "rejected", "signup", "login", "find id", "reset"},
     owner : Nat, boxes : {"empty", "right", "wrong"}, left : BOOLEAN, resends : Nat, page : {0, 1}]
RequestRows ==
    [id : Nat, by : Nat, path : {"login", "register", "verify", "resend", "find"},
     email : Addresses, right : BOOLEAN, state : {"sent", "ok", "refused"}, token : Nat]

\* What a request has to do with the dialog that sent it.
Belongs(c, r) ==
    /\ c.path = "login" => r.kind = "login" /\ "call" \in r.busy /\ c.email = r.wants
    /\ c.path = "register" => r.kind = "signup"
    /\ c.path = "verify" => r.kind = "code" /\ c.email = r.wants
    /\ c.path = "resend" => r.kind = "code"
    /\ c.path = "find" => r.kind = "find id"

\* An answer brings a session of the one who asked.
BringsSession(c, os) ==
    c.state = "ok" /\ c.path \in {"login", "verify"} => c.token \in 1 .. Len(os) /\ os[c.token] = c.email

RequestFits(c, ds, os) ==
    c.by # 0 => c.by \in 1 .. Len(ds) /\ Belongs(c, ds[c.by]) /\ BringsSession(c, os)

\* An accepted dialog has the session of the address asked for.
LetIn(r, os) ==
    r.result = "accepted" /\ r.kind # "reset" =>
        r.token \in 1 .. Len(os) /\ os[r.token] = r.wants /\ r.user = r.wants

\* A code asks for the address of the signup it belongs to.
CodeFits(r, ds) == r.kind = "code" => r.owner \in 1 .. Len(ds) /\ ds[r.owner].wants = r.wants

StackFits(st, ds) ==
    /\ st \in Seq(Nat)
    /\ \A i \in 1 .. Len(st) : /\ st[i] \in 1 .. Len(ds)
                               /\ i # 1 => ds[st[i]].kind = "code"
                               /\ CodeFits(ds[st[i]], ds)

OneLogin(cs) ==
    \A c, e \in cs : c.path = "login" /\ e.path = "login" /\ c.by = e.by /\ c.by # 0 => c = e

Sound(ds, st, cs, os) ==
    /\ ds \in Seq(DialogRows) /\ os \in Seq(Addresses) /\ cs \subseteq RequestRows
    /\ StackFits(st, ds) /\ OneLogin(cs)
    /\ \A c \in cs : RequestFits(c, ds, os)
    /\ \A d \in 1 .. Len(ds) : LetIn(ds[d], os)

SignInv ==
    /\ Sound(dialogs, stack, calls, owners) /\ clicks \in Nat
    /\ screen = "welcome" => dialogs = <<>> /\ stack = <<>> /\ calls = {}

\* One more session.
LEMMA OwnersGrow ==
    ASSUME NEW ds, NEW st, NEW cs, NEW os, Sound(ds, st, cs, os), NEW e \in Addresses
    PROVE  Sound(ds, st, cs, Append(os, e)) /\ Len(Append(os, e)) = Len(os) + 1
           /\ Len(os) \in Nat /\ Append(os, e)[Len(os) + 1] = e
<1>. DEFINE A == Addresses
<1>1. os \in Seq(A) /\ e \in A
  BY DEF Sound
<1>. HIDE DEF A
<1>2. /\ Append(os, e) \in Seq(A) /\ Len(Append(os, e)) = Len(os) + 1 /\ Len(os) \in Nat
      /\ \A i \in 1 .. Len(os) : Append(os, e)[i] = os[i]
      /\ Append(os, e)[Len(os) + 1] = e
  BY <1>1, AppendProperties
<1>3. \A i \in 1 .. Len(os) : i \in 1 .. Len(os) + 1
  BY <1>2
<1>. DEFINE more == Append(os, e)
<1>. HIDE DEF more
<1>4. ASSUME NEW c \in cs PROVE RequestFits(c, ds, more)
  BY <1>2, <1>3 DEF Sound, RequestFits, BringsSession, more
<1>5. ASSUME NEW d \in 1 .. Len(ds) PROVE LetIn(ds[d], more)
  BY <1>2, <1>3 DEF Sound, LetIn, more
<1>6. Sound(ds, st, cs, more)
  BY <1>2, <1>4, <1>5 DEF Sound, A, more
<1>. QED  BY <1>2, <1>6 DEF more

\* Fewer requests.
LEMMA RequestGone ==
    ASSUME NEW ds, NEW st, NEW cs, NEW os, Sound(ds, st, cs, os), NEW some, some \subseteq cs
    PROVE  Sound(ds, st, some, os)
<1>1. some \subseteq RequestRows
  <2>. DEFINE R == RequestRows
  <2>1. cs \subseteq R
    BY DEF Sound
  <2>. HIDE DEF R
  <2>2. some \subseteq R
    BY <2>1
  <2>. QED  BY <2>2 DEF R
<1>. QED  BY <1>1 DEF Sound, OneLogin

\* One more request.
LEMMA RequestMade ==
    ASSUME NEW ds, NEW st, NEW cs, NEW os, Sound(ds, st, cs, os),
           NEW e \in RequestRows, RequestFits(e, ds, os),
           e.path = "login" /\ e.by # 0 => \A c \in cs : c.path = "login" => c.by # e.by
    PROVE  Sound(ds, st, cs \cup {e}, os)
<1>1. cs \cup {e} \subseteq RequestRows
  <2>. DEFINE R == RequestRows
  <2>1. cs \subseteq R /\ e \in R
    BY DEF Sound
  <2>. HIDE DEF R
  <2>2. cs \cup {e} \subseteq R
    BY <2>1
  <2>. QED  BY <2>2 DEF R
<1>2. OneLogin(cs \cup {e})
  BY DEF Sound, OneLogin
<1>. QED  BY <1>1, <1>2 DEF Sound

\* A request goes on, for its dialog or for none.
LEMMA RequestGoesOn ==
    ASSUME NEW ds, NEW st, NEW cs, NEW os, Sound(ds, st, cs, os),
           NEW c \in cs, NEW e \in RequestRows, RequestFits(e, ds, os),
           e.path = c.path, e.by = 0 \/ e.by = c.by
    PROVE  Sound(ds, st, (cs \ {c}) \cup {e}, os)
<1>1. Sound(ds, st, cs \ {c}, os)
  BY RequestGone
<1>2. e.path = "login" /\ e.by # 0 => \A x \in cs \ {c} : x.path = "login" => x.by # e.by
  BY DEF Sound, OneLogin
<1>. QED  BY <1>1, <1>2, RequestMade

\* A dialog changes, and not in what it asks for.
LEMMA DialogGoesOn ==
    ASSUME NEW ds, NEW st, NEW cs, NEW os, Sound(ds, st, cs, os),
           NEW d \in 1 .. Len(ds), NEW r \in DialogRows, LetIn(r, os),
           r.kind = ds[d].kind, r.owner = ds[d].owner, r.wants = ds[d].wants,
           \A c \in cs : c.by = d /\ c.path = "login" => "call" \in r.busy
    PROVE  /\ Sound([ds EXCEPT ![d] = r], st, cs, os) /\ Len([ds EXCEPT ![d] = r]) = Len(ds)
           /\ [ds EXCEPT ![d] = r][d] = r
<1>. DEFINE R == DialogRows
            es == [ds EXCEPT ![d] = r]
<1>1. ds \in Seq(R) /\ r \in R
  BY DEF Sound
<1>. HIDE DEF R
<1>2. /\ es \in Seq(R) /\ Len(es) = Len(ds)
      /\ \A i \in 1 .. Len(ds) : es[i] = IF i = d THEN r ELSE ds[i]
  BY <1>1, ExceptSeq
<1>. HIDE DEF es
<1>3. \A i \in 1 .. Len(ds) : es[i].kind = ds[i].kind /\ es[i].owner = ds[i].owner /\ es[i].wants = ds[i].wants
  BY <1>2
<1>4. StackFits(st, es)
  <2>1. ASSUME NEW i \in 1 .. Len(st)
        PROVE  st[i] \in 1 .. Len(es) /\ (i # 1 => es[st[i]].kind = "code") /\ CodeFits(es[st[i]], es)
    <3>1. st[i] \in 1 .. Len(ds) /\ (i # 1 => ds[st[i]].kind = "code") /\ CodeFits(ds[st[i]], ds)
      BY DEF Sound, StackFits
    <3>. QED  BY <1>2, <1>3, <3>1 DEF CodeFits
  <2>. QED  BY <2>1 DEF Sound, StackFits
<1>5. ASSUME NEW c \in cs PROVE RequestFits(c, es, os)
  <2>1. c.by # 0 => c.by \in 1 .. Len(ds) /\ Belongs(c, ds[c.by]) /\ BringsSession(c, os)
    BY DEF Sound, RequestFits
  <2>2. c.by # 0 => Belongs(c, es[c.by])
    BY <1>2, <1>3, <2>1 DEF Belongs
  <2>. QED  BY <1>2, <2>1, <2>2 DEF RequestFits
<1>6. ASSUME NEW i \in 1 .. Len(es) PROVE LetIn(es[i], os)
  BY <1>2 DEF Sound
<1>7. Sound(es, st, cs, os)
  BY <1>2, <1>4, <1>5, <1>6 DEF Sound, R
<1>. QED  BY <1>2, <1>7 DEF es

\* The dialog on top asks for another address: it is alone, so no code belongs to it.
LEMMA DialogAsks ==
    ASSUME NEW ds, NEW st, NEW cs, NEW os, Sound(ds, st, cs, os), st # <<>>,
           NEW d, d = st[Len(st)], ds[d].kind \in {"login", "signup"},
           \A c \in cs : c.by = d => c.path # "login",
           NEW r \in DialogRows, r.kind = ds[d].kind, r.result = "open"
    PROVE  /\ Sound([ds EXCEPT ![d] = r], st, cs, os) /\ Len([ds EXCEPT ![d] = r]) = Len(ds)
           /\ [ds EXCEPT ![d] = r][d] = r /\ d \in 1 .. Len(ds)
<1>. DEFINE R == DialogRows
            es == [ds EXCEPT ![d] = r]
<1>1. Len(st) = 1 /\ d \in 1 .. Len(ds)
  <2>1. st \in Seq(Nat)
    BY DEF Sound, StackFits
  <2>2. Len(st) \in 1 .. Len(st)
    BY <2>1
  <2>3. /\ st[Len(st)] \in 1 .. Len(ds)
        /\ Len(st) # 1 => ds[st[Len(st)]].kind = "code"
    BY <2>2 DEF Sound, StackFits
  <2>. QED  BY <2>3
<1>2. ds \in Seq(R) /\ r \in R
  BY DEF Sound
<1>. HIDE DEF R
<1>3. /\ es \in Seq(R) /\ Len(es) = Len(ds)
      /\ \A i \in 1 .. Len(ds) : es[i] = IF i = d THEN r ELSE ds[i]
  BY <1>1, <1>2, ExceptSeq
<1>. HIDE DEF es
<1>4. StackFits(st, es)
  BY <1>1, <1>3 DEF Sound, StackFits, CodeFits
<1>5. ASSUME NEW c \in cs PROVE RequestFits(c, es, os)
  <2>1. c.by # 0 => c.by \in 1 .. Len(ds) /\ Belongs(c, ds[c.by]) /\ BringsSession(c, os)
    BY DEF Sound, RequestFits
  <2>2. c.by # 0 => Belongs(c, es[c.by])
    BY <1>3, <2>1 DEF Belongs
  <2>. QED  BY <1>3, <2>1, <2>2 DEF RequestFits
<1>6. ASSUME NEW i \in 1 .. Len(es) PROVE LetIn(es[i], os)
  BY <1>3 DEF Sound, LetIn
<1>7. Sound(es, st, cs, os)
  BY <1>3, <1>4, <1>5, <1>6 DEF Sound, R
<1>. QED  BY <1>1, <1>3, <1>7 DEF es

\* A dialog is made.
LEMMA DialogMade ==
    ASSUME NEW ds, NEW st, NEW cs, NEW os, Sound(ds, st, cs, os), NEW r \in DialogRows, r.result = "open"
    PROVE  /\ Sound(Append(ds, r), st, cs, os) /\ Len(ds) \in Nat /\ Len(Append(ds, r)) = Len(ds) + 1
           /\ \A i \in 1 .. Len(ds) : Append(ds, r)[i] = ds[i]
           /\ Append(ds, r)[Len(ds) + 1] = r
<1>. DEFINE R == DialogRows
            es == Append(ds, r)
<1>1. ds \in Seq(R) /\ r \in R
  BY DEF Sound
<1>. HIDE DEF R
<1>2. /\ es \in Seq(R) /\ Len(es) = Len(ds) + 1 /\ Len(ds) \in Nat
      /\ \A i \in 1 .. Len(ds) : es[i] = ds[i]
      /\ es[Len(ds) + 1] = r
  BY <1>1, AppendProperties
<1>. HIDE DEF es
<1>3. \A i \in 1 .. Len(ds) : i \in 1 .. Len(es)
  BY <1>2
<1>4. StackFits(st, es)
  BY <1>2, <1>3 DEF Sound, StackFits, CodeFits
<1>5. ASSUME NEW c \in cs PROVE RequestFits(c, es, os)
  BY <1>2, <1>3 DEF Sound, RequestFits
<1>6. ASSUME NEW i \in 1 .. Len(es) PROVE LetIn(es[i], os)
  <2>1. CASE i = Len(ds) + 1
    BY <1>2, <2>1 DEF LetIn
  <2>2. CASE i # Len(ds) + 1
    <3>1. i \in 1 .. Len(ds)
      BY <1>2, <2>2
    <3>. QED  BY <1>2, <3>1 DEF Sound
  <2>. QED  BY <2>1, <2>2
<1>7. Sound(es, st, cs, os)
  BY <1>2, <1>4, <1>5, <1>6 DEF Sound, R
<1>. QED  BY <1>2, <1>7 DEF es

\* A step that leaves all sound, and not at the welcome, keeps the invariant.
LEMMA StaysSound ==
    ASSUME Sound(dialogs', stack', calls', owners'), clicks' \in Nat, screen' # "welcome"
    PROVE  SignInv'
BY DEF SignInv

\* The dialogs are rows.
LEMMA DialogFacts ==
    ASSUME SignInv
    PROVE  /\ Len(dialogs) \in Nat /\ DOMAIN dialogs = 1 .. Len(dialogs)
           /\ \A d \in 1 .. Len(dialogs) : dialogs[d] \in DialogRows /\ LetIn(dialogs[d], owners)
<1>. DEFINE R == DialogRows
<1>1. dialogs \in Seq(R)
  BY DEF SignInv, Sound
<1>. HIDE DEF R
<1>2. Len(dialogs) \in Nat /\ DOMAIN dialogs = 1 .. Len(dialogs) /\ \A d \in 1 .. Len(dialogs) : dialogs[d] \in R
  BY <1>1
<1>. QED  BY <1>2 DEF R, SignInv, Sound

\* The dialog on top: below a code there may be anything, below another dialog nothing.
LEMMA TopFacts ==
    ASSUME SignInv, stack # <<>>
    PROVE  /\ Last(stack) \in 1 .. Len(dialogs) /\ Last(stack) = stack[Len(stack)]
           /\ Len(stack) \in 1 .. Len(stack) /\ stack \in Seq(Nat)
           /\ Top = dialogs[Last(stack)] /\ Top \in DialogRows /\ LetIn(Top, owners)
           /\ Top.kind # "code" => Len(stack) = 1
           /\ CodeFits(Top, dialogs)
           /\ screen # "welcome" /\ clicks \in Nat
<1>1. stack \in Seq(Nat) /\ Last(stack) = stack[Len(stack)]
  BY DEF SignInv, Sound, StackFits, Last
<1>2. Len(stack) \in 1 .. Len(stack)
  BY <1>1
<1>3. /\ stack[Len(stack)] \in 1 .. Len(dialogs)
      /\ Len(stack) # 1 => dialogs[stack[Len(stack)]].kind = "code"
      /\ CodeFits(dialogs[stack[Len(stack)]], dialogs)
  BY <1>2 DEF SignInv, Sound, StackFits
<1>4. Top = dialogs[Last(stack)]
  BY DEF Top
<1>5. screen # "welcome" /\ clicks \in Nat
  BY DEF SignInv
<1>. QED  BY <1>1, <1>2, <1>3, <1>4, <1>5, DialogFacts

\* A request fits its dialog.
LEMMA RequestFacts ==
    ASSUME SignInv, NEW c \in calls
    PROVE  /\ c \in RequestRows /\ screen # "welcome" /\ clicks \in Nat
           /\ c.by # 0 => /\ c.by \in 1 .. Len(dialogs) /\ dialogs[c.by] \in DialogRows
                          /\ Belongs(c, dialogs[c.by]) /\ BringsSession(c, owners)
<1>1. c \in RequestRows
  <2>. DEFINE R == RequestRows
  <2>1. calls \subseteq R
    BY DEF SignInv, Sound
  <2>. HIDE DEF R
  <2>2. c \in R
    BY <2>1
  <2>. QED  BY <2>2 DEF R
<1>2. screen # "welcome" /\ clicks \in Nat
  BY DEF SignInv
<1>3. c.by # 0 => c.by \in 1 .. Len(dialogs) /\ Belongs(c, dialogs[c.by]) /\ BringsSession(c, owners)
  BY DEF SignInv, Sound, RequestFits
<1>. QED  BY <1>1, <1>2, <1>3, DialogFacts

\* A dialog changes, and not in what it asks for, nor in being busy with a login.
LEMMA DialogChanges ==
    ASSUME SignInv, NEW d \in 1 .. Len(dialogs), NEW r \in DialogRows, LetIn(r, owners),
           r.kind = dialogs[d].kind, r.owner = dialogs[d].owner, r.wants = dialogs[d].wants,
           r.kind = "login" /\ "call" \in dialogs[d].busy => "call" \in r.busy
    PROVE  /\ Sound([dialogs EXCEPT ![d] = r], stack, calls, owners)
           /\ Len([dialogs EXCEPT ![d] = r]) = Len(dialogs) /\ [dialogs EXCEPT ![d] = r][d] = r
<1>1. Sound(dialogs, stack, calls, owners)
  BY DEF SignInv
<1>2. \A c \in calls : c.by = d /\ c.path = "login" => "call" \in r.busy
  <2>1. d # 0
    OBVIOUS
  <2>. QED  BY <2>1, RequestFacts DEF Belongs
<1>. QED  BY <1>1, <1>2, DialogGoesOn

\* Logging in, and signing up.
LEMMA AskKeeps ==
    ASSUME SignInv, NEW e \in People, LoginClick(e) \/ SignupClick(e)
    PROVE  SignInv'
<1>. DEFINE d == Last(stack)
            p == IF Top.kind = "login" THEN "login" ELSE "register"
            r == [dialogs[d] EXCEPT !.busy = {"call"}, !.wants = e]
            q == [id |-> clicks, by |-> d, path |-> p, email |-> e, right |-> TRUE,
                  state |-> "sent", token |-> 0]
<1>1. stack # <<>> /\ Top.result = "open" /\ Top.kind \in {"login", "signup"} /\ "call" \notin Top.busy
  BY DEF LoginClick, SignupClick, Shown
<1>2. /\ d \in 1 .. Len(dialogs) /\ d = stack[Len(stack)] /\ Top = dialogs[d] /\ Top \in DialogRows
      /\ screen # "welcome" /\ clicks \in Nat /\ Len(dialogs) \in Nat /\ DOMAIN dialogs = 1 .. Len(dialogs)
  BY <1>1, TopFacts, DialogFacts
<1>3. clicks' = clicks + 1 /\ calls' = calls \cup {q} /\ UNCHANGED <<screen, stack, owners>>
  BY <1>1 DEF LoginClick, SignupClick, Shown, Send, serverVars
<1>4. dialogs' = [dialogs EXCEPT ![d] = r]
  BY <1>2 DEF LoginClick, SignupClick
<1>5. r \in DialogRows /\ r.kind = dialogs[d].kind /\ r.result = "open" /\ r.busy = {"call"} /\ r.wants = e
  BY <1>1, <1>2 DEF DialogRows, Addresses
<1>6. q \in RequestRows /\ q.path = p /\ q.by = d /\ q.email = e /\ q.state = "sent"
  BY <1>2 DEF RequestRows, Addresses
<1>7. \A c \in calls : c.by = d => c.path # "login"
  <2>1. d # 0
    BY <1>2
  <2>. QED  BY <1>1, <1>2, <2>1, RequestFacts DEF Belongs
<1>. HIDE DEF d, r, q
<1>8. /\ Sound(dialogs', stack, calls, owners) /\ Len(dialogs') = Len(dialogs) /\ dialogs'[d] = r
  <2>1. Sound(dialogs, stack, calls, owners)
    BY DEF SignInv
  <2>2. dialogs[d].kind \in {"login", "signup"}
    BY <1>1, <1>2
  <2>3. /\ Sound([dialogs EXCEPT ![d] = r], stack, calls, owners)
        /\ Len([dialogs EXCEPT ![d] = r]) = Len(dialogs)
        /\ [dialogs EXCEPT ![d] = r][d] = r
    <3>1. stack # <<>> /\ d = stack[Len(stack)]
      BY <1>1, <1>2
    <3>2. r \in DialogRows /\ r.kind = dialogs[d].kind /\ r.result = "open"
      BY <1>5
    <3>. QED  BY <1>7, <2>1, <2>2, <3>1, <3>2, DialogAsks
  <2>. QED  BY <1>4, <2>3
<1>9. RequestFits(q, dialogs', owners)
  BY <1>1, <1>2, <1>5, <1>6, <1>8 DEF RequestFits, Belongs, BringsSession
<1>10. Sound(dialogs', stack, calls \cup {q}, owners)
  BY <1>6, <1>7, <1>8, <1>9, RequestMade
<1>. QED  BY <1>2, <1>3, <1>10, StaysSound

\* The clicks of the other dialogs, but those of a code.
OtherClicks ==
    \/ FindClick \/ ResetRequested \/ ResetBack \/ ResetConsumed
    \/ \E how \in {"signup", "login", "find id", "reset", "rejected"} : Leave(how)

\* The clicks of the other dialogs send nothing of what a sign-in waits for and
\* leave every dialog its own requests.
LEMMA ClickKeeps ==
    ASSUME SignInv, OtherClicks
    PROVE  SignInv'
<1>. DEFINE d == Last(stack)
<1>1. stack # <<>>
  BY DEF OtherClicks, FindClick, ResetRequested, ResetBack, ResetConsumed, Leave, Shown
<1>2. /\ d \in 1 .. Len(dialogs) /\ d = stack[Len(stack)] /\ Top = dialogs[d] /\ Top \in DialogRows
      /\ LetIn(Top, owners)
      /\ screen # "welcome" /\ clicks \in Nat /\ Len(dialogs) \in Nat /\ DOMAIN dialogs = 1 .. Len(dialogs)
  BY <1>1, TopFacts, DialogFacts
<1>. HIDE DEF d
<1>5. d \in Nat
  <2>1. d \in 1 .. Len(dialogs) /\ Len(dialogs) \in Nat
    BY <1>2
  <2>. QED  BY <2>1
<1>6. clicks + 1 \in Nat
  <2>1. clicks \in Nat
    BY <1>2
  <2>. QED  BY <2>1
<1>3. CASE FindClick
  <2>. DEFINE q == [id |-> clicks, by |-> d, path |-> "find", email |-> NoOne, right |-> TRUE,
                    state |-> "sent", token |-> 0]
  <2>1. /\ clicks' = clicks + 1 /\ calls' = calls \cup {q} /\ UNCHANGED <<screen, stack, dialogs, owners>>
        /\ Top.kind = "find id"
    BY <1>3 DEF FindClick, Shown, Send, serverVars, d
  <2>2. q \in RequestRows /\ q.path = "find" /\ q.by = d /\ q.state = "sent"
    <3>1. d \in Nat
      BY <1>5
    <3>2. NoOne \in Addresses
      BY DEF Addresses
    <3>3. clicks \in Nat
      BY <1>2
    <3>. QED  BY <3>1, <3>2, <3>3 DEF RequestRows
  <2>. HIDE DEF q
  <2>3. RequestFits(q, dialogs, owners)
    BY <1>2, <2>1, <2>2 DEF RequestFits, Belongs, BringsSession
  <2>4. Sound(dialogs, stack, calls \cup {q}, owners)
    BY <2>2, <2>3, RequestMade DEF SignInv
  <2>5. Sound(dialogs', stack', calls', owners')
    BY <2>1, <2>4
  <2>6. clicks' \in Nat
    BY <1>6, <2>1
  <2>7. screen' # "welcome"
    BY <1>2, <2>1
  <2>. QED  BY <2>5, <2>6, <2>7, StaysSound
<1>4. CASE ~FindClick
  <2>1. PICK r \in DialogRows :
          /\ dialogs' = [dialogs EXCEPT ![d] = r] /\ UNCHANGED <<screen, stack, calls, clicks, owners>>
          /\ r.kind = Top.kind /\ r.owner = Top.owner /\ r.wants = Top.wants /\ r.busy = Top.busy
          /\ LetIn(r, owners)
    <3>1. CASE ResetRequested
      <4>. DEFINE r == [dialogs[d] EXCEPT !.page = 1]
      <4>1. dialogs' = [dialogs EXCEPT ![d] = r] /\ UNCHANGED <<screen, stack, calls, clicks, owners>>
        BY <1>2, <3>1 DEF ResetRequested, serverVars, d
      <4>2. /\ r \in DialogRows /\ r.kind = Top.kind /\ r.owner = Top.owner /\ r.wants = Top.wants
            /\ r.busy = Top.busy /\ r.result = Top.result /\ r.token = Top.token /\ r.user = Top.user
        BY <1>2 DEF DialogRows
      <4>. HIDE DEF r
      <4>. QED  BY <1>2, <4>1, <4>2 DEF LetIn
    <3>2. CASE ResetBack
      <4>. DEFINE r == [dialogs[d] EXCEPT !.page = 0]
      <4>1. dialogs' = [dialogs EXCEPT ![d] = r] /\ UNCHANGED <<screen, stack, calls, clicks, owners>>
        BY <1>2, <3>2 DEF ResetBack, serverVars, d
      <4>2. /\ r \in DialogRows /\ r.kind = Top.kind /\ r.owner = Top.owner /\ r.wants = Top.wants
            /\ r.busy = Top.busy /\ r.result = Top.result /\ r.token = Top.token /\ r.user = Top.user
        BY <1>2 DEF DialogRows
      <4>. HIDE DEF r
      <4>. QED  BY <1>2, <4>1, <4>2 DEF LetIn
    <3>3. CASE ResetConsumed
      <4>. DEFINE r == [dialogs[d] EXCEPT !.result = "accepted"]
      <4>1. /\ dialogs' = [dialogs EXCEPT ![d] = r] /\ UNCHANGED <<screen, stack, calls, clicks, owners>>
            /\ Top.kind = "reset"
        BY <1>2, <3>3 DEF ResetConsumed, Close, Shown, serverVars, d
      <4>2. /\ r \in DialogRows /\ r.kind = Top.kind /\ r.owner = Top.owner /\ r.wants = Top.wants
            /\ r.busy = Top.busy
        BY <1>2 DEF DialogRows
      <4>. HIDE DEF r
      <4>. QED  BY <1>2, <4>1, <4>2 DEF LetIn
    <3>4. CASE \E how \in {"signup", "login", "find id", "reset", "rejected"} : Leave(how)
      <4>1. PICK how \in {"signup", "login", "find id", "reset", "rejected"} : Leave(how)
        BY <3>4
      <4>. DEFINE r == [dialogs[d] EXCEPT !.result = how]
      <4>2. dialogs' = [dialogs EXCEPT ![d] = r] /\ UNCHANGED <<screen, stack, calls, clicks, owners>>
        BY <1>2, <4>1 DEF Leave, Close, serverVars, d
      <4>3. /\ r \in DialogRows /\ r.kind = Top.kind /\ r.owner = Top.owner /\ r.wants = Top.wants
            /\ r.busy = Top.busy /\ r.result # "accepted"
        <5>1. Top = dialogs[d] /\ dialogs[d] \in DialogRows
                 /\ how \in {"signup", "login", "find id", "reset", "rejected"}
          BY <1>2, <4>1
        <5>2. r \in DialogRows
          BY ONLY <5>1 DEF DialogRows
        <5>3. r.kind = Top.kind /\ r.owner = Top.owner /\ r.wants = Top.wants /\ r.busy = Top.busy
              /\ r.result # "accepted"
          BY ONLY <5>1 DEF DialogRows
        <5>. QED  BY <5>2, <5>3
      <4>. HIDE DEF r
      <4>. QED  BY <1>2, <4>2, <4>3 DEF LetIn
    <3>. QED  BY <1>4, <3>1, <3>2, <3>3, <3>4 DEF OtherClicks
  <2>2. Sound(dialogs', stack, calls, owners)
    BY <1>2, <2>1, DialogChanges
  <2>. QED  BY <1>2, <2>1, <2>2, StaysSound
<1>. QED  BY <1>3, <1>4

\* A code: its boxes, its clock, and the requests it sends for its address.
LEMMA CodeKeeps ==
    ASSUME SignInv, (\E w \in {"right", "wrong"} : Type(w)) \/ VerifyClick \/ ResendClick \/ Ticks
    PROVE  SignInv'
<1>. DEFINE d == Last(stack)
<1>1. stack # <<>> /\ Top.kind = "code"
  BY DEF Type, VerifyClick, ResendClick, Ticks, Shown
<1>2. /\ d \in 1 .. Len(dialogs) /\ d = stack[Len(stack)] /\ Top = dialogs[d] /\ Top \in DialogRows
      /\ LetIn(Top, owners)
      /\ screen # "welcome" /\ clicks \in Nat /\ Len(dialogs) \in Nat /\ DOMAIN dialogs = 1 .. Len(dialogs)
  BY <1>1, TopFacts, DialogFacts
<1>. HIDE DEF d
<1>3. ASSUME NEW r \in DialogRows, dialogs' = [dialogs EXCEPT ![d] = r],
             r.kind = Top.kind, r.owner = Top.owner, r.wants = Top.wants,
             r.result = Top.result, r.token = Top.token, r.user = Top.user
      PROVE  Sound(dialogs', stack, calls, owners) /\ Len(dialogs') = Len(dialogs) /\ dialogs'[d] = r
  <2>1. LetIn(r, owners)
    BY <1>2, <1>3 DEF LetIn
  <2>. QED  BY <1>1, <1>2, <1>3, <2>1, DialogChanges
<1>4. ASSUME NEW r \in DialogRows, Sound(dialogs', stack, calls, owners), Len(dialogs') = Len(dialogs), dialogs'[d] = r,
             r.kind = "code", r.wants = Top.wants, NEW p \in {"verify", "resend"}, NEW right \in BOOLEAN,
             Send(d, p, Top.wants, right)
      PROVE  Sound(dialogs', stack, calls', owners) /\ clicks' \in Nat
  <2>. DEFINE q == [id |-> clicks, by |-> d, path |-> p, email |-> Top.wants, right |-> right,
                    state |-> "sent", token |-> 0]
  <2>1. Top.wants \in Addresses
    BY <1>2 DEF DialogRows
  <2>2. q \in RequestRows /\ q.path = p /\ q.by = d /\ q.state = "sent" /\ q.email = Top.wants
    BY <1>2, <2>1 DEF RequestRows
  <2>3. calls' = calls \cup {q} /\ clicks' = clicks + 1
    BY <1>4 DEF Send
  <2>. HIDE DEF q
  <2>4. RequestFits(q, dialogs', owners)
    BY <1>2, <1>4, <2>2 DEF RequestFits, Belongs, BringsSession
  <2>5. Sound(dialogs', stack, calls \cup {q}, owners)
    BY <1>4, <2>2, <2>4, RequestMade
  <2>. QED  BY <1>2, <2>3, <2>5
<1>5. ASSUME NEW w \in {"right", "wrong"}, Verify(d, w), UNCHANGED <<screen, stack, owners>> PROVE SignInv'
  <2>. DEFINE r == [dialogs[d] EXCEPT !.busy = @ \cup {"call"}, !.boxes = w]
  <2>1. dialogs' = [dialogs EXCEPT ![d] = r] /\ Send(d, "verify", Top.wants, w = "right")
    BY <1>2, <1>5 DEF Verify
  <2>2. /\ r \in DialogRows /\ r.kind = Top.kind /\ r.owner = Top.owner /\ r.wants = Top.wants
        /\ r.result = Top.result /\ r.token = Top.token /\ r.user = Top.user
    <3>1. Top = dialogs[d] /\ dialogs[d] \in DialogRows
             /\ w \in {"right", "wrong"}
      BY <1>2
    <3>2. r \in DialogRows
      BY ONLY <3>1 DEF DialogRows
    <3>3. r.kind = Top.kind /\ r.owner = Top.owner /\ r.wants = Top.wants /\ r.result = Top.result
          /\ r.token = Top.token /\ r.user = Top.user
      BY ONLY <3>1 DEF DialogRows
    <3>. QED  BY <3>2, <3>3
  <2>. HIDE DEF r
  <2>3. Sound(dialogs', stack, calls, owners) /\ Len(dialogs') = Len(dialogs) /\ dialogs'[d] = r
    BY <1>3, <2>1, <2>2
  <2>4. (w = "right") \in BOOLEAN
    OBVIOUS
  <2>5. Sound(dialogs', stack, calls', owners) /\ clicks' \in Nat
    BY <1>1, <1>4, <2>1, <2>2, <2>3, <2>4
  <2>. QED  BY <1>2, <1>5, <2>5, StaysSound
<1>6. CASE \E w \in {"right", "wrong"} : Type(w)
  <2>1. PICK w \in {"right", "wrong"} : Type(w)
    BY <1>6
  <2>2. UNCHANGED <<screen, stack, owners>>
    BY <2>1 DEF Type, serverVars
  <2>3. CASE Verify(d, w)
    BY <1>5, <2>2, <2>3
  <2>4. CASE dialogs' = [dialogs EXCEPT ![d].boxes = w] /\ UNCHANGED <<calls, clicks>>
    <3>. DEFINE r == [dialogs[d] EXCEPT !.boxes = w]
    <3>1. dialogs' = [dialogs EXCEPT ![d] = r]
      BY <1>2, <2>4
    <3>2. /\ r \in DialogRows /\ r.kind = Top.kind /\ r.owner = Top.owner /\ r.wants = Top.wants
          /\ r.result = Top.result /\ r.token = Top.token /\ r.user = Top.user
      <4>1. Top = dialogs[d] /\ dialogs[d] \in DialogRows
               /\ w \in {"right", "wrong"}
        BY <1>2, <2>1
      <4>2. r \in DialogRows
        BY ONLY <4>1 DEF DialogRows
      <4>3. r.kind = Top.kind /\ r.owner = Top.owner /\ r.wants = Top.wants /\ r.result = Top.result
            /\ r.token = Top.token /\ r.user = Top.user
        BY ONLY <4>1 DEF DialogRows
      <4>. QED  BY <4>2, <4>3
    <3>. HIDE DEF r
    <3>3. Sound(dialogs', stack, calls, owners)
      BY <1>3, <3>1, <3>2
    <3>. QED  BY <1>2, <2>2, <2>4, <3>3, StaysSound
  <2>. QED  BY <2>1, <2>3, <2>4 DEF Type, d
<1>7. CASE VerifyClick
  <2>1. PICK w : w = Top.boxes /\ Verify(d, w) /\ UNCHANGED <<screen, stack, owners>> /\ w # "empty"
    BY <1>7 DEF VerifyClick, serverVars, d
  <2>2. w \in {"right", "wrong"}
    BY <1>2, <2>1 DEF DialogRows
  <2>. QED  BY <1>5, <2>1, <2>2
<1>8. CASE ResendClick
  <2>. DEFINE r == [dialogs[d] EXCEPT !.busy = @ \cup {"resend"}, !.resends = @ - 1, !.left = TRUE, !.boxes = "empty"]
  <2>1. /\ dialogs' = [dialogs EXCEPT ![d] = r] /\ Send(d, "resend", Top.wants, TRUE)
        /\ UNCHANGED <<screen, stack, owners>> /\ Top.resends > 0
    BY <1>2, <1>8 DEF ResendClick, serverVars, d
  <2>2. Top.resends - 1 \in Nat
    <3>1. Top.resends \in Nat
      BY <1>2 DEF DialogRows
    <3>. QED  BY <2>1, <3>1
  <2>3. /\ r \in DialogRows /\ r.kind = Top.kind /\ r.owner = Top.owner /\ r.wants = Top.wants
        /\ r.result = Top.result /\ r.token = Top.token /\ r.user = Top.user
    <3>1. Top = dialogs[d] /\ dialogs[d] \in DialogRows /\ Top.resends - 1 \in Nat
      BY <1>2, <2>2
    <3>2. r \in DialogRows
      BY ONLY <3>1 DEF DialogRows
    <3>3. r.kind = Top.kind /\ r.owner = Top.owner /\ r.wants = Top.wants /\ r.result = Top.result
          /\ r.token = Top.token /\ r.user = Top.user
      BY ONLY <3>1 DEF DialogRows
    <3>. QED  BY <3>2, <3>3
  <2>. HIDE DEF r
  <2>4. Sound(dialogs', stack, calls, owners) /\ Len(dialogs') = Len(dialogs) /\ dialogs'[d] = r
    BY <1>3, <2>1, <2>3
  <2>5. Sound(dialogs', stack, calls', owners) /\ clicks' \in Nat
    BY <1>1, <1>4, <2>1, <2>3, <2>4
  <2>. QED  BY <1>2, <2>1, <2>5, StaysSound
<1>9. CASE Ticks
  <2>. DEFINE r == [dialogs[d] EXCEPT !.left = FALSE]
  <2>1. dialogs' = [dialogs EXCEPT ![d] = r] /\ UNCHANGED <<screen, stack, calls, clicks, owners>>
    BY <1>2, <1>9 DEF Ticks, serverVars, d
  <2>2. /\ r \in DialogRows /\ r.kind = Top.kind /\ r.owner = Top.owner /\ r.wants = Top.wants
        /\ r.result = Top.result /\ r.token = Top.token /\ r.user = Top.user
    BY <1>2 DEF DialogRows
  <2>. HIDE DEF r
  <2>3. Sound(dialogs', stack, calls, owners)
    BY <1>3, <2>1, <2>2
  <2>. QED  BY <1>2, <2>1, <2>3, StaysSound
<1>. QED  BY <1>6, <1>7, <1>8, <1>9

\* The server serves a request or refuses it; the session it opens is the asker's.
LEMMA ServedKeeps ==
    ASSUME SignInv, NEW c \in calls, Served(c) \/ Refused(c)
    PROVE  SignInv'
<1>1. /\ c \in RequestRows /\ screen # "welcome" /\ clicks \in Nat
      /\ c.by # 0 => c.by \in 1 .. Len(dialogs) /\ Belongs(c, dialogs[c.by]) /\ BringsSession(c, owners)
  BY RequestFacts
<1>2. Sound(dialogs, stack, calls, owners)
  BY DEF SignInv
<1>3. CASE Served(c)
  <2>. DEFINE e == [c EXCEPT !.state = "ok", !.token = Len(owners')]
  <2>1. UNCHANGED <<screen, stack, dialogs, clicks>>
    BY <1>3 DEF Served, deskOnly
  <2>2. calls' = (calls \ {c}) \cup (IF c.by = 0 THEN {} ELSE {e})
    BY <1>3 DEF Served
  <2>3. /\ Sound(dialogs, stack, calls, owners') /\ Len(owners') \in Nat
        /\ c.path \in {"login", "verify"} => Len(owners') \in 1 .. Len(owners') /\ owners'[Len(owners')] = c.email
    <3>1. CASE c.path \in {"login", "verify"}
      <4>1. owners' = Append(owners, c.email) /\ c.email \in Addresses
        BY <1>1, <1>3, <3>1 DEF Served, RequestRows
      <4>2. /\ Sound(dialogs, stack, calls, owners') /\ Len(owners') = Len(owners) + 1
            /\ Len(owners) \in Nat /\ owners'[Len(owners) + 1] = c.email
        BY <1>2, <4>1, OwnersGrow
      <4>. QED  BY <4>2
    <3>2. CASE c.path \notin {"login", "verify"}
      <4>1. owners' = owners
        BY <1>3, <3>2 DEF Served
      <4>2. Len(owners) \in Nat
        <5>. DEFINE A == Addresses
        <5>1. owners \in Seq(A)
          BY <1>2 DEF Sound
        <5>. HIDE DEF A
        <5>. QED  BY <5>1
      <4>. QED  BY <1>2, <3>2, <4>1, <4>2
    <3>. QED  BY <3>1, <3>2
  <2>4. PICK n \in Nat : n = Len(owners')
    BY <2>3
  <2>5. /\ e \in RequestRows /\ e.path = c.path /\ e.by = c.by /\ e.email = c.email /\ e.token = n
    BY <1>1, <2>4 DEF RequestRows
  <2>. HIDE DEF e
  <2>6. CASE c.by = 0
    <3>1. calls' \subseteq calls
      BY <2>2, <2>6
    <3>2. Sound(dialogs, stack, calls', owners')
      BY <2>3, <3>1, RequestGone
    <3>3. Sound(dialogs', stack', calls', owners') /\ clicks' \in Nat /\ screen' # "welcome"
      BY <1>1, <2>1, <3>2
    <3>. QED  BY <3>3, StaysSound
  <2>7. CASE c.by # 0
    <3>1. RequestFits(e, dialogs, owners')
      BY <1>1, <2>3, <2>4, <2>5, <2>7 DEF RequestFits, Belongs, BringsSession
    <3>2. Sound(dialogs, stack, (calls \ {c}) \cup {e}, owners')
      BY <2>3, <2>5, <3>1, RequestGoesOn
    <3>3. Sound(dialogs', stack', calls', owners') /\ clicks' \in Nat /\ screen' # "welcome"
      BY <1>1, <2>1, <2>2, <2>7, <3>2
    <3>. QED  BY <3>3, StaysSound
  <2>. QED  BY <2>6, <2>7
<1>4. CASE Refused(c)
  <2>. DEFINE e == [c EXCEPT !.state = "refused"]
  <2>1. UNCHANGED <<screen, stack, dialogs, clicks, owners>>
    BY <1>4 DEF Refused, deskOnly, serverVars
  <2>2. calls' = (calls \ {c}) \cup (IF c.by = 0 THEN {} ELSE {e})
    BY <1>4 DEF Refused
  <2>3. /\ e \in RequestRows /\ e.path = c.path /\ e.by = c.by /\ e.email = c.email /\ e.state = "refused"
    BY <1>1 DEF RequestRows
  <2>. HIDE DEF e
  <2>4. CASE c.by = 0
    <3>1. calls' \subseteq calls
      BY <2>2, <2>4
    <3>2. Sound(dialogs, stack, calls', owners)
      BY <1>2, <3>1, RequestGone
    <3>3. Sound(dialogs', stack', calls', owners') /\ clicks' \in Nat /\ screen' # "welcome"
      BY <1>1, <2>1, <3>2
    <3>. QED  BY <3>3, StaysSound
  <2>5. CASE c.by # 0
    <3>1. RequestFits(e, dialogs, owners)
      BY <1>1, <2>3, <2>5 DEF RequestFits, Belongs, BringsSession
    <3>2. Sound(dialogs, stack, (calls \ {c}) \cup {e}, owners)
      BY <1>2, <2>3, <3>1, RequestGoesOn
    <3>3. Sound(dialogs', stack', calls', owners') /\ clicks' \in Nat /\ screen' # "welcome"
      BY <1>1, <2>1, <2>2, <2>5, <3>2
    <3>. QED  BY <3>3, StaysSound
  <2>. QED  BY <2>4, <2>5
<1>. QED  BY <1>3, <1>4

\* A dialog changes as the answer to its request is taken off.
LEMMA AnswerTaken ==
    ASSUME SignInv, NEW c \in calls, c.by # 0, NEW r \in DialogRows, LetIn(r, owners),
           r.kind = dialogs[c.by].kind, r.owner = dialogs[c.by].owner, r.wants = dialogs[c.by].wants
    PROVE  /\ Sound([dialogs EXCEPT ![c.by] = r], stack, calls \ {c}, owners)
           /\ Len([dialogs EXCEPT ![c.by] = r]) = Len(dialogs)
           /\ [dialogs EXCEPT ![c.by] = r][c.by] = r
<1>1. c.by \in 1 .. Len(dialogs) /\ Belongs(c, dialogs[c.by]) /\ c \in RequestRows
  BY RequestFacts
<1>2. Sound(dialogs, stack, calls \ {c}, owners)
  BY RequestGone DEF SignInv
<1>3. CASE r.kind = "login" /\ c.path # "login"
  BY <1>1, <1>3 DEF Belongs, RequestRows
<1>4. CASE ~(r.kind = "login" /\ c.path # "login")
  <2>1. \A e \in calls \ {c} : e.by = c.by => e.path # "login"
    <3>1. ASSUME NEW e \in calls \ {c}, e.by = c.by, e.path = "login" PROVE FALSE
      <4>1. e.by # 0 /\ Belongs(e, dialogs[e.by])
        BY <3>1, RequestFacts
      <4>2. r.kind = "login"
        BY <3>1, <4>1 DEF Belongs
      <4>3. c.path = "login"
        BY <1>4, <4>2
      <4>. QED  BY <3>1, <4>1, <4>3 DEF SignInv, Sound, OneLogin
    <3>. QED  BY <3>1
  <2>2. \A e \in calls \ {c} : e.by = c.by /\ e.path = "login" => "call" \in r.busy
    BY <2>1
  <2>. QED  BY <1>1, <1>2, <2>2, DialogGoesOn
<1>. QED  BY <1>3, <1>4

\* An answer with a session: the dialog is for the address of it.
LEMMA SessionComes ==
    ASSUME SignInv, NEW c \in calls, LoggedIn(c) \/ CodeVerified(c)
    PROVE  SignInv'
<1>. DEFINE d == c.by
            b == IF c.path = "login" THEN {} ELSE dialogs[d].busy \ {"call"}
            r == [dialogs[d] EXCEPT !.busy = b, !.token = c.token, !.user = owners[c.token], !.result = Accepted(d)]
<1>1. /\ c.by # 0 /\ c.state = "ok" /\ c.path \in {"login", "verify"}
      /\ calls' = calls \ {c} /\ UNCHANGED <<screen, stack, clicks, owners>>
  BY DEF LoggedIn, CodeVerified, Answer, serverVars
<1>2. /\ d \in 1 .. Len(dialogs) /\ dialogs[d] \in DialogRows /\ Belongs(c, dialogs[d]) /\ BringsSession(c, owners)
      /\ screen # "welcome" /\ clicks \in Nat /\ c \in RequestRows
      /\ Len(dialogs) \in Nat /\ DOMAIN dialogs = 1 .. Len(dialogs)
  BY <1>1, RequestFacts, DialogFacts
<1>3. c.email = dialogs[d].wants /\ c.token \in 1 .. Len(owners) /\ owners[c.token] = c.email
  BY <1>1, <1>2 DEF Belongs, BringsSession
<1>4. b \in SUBSET {"call", "resend"} /\ c.token \in Nat /\ owners[c.token] \in Addresses
      /\ Accepted(d) \in {"open", "accepted", "rejected", "signup", "login", "find id", "reset"}
  <2>1. dialogs[d].busy \in SUBSET {"call", "resend"} /\ dialogs[d].wants \in Addresses
    BY <1>2 DEF DialogRows
  <2>2. c.token \in Nat
    BY <1>2 DEF RequestRows
  <2>3. Accepted(d) \in {"open", "accepted", "rejected", "signup", "login", "find id", "reset"}
    BY <1>2 DEF Accepted, DialogRows
  <2>. QED  BY <1>3, <2>1, <2>2, <2>3
<1>5. dialogs' = [dialogs EXCEPT ![d] = r]
  BY <1>1, <1>2 DEF LoggedIn, CodeVerified
<1>. HIDE DEF b
<1>6. /\ r \in DialogRows /\ r.kind = dialogs[d].kind /\ r.owner = dialogs[d].owner /\ r.wants = dialogs[d].wants
      /\ r.token = c.token /\ r.user = owners[c.token]
  BY <1>2, <1>4 DEF DialogRows
<1>. HIDE DEF r
<1>7. LetIn(r, owners)
  BY <1>3, <1>6 DEF LetIn
<1>8. Sound(dialogs', stack, calls \ {c}, owners)
  BY <1>1, <1>5, <1>6, <1>7, AnswerTaken
<1>9. Sound(dialogs', stack', calls', owners') /\ clicks' \in Nat /\ screen' # "welcome"
  BY <1>1, <1>2, <1>8
<1>. QED  BY <1>9, StaysSound

\* The account is made: a code for its address comes on top.
LEMMA RegistersKeeps ==
    ASSUME SignInv, NEW c \in calls, Registers(c)
    PROVE  SignInv'
<1>. DEFINE d == c.by
            r == [dialogs[d] EXCEPT !.busy = {}]
            code == NewDialog("code", d, dialogs[d].wants)
<1>1. /\ c.by # 0 /\ calls' = calls \ {c} /\ UNCHANGED <<screen, clicks, owners>>
      /\ stack' = Append(stack, Len(dialogs) + 1)
  BY DEF Registers, Answer, serverVars
<1>2. /\ d \in 1 .. Len(dialogs) /\ dialogs[d] \in DialogRows
      /\ screen # "welcome" /\ clicks \in Nat /\ LetIn(dialogs[d], owners)
      /\ Len(dialogs) \in Nat /\ DOMAIN dialogs = 1 .. Len(dialogs)
  BY <1>1, RequestFacts, DialogFacts
<1>3. PICK one : one = [dialogs EXCEPT ![d] = r] /\ dialogs' = Append(one, code)
  BY <1>2 DEF Registers
<1>4. /\ r \in DialogRows /\ r.kind = dialogs[d].kind /\ r.owner = dialogs[d].owner /\ r.wants = dialogs[d].wants
      /\ r.result = dialogs[d].result /\ r.token = dialogs[d].token /\ r.user = dialogs[d].user
  BY <1>2 DEF DialogRows
<1>5. /\ code \in DialogRows /\ code.kind = "code" /\ code.owner = d /\ code.wants = dialogs[d].wants
      /\ code.result = "open"
  <2>1. dialogs[d].wants \in Addresses
    BY <1>2 DEF DialogRows
  <2>2. d \in Nat
    BY <1>2
  <2>3. NoOne \in Addresses
    BY DEF Addresses
  <2>4. ResendCap \in Nat
    BY SignInAssumption
  <2>. QED  BY <2>1, <2>2, <2>3, <2>4 DEF NewDialog, DialogRows
<1>. HIDE DEF r, code
<1>6. LetIn(r, owners)
  BY <1>2, <1>4 DEF LetIn
<1>7. Sound(one, stack, calls \ {c}, owners) /\ Len(one) = Len(dialogs) /\ one[d] = r
  BY <1>1, <1>3, <1>4, <1>6, AnswerTaken
<1>8. /\ Sound(dialogs', stack, calls \ {c}, owners) /\ Len(dialogs') = Len(dialogs) + 1
      /\ \A i \in 1 .. Len(one) : dialogs'[i] = one[i]
      /\ dialogs'[Len(one) + 1] = code
  BY <1>3, <1>5, <1>7, DialogMade
<1>9. StackFits(stack', dialogs')
  <2>1. StackFits(stack, dialogs') /\ stack \in Seq(Nat) /\ Len(dialogs) + 1 \in Nat
    BY <1>2, <1>8 DEF Sound, StackFits
  <2>2. /\ stack' \in Seq(Nat) /\ Len(stack') = Len(stack) + 1 /\ Len(stack) \in Nat
        /\ \A i \in 1 .. Len(stack) : stack'[i] = stack[i]
        /\ stack'[Len(stack) + 1] = Len(dialogs) + 1
    BY <1>1, <2>1, AppendProperties
  <2>3. ASSUME NEW i \in 1 .. Len(stack')
        PROVE  /\ stack'[i] \in 1 .. Len(dialogs') /\ (i # 1 => dialogs'[stack'[i]].kind = "code")
               /\ CodeFits(dialogs'[stack'[i]], dialogs')
    <3>1. CASE i = Len(stack) + 1
      <4>1. stack'[i] = Len(dialogs) + 1 /\ dialogs'[stack'[i]] = code
        BY <1>7, <1>8, <2>2, <3>1
      <4>2. stack'[i] \in 1 .. Len(dialogs')
        BY <1>2, <1>8, <4>1
      <4>3. d \in 1 .. Len(dialogs') /\ dialogs'[d].wants = code.wants
        BY <1>2, <1>4, <1>5, <1>7, <1>8
      <4>. QED  BY <1>5, <4>1, <4>2, <4>3 DEF CodeFits
    <3>2. CASE i # Len(stack) + 1
      <4>1. i \in 1 .. Len(stack) /\ stack'[i] = stack[i]
        BY <2>2, <3>2
      <4>. QED  BY <2>1, <4>1 DEF StackFits
    <3>. QED  BY <3>1, <3>2
  <2>. QED  BY <2>2, <2>3 DEF StackFits
<1>10. Sound(dialogs', stack', calls', owners') /\ clicks' \in Nat /\ screen' # "welcome"
  BY <1>1, <1>2, <1>8, <1>9 DEF Sound
<1>. QED  BY <1>10, StaysSound

\* The other answers, refusals and losses.
LEMMA OtherAnswersKeep ==
    ASSUME SignInv, NEW c \in calls, Answered(c) \/ RefusedAnswer(c) \/ NoAnswer(c)
    PROVE  SignInv'
<1>. DEFINE d == c.by
<1>1. c.by # 0 /\ UNCHANGED <<screen, stack, clicks, owners>>
  BY DEF Answered, RefusedAnswer, NoAnswer, Answer, serverVars
<1>2. /\ d \in 1 .. Len(dialogs) /\ dialogs[d] \in DialogRows
      /\ screen # "welcome" /\ clicks \in Nat /\ LetIn(dialogs[d], owners) /\ c \in RequestRows
      /\ Len(dialogs) \in Nat /\ DOMAIN dialogs = 1 .. Len(dialogs)
  BY <1>1, RequestFacts, DialogFacts
<1>3. PICK r \in DialogRows :
        /\ dialogs' = [dialogs EXCEPT ![d] = r]
        /\ r.kind = dialogs[d].kind /\ r.owner = dialogs[d].owner /\ r.wants = dialogs[d].wants
        /\ r.result = dialogs[d].result /\ r.token = dialogs[d].token /\ r.user = dialogs[d].user
  <2>1. CASE Answered(c)
    <3>. DEFINE r == [dialogs[d] EXCEPT !.busy = @ \ {"resend"}]
    <3>1. dialogs' = [dialogs EXCEPT ![d] = r]
      BY <1>2, <2>1 DEF Answered
    <3>2. /\ r \in DialogRows
          /\ r.kind = dialogs[d].kind /\ r.owner = dialogs[d].owner /\ r.wants = dialogs[d].wants
          /\ r.result = dialogs[d].result /\ r.token = dialogs[d].token /\ r.user = dialogs[d].user
      BY <1>2 DEF DialogRows
    <3>. HIDE DEF r
    <3>. QED  BY <3>1, <3>2
  <2>2. CASE RefusedAnswer(c) \/ NoAnswer(c)
    <3>. DEFINE b == dialogs[d].busy \ {IF c.path = "resend" THEN "resend" ELSE "call"}
                x == IF c.path = "verify" THEN "empty" ELSE dialogs[d].boxes
                n == IF c.path = "resend" THEN Rollback(dialogs[d].resends) ELSE dialogs[d].resends
                r == [dialogs[d] EXCEPT !.busy = b, !.boxes = x, !.resends = n]
    <3>1. dialogs' = [dialogs EXCEPT ![d] = r]
      BY <1>2, <2>2 DEF RefusedAnswer, NoAnswer, AfterFailure
    <3>2. b \in SUBSET {"call", "resend"} /\ x \in {"empty", "right", "wrong"}
      BY <1>2 DEF DialogRows
    <3>3. n \in Nat
      <4>1. dialogs[d].resends \in Nat /\ ResendCap \in Nat
        BY <1>2, SignInAssumption DEF DialogRows
      <4>. QED  BY <4>1 DEF Rollback
    <3>. HIDE DEF b, x, n
    <3>4. /\ r \in DialogRows
          /\ r.kind = dialogs[d].kind /\ r.owner = dialogs[d].owner /\ r.wants = dialogs[d].wants
          /\ r.result = dialogs[d].result /\ r.token = dialogs[d].token /\ r.user = dialogs[d].user
      BY <1>2, <3>2, <3>3 DEF DialogRows
    <3>. HIDE DEF r
    <3>. QED  BY <3>1, <3>4
  <2>. QED  BY <2>1, <2>2
<1>4. LetIn(r, owners)
  BY <1>2, <1>3 DEF LetIn
<1>5. Sound(dialogs', stack, calls \ {c}, owners)
  BY <1>1, <1>3, <1>4, AnswerTaken
<1>6. Sound(dialogs', stack, calls', owners)
  <2>1. CASE calls' = calls \ {c}
    BY <1>5, <2>1
  <2>2. CASE calls' = (calls \ {c}) \cup {[c EXCEPT !.by = 0]}
    <3>. DEFINE e == [c EXCEPT !.by = 0]
    <3>1. e \in RequestRows /\ e.by = 0
      BY <1>2 DEF RequestRows
    <3>. HIDE DEF e
    <3>2. RequestFits(e, dialogs', owners)
      BY <3>1 DEF RequestFits
    <3>3. Sound(dialogs', stack, (calls \ {c}) \cup {e}, owners)
      BY <1>5, <3>1, <3>2, RequestMade
    <3>. QED  BY <2>2, <3>3 DEF e
  <2>. QED  BY <2>1, <2>2 DEF Answered, RefusedAnswer, NoAnswer, Answer
<1>7. Sound(dialogs', stack', calls', owners') /\ clicks' \in Nat /\ screen' # "welcome"
  BY <1>1, <1>2, <1>6
<1>. QED  BY <1>7, StaysSound

\* No dialog is up.
LEMMA StackEmptied ==
    ASSUME NEW ds, NEW st, NEW cs, NEW os, Sound(ds, st, cs, os)
    PROVE  Sound(ds, <<>>, cs, os)
<1>1. StackFits(<<>>, ds)
  BY DEF StackFits
<1>. QED  BY <1>1 DEF Sound

\* The kinds of the dialogs that the loop shows.
LoopKinds == {"login", "signup", "find id", "reset"}

\* A dialog that is not a code comes up alone.
LEMMA DialogOpened ==
    ASSUME NEW ds, NEW st, NEW cs, NEW os, Sound(ds, st, cs, os),
           NEW k \in LoopKinds
    PROVE  Len(ds) \in Nat /\ Sound(Append(ds, NewDialog(k, 0, NoOne)), <<Len(ds) + 1>>, cs, os)
<1>. DEFINE r == NewDialog(k, 0, NoOne)
<1>1. r \in DialogRows /\ r.result = "open" /\ r.kind # "code"
  <2>1. NoOne \in Addresses
    BY DEF Addresses
  <2>2. ResendCap \in Nat
    BY SignInAssumption
  <2>. QED  BY <2>1, <2>2 DEF NewDialog, DialogRows, LoopKinds
<1>. HIDE DEF r
<1>2. PICK es : es = Append(ds, r)
  OBVIOUS
<1>3. Sound(es, st, cs, os) /\ Len(ds) \in Nat /\ Len(es) = Len(ds) + 1 /\ es[Len(ds) + 1] = r
  BY <1>1, <1>2, DialogMade
<1>4. PICK n \in Nat : n = Len(ds) + 1
  BY <1>3
<1>5. n \in 1 .. Len(es) /\ es[n] = r
  BY <1>3, <1>4
<1>6. StackFits(<<n>>, es)
  <2>1. <<n>> \in Seq(Nat) /\ Len(<<n>>) = 1 /\ <<n>>[1] = n
    BY <1>4
  <2>. QED  BY <1>1, <1>5, <2>1 DEF StackFits, CodeFits
<1>7. Sound(es, <<n>>, cs, os)
  BY <1>3, <1>6 DEF Sound
<1>. QED  BY <1>2, <1>3, <1>4, <1>7 DEF r

\* The loop and the main window open a dialog.
LEMMA OpeningKeeps ==
    ASSUME SignInv, Welcomed \/ Switch \/ LogOut
    PROVE  SignInv'
<1>1. PICK k \in LoopKinds :
        /\ dialogs' = Append(dialogs, NewDialog(k, 0, NoOne)) /\ stack' = <<Len(dialogs) + 1>>
        /\ UNCHANGED <<calls, clicks, owners>> /\ screen' # "welcome"
  <2>1. CASE Welcomed
    <3>1. dialogs = <<>>
      BY <2>1 DEF Welcomed, SignInv
    <3>2. Len(dialogs) + 1 = 1
      BY <3>1
    <3>. QED  BY <2>1, <3>2 DEF LoopKinds, Welcomed, LoginDialog, Open, serverVars
  <2>2. CASE Switch
    <3>1. PICK how \in {"signup", "login", "find id", "reset", "rejected", "accepted"} :
            /\ LoopOn(how) /\ NextDialog(Top.kind, how) # "none"
            /\ Open(NextDialog(Top.kind, how), 0, NoOne) /\ stack' = <<Len(dialogs) + 1>>
            /\ UNCHANGED <<screen, calls, clicks, owners>>
      BY <2>2 DEF Switch, serverVars
    <3>2. NextDialog(Top.kind, how) \in LoopKinds
      BY <3>1 DEF NextDialog, LoopKinds
    <3>. QED  BY <3>1, <3>2 DEF Open, LoopOn
  <2>3. CASE LogOut
    BY <2>3 DEF LoopKinds, LogOut, LoginDialog, Open, serverVars
  <2>. QED  BY <2>1, <2>2, <2>3
<1>2. Sound(dialogs', stack', calls, owners)
  BY <1>1, DialogOpened DEF SignInv
<1>3. Sound(dialogs', stack', calls', owners') /\ clicks' \in Nat
  BY <1>1, <1>2 DEF SignInv
<1>. QED  BY <1>1, <1>3, StaysSound

\* The loop ends, in the main window or without it.
LEMMA LeavingKeeps ==
    ASSUME SignInv,
           NotWelcomed \/ SwitchAborts \/ Collected \/ GivesUp \/ EnterFirst \/ EnterAgain \/ Quit
    PROVE  SignInv'
<1>1. /\ stack' = <<>> /\ UNCHANGED <<dialogs, calls, clicks, owners>> /\ screen' # "welcome"
  BY DEF NotWelcomed, SwitchAborts, Collected, GivesUp, EnterFirst, EnterAgain, Quit, Leaves, serverVars
<1>2. Sound(dialogs, <<>>, calls, owners)
  BY StackEmptied DEF SignInv
<1>3. Sound(dialogs', stack', calls', owners') /\ clicks' \in Nat
  BY <1>1, <1>2 DEF SignInv
<1>. QED  BY <1>1, <1>3, StaysSound

\* A code closes: its signup lets in the one it was for.
LEMMA CodeClosesKeeps ==
    ASSUME SignInv, CodeCloses
    PROVE  SignInv'
<1>1. PICK s : s = dialogs[Last(stack)].owner
  OBVIOUS
<1>2. /\ stack # <<>> /\ Top.kind = "code" /\ Top.result # "open" /\ stack' = Front(stack)
      /\ UNCHANGED <<screen, calls, clicks, owners>>
      /\ dialogs' = IF Top.result # "accepted" THEN dialogs
                    ELSE [dialogs EXCEPT ![s].token = Top.token, ![s].user = Top.user, ![s].result = Accepted(s)]
  BY <1>1 DEF CodeCloses, serverVars
<1>3. /\ Top = dialogs[Last(stack)] /\ Top \in DialogRows /\ LetIn(Top, owners) /\ CodeFits(Top, dialogs)
      /\ screen # "welcome" /\ clicks \in Nat
      /\ Len(dialogs) \in Nat /\ DOMAIN dialogs = 1 .. Len(dialogs)
  BY <1>2, TopFacts, DialogFacts
<1>4. s \in 1 .. Len(dialogs) /\ dialogs[s].wants = Top.wants /\ dialogs[s] \in DialogRows
  <2>1. Top.owner = s
    BY <1>1, <1>3
  <2>2. s \in 1 .. Len(dialogs) /\ dialogs[s].wants = Top.wants
    BY <1>2, <1>3, <2>1 DEF CodeFits
  <2>. QED  BY <2>2, DialogFacts
<1>5. Sound(dialogs', stack, calls, owners)
  <2>1. CASE Top.result # "accepted"
    BY <1>2, <2>1 DEF SignInv
  <2>2. CASE Top.result = "accepted"
    <3>. DEFINE r == [dialogs[s] EXCEPT !.token = Top.token, !.user = Top.user, !.result = Accepted(s)]
    <3>1. dialogs' = [dialogs EXCEPT ![s] = r]
      BY <1>2, <1>3, <1>4, <2>2
    <3>2. Top.token \in 1 .. Len(owners) /\ owners[Top.token] = Top.wants /\ Top.user = Top.wants
      BY <1>2, <1>3, <2>2 DEF LetIn
    <3>3. /\ Top.token \in Nat /\ Top.user \in Addresses
          /\ Accepted(s) \in {"open", "accepted", "rejected", "signup", "login", "find id", "reset"}
      <4>1. Accepted(s) \in {"open", "accepted", "rejected", "signup", "login", "find id", "reset"}
        BY <1>4 DEF Accepted, DialogRows
      <4>2. Top.token \in Nat /\ Top.user \in Addresses
        BY <1>3 DEF DialogRows
      <4>. QED  BY <4>1, <4>2
    <3>4. /\ r \in DialogRows /\ r.kind = dialogs[s].kind /\ r.owner = dialogs[s].owner
          /\ r.wants = dialogs[s].wants /\ r.busy = dialogs[s].busy /\ r.token = Top.token /\ r.user = Top.user
      BY <1>4, <3>3 DEF DialogRows
    <3>. HIDE DEF r
    <3>5. LetIn(r, owners)
      BY <1>4, <3>2, <3>4 DEF LetIn
    <3>6. Sound([dialogs EXCEPT ![s] = r], stack, calls, owners)
      BY <1>4, <3>4, <3>5, DialogChanges
    <3>. QED  BY <3>1, <3>6
  <2>. QED  BY <2>1, <2>2
<1>6. StackFits(stack', dialogs')
  <2>1. StackFits(stack, dialogs') /\ stack \in Seq(Nat)
    BY <1>5 DEF Sound, StackFits
  <2>2. PICK n \in Nat : n = Len(stack) /\ n # 0
    BY <1>2, <2>1, EmptySeq
  <2>3. stack' = SubSeq(stack, 1, n - 1)
    BY <1>2, <2>2 DEF Front
  <2>4. stack' \in Seq(Nat) /\ Len(stack') = n - 1 /\ \A i \in 1 .. n - 1 : stack'[i] = stack[i]
    <3>1. n - 1 \in Nat /\ 1 .. n - 1 \subseteq 1 .. n
      BY <2>2
    <3>2. \A i \in 1 .. n - 1 : stack[i] \in Nat
      BY <2>1, <2>2, <3>1
    <3>. QED  BY <2>1, <2>2, <2>3, <3>1, <3>2, SubSeqProperties
  <2>5. \A i \in 1 .. Len(stack') : i \in 1 .. Len(stack) /\ stack'[i] = stack[i]
    BY <2>2, <2>4
  <2>. QED  BY <2>1, <2>4, <2>5 DEF StackFits
<1>7. Sound(dialogs', stack', calls, owners)
  BY <1>5, <1>6 DEF Sound
<1>8. Sound(dialogs', stack', calls', owners') /\ clicks' \in Nat /\ screen' # "welcome"
  BY <1>2, <1>3, <1>7
<1>. QED  BY <1>8, StaysSound

\* Every step keeps the invariant.
LEMMA SignInStep ==
    ASSUME SignInv, [SignInNext]_signInVars
    PROVE  SignInv'
<1>1. CASE Clicks
  <2>1. CASE \E e \in People : LoginClick(e) \/ SignupClick(e)
    BY <2>1, AskKeeps
  <2>2. CASE OtherClicks
    BY <2>2, ClickKeeps
  <2>3. CASE (\E w \in {"right", "wrong"} : Type(w)) \/ VerifyClick \/ ResendClick \/ Ticks
    BY <2>3, CodeKeeps
  <2>. QED  BY <1>1, <2>1, <2>2, <2>3 DEF Clicks, OtherClicks
<1>2. CASE Answers
  <2>1. PICK c \in calls :
          \/ Served(c) \/ Refused(c)
          \/ LoggedIn(c) \/ Registers(c) \/ CodeVerified(c) \/ Answered(c)
          \/ RefusedAnswer(c) \/ NoAnswer(c)
    BY <1>2 DEF Answers
  <2>2. CASE Served(c) \/ Refused(c)
    BY <2>2, ServedKeeps
  <2>3. CASE LoggedIn(c) \/ CodeVerified(c)
    BY <2>3, SessionComes
  <2>4. CASE Registers(c)
    BY <2>4, RegistersKeeps
  <2>5. CASE Answered(c) \/ RefusedAnswer(c) \/ NoAnswer(c)
    BY <2>5, OtherAnswersKeep
  <2>. QED  BY <2>1, <2>2, <2>3, <2>4, <2>5
<1>3. CASE Loop
  BY <1>3, OpeningKeeps, LeavingKeeps, CodeClosesKeeps DEF Loop
<1>4. CASE MainWindow
  <2>1. CASE LogOut \/ Quit
    BY <2>1, OpeningKeeps, LeavingKeeps
  <2>2. CASE \E what \in loads : Loaded(what) \/ NotLoaded(what)
    <3>1. UNCHANGED <<screen, dialogs, stack, calls, clicks, owners>>
      BY <2>2 DEF Loaded, NotLoaded, serverVars
    <3>. QED  BY <3>1 DEF SignInv
  <2>. QED  BY <1>4, <2>1, <2>2 DEF MainWindow
<1>5. CASE UNCHANGED signInVars
  <2>1. UNCHANGED <<screen, dialogs, stack, calls, clicks, owners>>
    BY <1>5 DEF signInVars
  <2>. QED  BY <2>1 DEF SignInv
<1>. QED  BY <1>1, <1>2, <1>3, <1>4, <1>5 DEF SignInNext

\* Before the program starts there is no dialog and no request, so the
\* invariant has nothing to fail on.
LEMMA SignInStarts ==
    ASSUME SignInInit
    PROVE  SignInv
<1>1. dialogs = <<>> /\ stack = <<>> /\ calls = {} /\ clicks = 0 /\ owners = <<>>
  BY DEF SignInInit
<1>. DEFINE R == DialogRows
            A == Addresses
<1>. HIDE DEF R, A
<1>2. <<>> \in Seq(R) /\ <<>> \in Seq(A) /\ Len(<<>>) = 0 /\ <<>> \in Seq(Nat)
  OBVIOUS
<1>3. StackFits(<<>>, <<>>)
  BY DEF StackFits
<1>4. OneLogin({})
  BY DEF OneLogin
<1>5. Sound(<<>>, <<>>, {}, <<>>)
  BY <1>2, <1>3, <1>4 DEF Sound, R, A
<1>. QED  BY <1>1, <1>5 DEF SignInv

\* The window has a token and a user.
HasWindow == {"token", "user"} \subseteq DOMAIN window

\* A window that was opened with a token and a user keeps both, whatever a
\* logout and a second login put in their place.
LEMMA WindowStep ==
    ASSUME HasWindow, [SignInNext]_signInVars
    PROVE  HasWindow'
<1>1. CASE UNCHANGED window
  BY <1>1 DEF HasWindow
<1>2. CASE EnterFirst
  BY <1>2 DEF EnterFirst, HasWindow
<1>3. CASE EnterAgain
  BY <1>3 DEF EnterAgain, HasWindow
<1>4. CASE LogOut
  BY <1>4 DEF LogOut, HasWindow
<1>5. CASE \E what \in loads : Loaded(what)
  BY <1>5 DEF Loaded, PopulateRooms, HasWindow
<1>6. Clicks => UNCHANGED window
  BY DEF Clicks, LoginClick, SignupClick, FindClick, ResetRequested, ResetBack, ResetConsumed, Leave,
         Type, VerifyClick, ResendClick, Ticks
<1>7. Answers => UNCHANGED window
  BY DEF Answers, Served, Refused, deskOnly, LoggedIn, Registers, CodeVerified, Answered,
         RefusedAnswer, NoAnswer, Answer
<1>8. Loop => UNCHANGED window \/ EnterFirst \/ EnterAgain
  BY DEF Loop, Welcomed, NotWelcomed, CodeCloses, Switch, SwitchAborts, Collected, GivesUp, Leaves
<1>9. MainWindow => UNCHANGED window \/ LogOut \/ \E what \in loads : Loaded(what)
  BY DEF MainWindow, NotLoaded, Quit, Leaves
<1>10. UNCHANGED signInVars => UNCHANGED window
  BY DEF signInVars
<1>. QED  BY <1>1, <1>2, <1>3, <1>4, <1>5, <1>6, <1>7, <1>8, <1>9, <1>10 DEF SignInNext

\* The step that comes to the main window takes the account of the dialog that
\* let in, and that dialog has the session of the address asked for in it.
LEMMA EntersAsAsked ==
    ASSUME SignInv, HasWindow, [SignInNext]_signInVars, screen = "dialogs", screen' = "main"
    PROVE  window'.user = dialogs[Head(stack)].wants /\ owners[window'.token] = dialogs[Head(stack)].wants
<1>1. EnterFirst \/ EnterAgain
  <2>1. ~Clicks
    BY DEF Clicks, LoginClick, SignupClick, FindClick, ResetRequested, ResetBack, ResetConsumed, Leave,
           Type, VerifyClick, ResendClick, Ticks
  <2>2. ~Answers
    BY DEF Answers, Served, Refused, deskOnly, LoggedIn, Registers, CodeVerified, Answered,
           RefusedAnswer, NoAnswer, Answer
  <2>3. Loop => EnterFirst \/ EnterAgain
    BY DEF Loop, Welcomed, NotWelcomed, CodeCloses, Switch, SwitchAborts, Collected, GivesUp, Leaves
  <2>4. ~MainWindow
    BY DEF MainWindow, Loaded, NotLoaded, LogOut, Quit, Leaves
  <2>5. ~UNCHANGED signInVars
    BY DEF signInVars
  <2>. QED  BY <2>1, <2>2, <2>3, <2>4, <2>5 DEF SignInNext
<1>2. /\ Len(stack) = 1 /\ Top.result = "accepted" /\ Top.kind \in {"login", "signup"}
      /\ window'.token = Top.token /\ window'.user = Top.user
  <2>1. CASE EnterFirst
    BY <2>1 DEF EnterFirst, LoopOn
  <2>2. CASE EnterAgain
    BY <2>2 DEF EnterAgain, LoopOn, HasWindow
  <2>. QED  BY <1>1, <2>1, <2>2
<1>3. stack # <<>>
  <2>1. Len(stack) = 1
    BY <1>2
  <2>. QED  BY <2>1
<1>4. /\ Last(stack) = stack[Len(stack)] /\ Top = dialogs[Last(stack)] /\ LetIn(Top, owners)
      /\ stack \in Seq(Nat)
  BY <1>3, TopFacts
<1>5. Head(stack) = Last(stack)
  BY <1>2, <1>3, <1>4
<1>6. owners[Top.token] = Top.wants /\ Top.user = Top.wants
  BY <1>2, <1>4 DEF LetIn
<1>. QED  BY <1>2, <1>4, <1>5, <1>6

\* Whoever comes to the main window is signed in as the account whose address
\* was given in the dialog that let them in, however late the answers and the
\* codes of other attempts come (login_dialog.py:205, signup_dialog.py:191).
THEOREM AsAsked == SignInSpec => SignedInAsAsked
<1>1. SignInInit => SignInv /\ HasWindow
  BY SignInStarts DEF SignInInit, HasWindow
<1>2. SignInv /\ HasWindow /\ [SignInNext]_signInVars => SignInv' /\ HasWindow'
  BY SignInStep, WindowStep
<1>3. SignInv /\ HasWindow /\ [SignInNext]_signInVars =>
         [screen = "dialogs" /\ screen' = "main" =>
            LET asked == dialogs[Head(stack)].wants
            IN  window'.user = asked /\ owners[window'.token] = asked]_signInVars
  BY EntersAsAsked
<1>. QED  BY <1>1, <1>2, <1>3, PTL DEF SignInSpec, SignedInAsAsked

-----------------------------------------------------------------------------
(* Both of them. *)

\* The server and the desktop that MC_Accounts runs side by side each behave as
\* their own module says: what is proved of one holds of the run.
THEOREM AccountsPartsGoOn == AccountsSpec => Spec /\ SignInSpec
<1>1. AccountsInit => Init /\ SignInInit
  BY DEF AccountsInit
<1>2. ASSUME [AccountsNext]_accountParts
      PROVE  [Next]_vars /\ [SignInNext]_signInVars
  <2>1. CASE UNCHANGED accountParts
    BY <2>1 DEF accountParts
  <2>2. CASE AccountsNext
    BY <2>2 DEF AccountsNext
  <2>. QED  BY <1>2, <2>1, <2>2
<1>. QED  BY <1>1, <1>2, PTL DEF AccountsSpec, Spec, SignInSpec

===============================================================================
