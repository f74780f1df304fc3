------------------------------ MODULE BotService ------------------------------
(***************************************************************************)
(* POST /api/bot/chat: the rate gate of each user, the call of the model   *)
(* with its retries, and the exchange stored in the bot's room.  Requests  *)
(* of one user run side by side; an action is the code between two awaits. *)
(* Texts are the number of the exchange they belong to.                    *)
(***************************************************************************)
EXTENDS Naturals, Sequences, FiniteSets, SequencesExt

CONSTANTS BotUsers,
          Slots,         \* requests that may be served at once (bound)
          Rate,          \* rate_per_minute
          Minute,        \* _SECONDS_PER_MINUTE
          MaxRetries,    \* max_retries of the client
          MaxSeconds,    \* the clock (bound)
          MaxExchanges   \* requests that pass the gate (bound)

ASSUME BotAssumption ==
    /\ {Rate, Minute} \subseteq Nat \ {0}
    /\ {MaxRetries, MaxSeconds, MaxExchanges} \subseteq Nat

VARIABLES
    seconds,    \* time.time()
    buckets,    \* RateLimitGate._buckets: times of the last calls of a user
    exchanges,  \* requests the gate has let through (ghost)
    serving,    \* the request of each slot: [at, user, n, tries, asks]
    botRoom,    \* users whose room bot-<id> exists
    history,    \* messages of that room: [by, n]
    told        \* the responses 200: [n, question, reply], has the message an id

botVars == <<seconds, buckets, exchanges, serving, botRoom, history, told>>
storeVars == <<botRoom, history, told>>
gateVars == <<seconds, buckets, exchanges>>

\* RateLimitGate: a bucket is what is left of the calls of a user.
RateLimitGate == [BotUsers -> {b \in Seq(0..MaxSeconds) : Len(b) <= Rate}]

NoRequest == [at |-> "none", user |-> 0, n |-> 0, tries |-> 0, asks |-> FALSE]
Exchanges == 1..MaxExchanges
AtStep(s, at) == [serving EXCEPT ![s].at = at]

-----------------------------------------------------------------------------
(* The gate.                                                               *)

\* What allow() leaves of a bucket: calls of the last Minute, both ends included.
Active(u) == SelectSeq(buckets[u], LAMBDA t : t + Minute >= seconds)

Allowed(u) == Len(Active(u)) < Rate

\* A request arrives; the gate is asked before anything is read of it.
Arrive(s, u) ==
    /\ serving[s] = NoRequest
    /\ exchanges < MaxExchanges
    /\ IF Allowed(u)
       THEN /\ buckets' = [buckets EXCEPT ![u] = Append(Active(u), seconds)]
            /\ exchanges' = exchanges + 1
            /\ serving' = [serving EXCEPT ![s] = [at |-> "body", user |-> u, n |-> exchanges',
                                                  tries |-> 0, asks |-> FALSE]]
       ELSE /\ buckets' = [buckets EXCEPT ![u] = Active(u)]
            /\ UNCHANGED <<exchanges, serving>>
    /\ UNCHANGED <<seconds, storeVars>>

Tick ==
    /\ seconds < MaxSeconds
    /\ seconds' = seconds + 1
    /\ UNCHANGED <<buckets, exchanges, serving, storeVars>>

-----------------------------------------------------------------------------
(* The body, the scan and the model.                                       *)

\* _parse_messages and _scan_jailbreak refuse the body (400), or the list is
\* taken, whether or not the user has the last word in it.
BodyArrives(s) ==
    /\ serving[s].at = "body"
    /\ \/ serving' = [serving EXCEPT ![s] = NoRequest]
       \/ serving' = AtStep(s, "reporting")
       \/ \E asks \in BOOLEAN : serving' = [serving EXCEPT ![s].at = "asking", ![s].asks = asks]
    /\ UNCHANGED <<gateVars, storeVars>>

\* A blocked message is filed as a ticket for a person, then answered with 400.
Reported(s) ==
    /\ serving[s].at = "reporting"
    /\ serving' = [serving EXCEPT ![s] = NoRequest]
    /\ UNCHANGED <<gateVars, storeVars>>

\* chat(): 429, 5xx or a lost connection is tried again after a pause until the
\* retries are used up.
MayRetry(s) == serving[s].tries < MaxRetries

Retry(s) ==
    /\ serving[s].at = "asking" /\ MayRetry(s)
    /\ serving' = AtStep(s, "pause")
    /\ UNCHANGED <<gateVars, storeVars>>

AskAgain(s) ==
    /\ serving[s].at = "pause"
    /\ serving' = [serving EXCEPT ![s].at = "asking", ![s].tries = @ + 1]
    /\ UNCHANGED <<gateVars, storeVars>>

\* Any other status, an answer of another form, or the last failure: 5xx.
ModelFails(s) ==
    /\ serving[s].at = "asking"
    /\ serving' = [serving EXCEPT ![s] = NoRequest]
    /\ UNCHANGED <<gateVars, storeVars>>

ModelAnswers(s) ==
    /\ serving[s].at = "asking"
    /\ serving' = AtStep(s, "lookup")
    /\ UNCHANGED <<gateVars, storeVars>>

-----------------------------------------------------------------------------
(* Storing the exchange.  A statement that fails ends the storing and is   *)
(* not reported: the response carries the ids there are by then.           *)

\* Mutant of FirstWrite: the reply is stored first, its question next to it.
WriteReplyFirst(s) == "reply"

FirstWrite(s) == IF serving[s].asks THEN "question" ELSE "reply"

\* find_or_create_bot_room: a select, and an insert on the unique room_code.
LookUpRoom(s) ==
    /\ serving[s].at = "lookup"
    /\ serving' = AtStep(s, IF serving[s].user \in botRoom THEN FirstWrite(s) ELSE "create")
    /\ UNCHANGED <<gateVars, storeVars>>

CreateRoom(s) ==
    /\ serving[s].at = "create" /\ serving[s].user \notin botRoom
    /\ botRoom' = botRoom \cup {serving[s].user}
    /\ serving' = AtStep(s, FirstWrite(s))
    /\ UNCHANGED <<gateVars, history, told>>

Write(s, by) == history' = [history EXCEPT ![serving[s].user] = Append(@, [by |-> by, n |-> serving[s].n])]

SaveQuestion(s) ==
    /\ serving[s].at = "question"
    /\ Write(s, "user")
    /\ serving' = AtStep(s, "reply")
    /\ UNCHANGED <<gateVars, botRoom, told>>

Respond(s, question, reply) ==
    /\ told' = told \cup {[n |-> serving[s].n, question |-> question, reply |-> reply]}
    /\ serving' = [serving EXCEPT ![s] = NoRequest]

SaveReply(s) ==
    /\ serving[s].at = "reply"
    /\ Write(s, "bot")
    /\ Respond(s, serving[s].asks, TRUE)
    /\ UNCHANGED <<gateVars, botRoom>>

\* The insert of a room that another request has made fails for certain.
SaveFails(s) ==
    /\ serving[s].at \in {"lookup", "create", "question", "reply"}
    /\ Respond(s, serving[s].at = "reply" /\ serving[s].asks, FALSE)
    /\ UNCHANGED <<gateVars, botRoom, history>>

-----------------------------------------------------------------------------

BotInit ==
    /\ seconds = 0
    /\ buckets = [u \in BotUsers |-> <<>>] /\ exchanges = 0
    /\ serving = [s \in Slots |-> NoRequest]
    /\ botRoom = {} /\ history = [u \in BotUsers |-> <<>>] /\ told = {}

Serve(s) ==
    \/ BodyArrives(s) \/ Reported(s)
    \/ Retry(s) \/ AskAgain(s) \/ ModelFails(s) \/ ModelAnswers(s)
    \/ LookUpRoom(s) \/ CreateRoom(s) \/ SaveQuestion(s) \/ SaveReply(s) \/ SaveFails(s)

BotNext ==
    \/ Tick
    \/ \E s \in Slots : Serve(s) \/ \E u \in BotUsers : Arrive(s, u)

BotSpec == BotInit /\ [][BotNext]_botVars

-----------------------------------------------------------------------------
(* Properties.                                                             *)

BotTypeOK ==
    /\ seconds \in 0..MaxSeconds
    /\ buckets \in RateLimitGate
    /\ \A s \in Slots : serving[s] # NoRequest =>
         /\ serving[s].user \in BotUsers /\ serving[s].n \in Exchanges
         /\ serving[s].tries \in 0..MaxRetries
    /\ botRoom \subseteq BotUsers

(* The room of the bot is a conversation: a stored reply stands behind its  *)
(* question, a reply without a question is one to a list in which the user  *)
(* does not speak, and a message whose id was sent is stored (handle_bot_chat, *)
(* which runs several times for one user and room at once).                *)
ExchangesInOrder ==
    \A u \in BotUsers : \A i \in DOMAIN history[u] :
        history[u][i].by = "bot" =>
            /\ \A j \in DOMAIN history[u] :
                 history[u][j] = [by |-> "user", n |-> history[u][i].n] => j < i
            /\ \A t \in told : t.n = history[u][i].n /\ t.question =>
                 \E j \in DOMAIN history[u] : history[u][j] = [by |-> "user", n |-> t.n]

=============================================================================
