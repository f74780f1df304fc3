------------------------------ MODULE Escalations ------------------------------
(***************************************************************************)
(* Tickets for a person: the queue in memory (EscalationQueue) and the     *)
(* table bot_escalations (repository).  Both keep the same rules, one in   *)
(* methods that raise, the other in the WHERE clauses of its statements;   *)
(* here every operation goes to both.  Reasons and texts are left out.     *)
(***************************************************************************)
EXTENDS Naturals, Sequences

CONSTANTS Agents,
          MaxTickets,    \* tickets (bound)
          Retention,     \* retention_ms
          MaxNow         \* the clock (bound)

ASSUME EscalationAssumption == {MaxTickets, Retention, MaxNow} \subseteq Nat /\ Retention > 0

VARIABLES
    now,
    queue,      \* EscalationQueue._tickets by id; Evicted once deleted
    rows,       \* the rows of bot_escalations by id
    changed     \* when the status of each ticket changed last (ghost)

ticketVars == <<now, queue, rows, changed>>

NoAgent == "no agent"
Evicted == [status |-> "evicted", agent |-> NoAgent, at |-> 0]
New == [status |-> "pending", agent |-> NoAgent, at |-> 0]     \* at 0: resolved_at is NULL
Terminal == {"resolved", "closed"}

-----------------------------------------------------------------------------
(* The methods of the queue: what a ticket becomes, itself if they raise.  *)

\* A ticket with the status it has from now on.
Became(status, agent, at) == [status |-> status, agent |-> agent, at |-> at]

AssignTicket(t, agent) == IF t.status # "pending" THEN t ELSE Became("assigned", agent, t.at)
ResolveTicket(t, at) == IF t.status # "assigned" THEN t ELSE Became("resolved", t.agent, at)
CloseTicket(t, at) == IF t.status \in {"closed", "evicted"} THEN t ELSE Became("closed", t.agent, at)
IsOld(t, cutoff) == t.status \in Terminal /\ t.at # 0 /\ t.at < cutoff
EvictTickets(q, cutoff) == [i \in DOMAIN q |-> IF IsOld(q[i], cutoff) THEN Evicted ELSE q[i]]

-----------------------------------------------------------------------------
(* The statements of the repository, on the whole table.                   *)

AssignRow(id, agent) ==
    [i \in DOMAIN rows |-> IF i = id /\ rows[i].status = "pending"
                           THEN Became("assigned", agent, rows[i].at) ELSE rows[i]]
ResolveRow(id, at) ==
    [i \in DOMAIN rows |-> IF i = id /\ rows[i].status = "assigned"
                           THEN Became("resolved", rows[i].agent, at) ELSE rows[i]]
CloseRow(id, at) ==
    [i \in DOMAIN rows |-> IF i = id /\ rows[i].status \notin {"closed", "evicted"}
                           THEN Became("closed", rows[i].agent, at) ELSE rows[i]]
DeleteOld(cutoff) ==
    [i \in DOMAIN rows |-> IF rows[i].status \in Terminal /\ rows[i].at # 0 /\ rows[i].at < cutoff
                           THEN Evicted ELSE rows[i]]

-----------------------------------------------------------------------------

\* changed is when a row got the status it has.
Stamp == changed' = [i \in DOMAIN rows' |->
            IF i \in DOMAIN rows /\ rows[i].status = rows'[i].status THEN changed[i] ELSE now]

Enqueue ==
    /\ Len(rows) < MaxTickets
    /\ queue' = Append(queue, New)
    /\ rows' = Append(rows, New)
    /\ Stamp /\ UNCHANGED now

Assign(id, agent) ==
    /\ queue' = [queue EXCEPT ![id] = AssignTicket(@, agent)]
    /\ rows' = AssignRow(id, agent)
    /\ Stamp /\ UNCHANGED now

Resolve(id) ==
    /\ queue' = [queue EXCEPT ![id] = ResolveTicket(@, now)]
    /\ rows' = ResolveRow(id, now)
    /\ Stamp /\ UNCHANGED now

Close(id) ==
    /\ queue' = [queue EXCEPT ![id] = CloseTicket(@, now)]
    /\ rows' = CloseRow(id, now)
    /\ Stamp /\ UNCHANGED now

\* Mutant of EvictOld: what ended exactly the retention ago goes too.
EvictAtRetention ==
    /\ now > Retention
    /\ queue' = EvictTickets(queue, now - Retention + 1)
    /\ rows' = DeleteOld(now - Retention + 1)
    /\ Stamp /\ UNCHANGED now

EvictOld ==
    /\ now > Retention
    /\ queue' = EvictTickets(queue, now - Retention)
    /\ rows' = DeleteOld(now - Retention)
    /\ Stamp /\ UNCHANGED now

Wait == now < MaxNow /\ now' = now + 1 /\ UNCHANGED <<queue, rows, changed>>

TicketInit == now = 1 /\ queue = <<>> /\ rows = <<>> /\ changed = <<>>

TicketNext ==
    \/ Enqueue \/ EvictOld \/ Wait
    \/ \E id \in DOMAIN rows : Resolve(id) \/ Close(id) \/ \E agent \in Agents : Assign(id, agent)

TicketSpec == TicketInit /\ [][TicketNext]_ticketVars

-----------------------------------------------------------------------------
(* Properties.                                                             *)

Rank(status) == CASE status = "pending" -> 0 [] status = "assigned" -> 1
                  [] status = "resolved" -> 2 [] status = "closed" -> 3 [] status = "evicted" -> 4

(* A ticket only moves on, stays with the agent who took it, and is deleted *)
(* only when nothing has happened to it for longer than the retention: a   *)
(* ticket closed late is kept from then, not from its resolution.          *)
TicketsMoveOn ==
    [][\A i \in DOMAIN rows :
         LET was == rows[i]  is == rows'[i]
         IN  /\ Rank(was.status) <= Rank(is.status)
             /\ was.agent # NoAgent => is.agent = was.agent \/ is = Evicted
             /\ is = Evicted => was = Evicted \/ changed[i] + Retention < now]_ticketVars

=============================================================================
