---------------------------- MODULE Remediation ----------------------------
(***************************************************************************)
(* Remediation proposals: an agent proposes an Action Center command, one  *)
(* or several operators decide on it from the console or from a chat card, *)
(* an approval runs the command inside the deciding transaction, and a     *)
(* later task reads the target back (services/operations/remediation*.py,  *)
(* services/notifications/feishu_actions.py).                              *)
(*                                                                         *)
(* Most commands commit the session they are given, which ends the         *)
(* decider's row lock while the proposal is still pending.                 *)
(***************************************************************************)
EXTENDS Naturals, FiniteSets

CONSTANTS
    Proposals,     \* bound: rows of remediation_proposals, 1 .. n
    Proposers,     \* agents
    Deciders,      \* requests and callbacks being handled
    Presses,       \* [event id -> [proposal, approve]]   presses of card buttons
    Actions,       \* the commands proposed
    MaxPending,    \* MAX_PENDING_PROPOSALS
    TTL,           \* ttl_hours, in ticks
    MaxFaults,     \* bound: crashes, and tasks and cards that could not be queued
    None

VARIABLES
    proposal,    \* [Proposals -> Row]
    proposer,    \* [Proposers -> the action it found nothing against, or None]
    decider,     \* [Deciders -> Decider]
    receipt,     \* [event ids -> status]   committed integration_action_receipts
    readback,    \* set of proposals whose readback is scheduled
    runs,        \* [Proposals -> Nat]   history: how often the command took effect
    died,        \* [Proposals -> Nat]   history: deciders that died on it
    decisions,   \* [event ids -> Nat]   history: decisions made for one press
    faults

vars == <<proposal, proposer, decider, receipt, readback, runs, died, decisions, faults>>

CardEvents == DOMAIN Presses

\* What the constants are: the code has a command to propose, a lifetime of
\* proposals and presses on the cards of proposals; None is nothing of it.
Sane ==
    /\ Actions # {} /\ TTL \in Nat /\ MaxFaults \in Nat
    /\ None \notin Proposals /\ None \notin CardEvents
    /\ \A v \in CardEvents : Presses[v].proposal \in Proposals /\ Presses[v].approve \in BOOLEAN

Row == [status : {"none", "pending", "approved", "rejected", "expired", "failed"}, action : Actions,
        left : 0 .. TTL, verify : {"", "scheduled", "verified", "unrecovered", "unverifiable"}]

Decider == [pc : {"idle", "run", "finish"}, prop : Proposals \cup {None}, event : CardEvents \cup {None},
            locked : BOOLEAN, ok : BOOLEAN, changed : BOOLEAN]

Idle == [pc |-> "idle", prop |-> None, event |-> None, locked |-> FALSE, ok |-> TRUE, changed |-> FALSE]

\* run_remediation: only retry_outbox works in a session of its own; replays,
\* summaries, rules and acknowledgements commit the caller's.
CommitsInside(a) == a # "retry_outbox"

\* The columns of the partial unique index are all set for an acknowledgement
\* only: NULLs are distinct to it.
Indexed(a) == a = "acknowledge"

Pending == {p \in Proposals : proposal[p].status = "pending"}
Unused == {p \in Proposals : proposal[p].status = "none"}

\* The row lock of decide_proposal, and the receipt another handler has
\* flushed and not committed.
LockFree(p, d) == \A e \in Deciders \ {d} : ~(decider[e].prop = p /\ decider[e].locked)
ReceiptFree(v, d) == \A e \in Deciders \ {d} : ~(decider[e].event = v /\ decider[e].locked)

Init ==
    /\ proposal = [p \in Proposals |-> [status |-> "none", action |-> CHOOSE a \in Actions : TRUE,
                                        left |-> 0, verify |-> ""]]
    /\ proposer = [a \in Proposers |-> None]
    /\ decider = [d \in Deciders |-> Idle]
    /\ receipt = [v \in CardEvents |-> "none"]
    /\ readback = {}
    /\ runs = [p \in Proposals |-> 0] /\ died = [p \in Proposals |-> 0]
    /\ decisions = [v \in CardEvents |-> 0]
    /\ faults = 0

Fault == faults < MaxFaults /\ faults' = faults + 1

-----------------------------------------------------------------------------
(* propose_remediation *)

\* The two queries: the ceiling, and an identical proposal.
Review(x, a) ==
    /\ proposer[x] = None
    /\ Cardinality(Pending) < MaxPending
    /\ \A p \in Pending : proposal[p].action # a
    /\ proposer' = [proposer EXCEPT ![x] = a]
    /\ UNCHANGED <<proposal, decider, receipt, readback, runs, died, decisions, faults>>

\* The insert and its commit: refused by the index if an indexed twin was
\* committed since.  The card is queued in a savepoint, whatever comes of it.
Propose(x) ==
    LET a == proposer[x]
    IN  /\ a # None
        /\ proposer' = [proposer EXCEPT ![x] = None]
        /\ IF Indexed(a) /\ \E p \in Pending : proposal[p].action = a
           THEN UNCHANGED proposal
           ELSE \E p \in Unused :
                   /\ \A q \in Unused : p <= q
                   /\ proposal' = [proposal EXCEPT ![p] = [status |-> "pending", action |-> a,
                                                           left |-> TTL, verify |-> ""]]
        /\ UNCHANGED <<decider, receipt, readback, runs, died, decisions, faults>>

-----------------------------------------------------------------------------
(* decide_proposal *)

\* Settle the proposal without running anything, and answer the press.
Settle(d, p, v, status) ==
    /\ proposal' = [proposal EXCEPT ![p].status = status]
    /\ receipt' = IF v = None THEN receipt ELSE [receipt EXCEPT ![v] = "completed"]
    /\ UNCHANGED decider

\* The row is locked and read; the branches up to the run of the command.  v
\* is the press it comes from, None from the console.
Decide(d, p, approve, v) ==
    /\ decider[d].pc = "idle" /\ proposal[p].status # "none"
    /\ LockFree(p, d)
    /\ \/ /\ proposal[p].status # "pending" /\ v # None
          /\ receipt' = [receipt EXCEPT ![v] = "rejected"]
          /\ UNCHANGED <<proposal, decider>>
       \/ /\ proposal[p].status = "pending" /\ proposal[p].left = 0
          /\ Settle(d, p, v, "expired")
       \/ /\ proposal[p].status = "pending" /\ proposal[p].left > 0 /\ ~approve
          /\ Settle(d, p, v, "rejected")
       \/ /\ proposal[p].status = "pending" /\ proposal[p].left > 0 /\ approve
          /\ decider' = [decider EXCEPT ![d] = [Idle EXCEPT !.pc = "run", !.prop = p, !.event = v, !.locked = TRUE]]
          /\ UNCHANGED <<proposal, receipt>>
    /\ UNCHANGED <<proposer, readback, runs, died, faults>>

\* decide_remediation_proposal_endpoint: a person at the console.
DecideAtConsole(d, p, approve) ==
    Decide(d, p, approve, None) /\ UNCHANGED decisions

\* process_proposal_card_action: a press, or the same press delivered again;
\* a receipt that is already there answers it, one being written is waited for.
DecideByCard(d, v) ==
    /\ receipt[v] = "none" /\ ReceiptFree(v, d)
    /\ Decide(d, Presses[v].proposal, Presses[v].approve, v)
    /\ decisions' = [decisions EXCEPT ![v] = @ + 1]

\* Whether the command has committed by the time it returns or raises: a replay
\* and a retry of summaries commit also when there was nothing to do, the others
\* only a change; what raises may do so before its commit.
CommitsAnyway(a) == a \in {"retry_dead_letters", "retry_stuck_events", "retry_incident_summaries"}

Committed(a, effect, raises) ==
    IF ~CommitsInside(a) THEN {FALSE}
    ELSE {effect \/ CommitsAnyway(a)} \cup (IF raises THEN {FALSE} ELSE {})

\* run_remediation: the command takes effect, finds nothing to change, or
\* raises.  Its commit writes the receipt out and ends the row lock.
Run(d) ==
    LET p == decider[d].prop
    IN  /\ decider[d].pc = "run"
        /\ \E effect \in BOOLEAN, raises \in BOOLEAN :
              \E commits \in Committed(proposal[p].action, effect, raises) :
                 /\ decider' = [decider EXCEPT ![d] = [@ EXCEPT !.pc = "finish", !.ok = ~raises,
                                                    !.changed = effect /\ ~raises, !.locked = ~commits]]
                 /\ runs' = [runs EXCEPT ![p] = IF effect THEN @ + 1 ELSE @]
                 /\ receipt' = IF commits /\ decider[d].event # None
                               THEN [receipt EXCEPT ![decider[d].event] = "processing"] ELSE receipt
        /\ UNCHANGED <<proposal, proposer, readback, died, decisions, faults>>

FinishIfPending(d) ==
    LET p == decider[d].prop
    IN  /\ decider[d].pc = "finish" /\ LockFree(p, d)
        /\ proposal' = [proposal EXCEPT ![p].status = IF @ # "pending" THEN @ ELSE IF decider[d].ok THEN "approved" ELSE "failed"]
        /\ receipt' = IF decider[d].event = None THEN receipt ELSE [receipt EXCEPT ![decider[d].event] = "completed"]
        /\ decider' = [decider EXCEPT ![d] = Idle]
        /\ UNCHANGED <<proposer, readback, runs, died, decisions, faults>>

\* The outcome is written over whatever the row says by now; a change is to
\* be read back, and the task is scheduled after the commit, if it can be.
Finish(d) ==
    LET p == decider[d].prop
    IN  /\ decider[d].pc = "finish" /\ LockFree(p, d)
        /\ proposal' = [proposal EXCEPT ![p].status = IF decider[d].ok THEN "approved" ELSE "failed",
                                        ![p].verify = IF decider[d].changed THEN "scheduled" ELSE @]
        /\ receipt' = IF decider[d].event = None THEN receipt ELSE [receipt EXCEPT ![decider[d].event] = "completed"]
        /\ decider' = [decider EXCEPT ![d] = Idle]
        /\ \/ readback' = (IF decider[d].changed THEN readback \cup {p} ELSE readback) /\ UNCHANGED faults
           \/ decider[d].changed /\ Fault /\ UNCHANGED readback
        /\ UNCHANGED <<proposer, runs, died, decisions>>

\* verify_remediation: the same target is read back, and the verdict recorded.
VerifyRemediation(p) ==
    /\ p \in readback
    /\ readback' = readback \ {p}
    /\ \E verdict \in {"verified", "unrecovered", "unverifiable"} :
          proposal' = [proposal EXCEPT ![p].verify = verdict]
    /\ UNCHANGED <<proposer, decider, receipt, runs, died, decisions, faults>>

\* The process dies while it decides: what it has not committed is undone,
\* what the command has committed stays.
Die(d) ==
    /\ decider[d].pc # "idle" /\ Fault
    /\ died' = [died EXCEPT ![decider[d].prop] = @ + 1]
    /\ decider' = [decider EXCEPT ![d] = Idle]
    /\ UNCHANGED <<proposal, proposer, receipt, readback, runs, decisions>>

Tick ==
    /\ \E p \in Pending : proposal[p].left > 0
    /\ proposal' = [p \in Proposals |-> IF p \in Pending /\ proposal[p].left > 0
                                        THEN [proposal[p] EXCEPT !.left = @ - 1] ELSE proposal[p]]
    /\ UNCHANGED <<proposer, decider, receipt, readback, runs, died, decisions, faults>>

Next ==
    \/ \E x \in Proposers : Propose(x) \/ \E a \in Actions : Review(x, a)
    \/ \E d \in Deciders :
          \/ \E p \in Proposals, approve \in BOOLEAN : DecideAtConsole(d, p, approve)
          \/ \E v \in CardEvents : DecideByCard(d, v)
          \/ Run(d) \/ Finish(d) \/ Die(d)
    \/ \E p \in Proposals : VerifyRemediation(p)
    \/ Tick

Spec == Init /\ [][Next]_vars

-----------------------------------------------------------------------------
TypeOK ==
    /\ proposal \in [Proposals -> Row]
    /\ proposer \in [Proposers -> Actions \cup {None}]
    /\ decider \in [Deciders -> Decider]
    /\ receipt \in [CardEvents -> {"none", "processing", "completed", "rejected"}]
    /\ readback \subseteq Proposals
    /\ runs \in [Proposals -> Nat] /\ died \in [Proposals -> Nat]
    /\ decisions \in [CardEvents -> Nat]
    /\ faults \in 0 .. MaxFaults

\* Once nobody is deciding on it, a command that took effect is on record as
\* approved or failed, never as rejected, expired or still open, whoever else
\* decided meanwhile and unless its decider died ("approval and outcome are
\* separate facts").
OutcomeRecorded ==
    \A p \in Proposals :
        (runs[p] > 0 /\ died[p] = 0 /\ \A d \in Deciders : decider[d].prop # p)
        => proposal[p].status \in {"approved", "failed"}

\* A press is acted on once however often the callback is delivered, and again
\* only for a decider that died (the receipt of process_proposal_card_action).
PressOnce ==
    \A v \in CardEvents : decisions[v] <= 1 + died[Presses[v].proposal]

\* A command that leaves its decider's transaction alone takes effect once,
\* and again only for a decider that died, however many approve it.
LockedRunsOnce ==
    \A p \in Proposals : ~CommitsInside(proposal[p].action) => runs[p] <= 1 + died[p]

\* All of it, together.
DecisionsKept == TypeOK /\ OutcomeRecorded /\ PressOnce /\ LockedRunsOnce

\* An approved proposal is executed once, however many approve it
\* ("Idempotent by status").
ApprovedOnce == \A p \in Proposals : runs[p] <= 1 + died[p]
=============================================================================
