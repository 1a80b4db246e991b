------------------------ MODULE MaintenanceWindows -------------------------
(***************************************************************************)
(* Maintenance windows: recurring schedules that a sweep turns into        *)
(* silences, one per occurrence, and retires again                         *)
(* (services/silences/maintenance_windows.py and the handlers that run the *)
(* sweep inside their own transaction, api/v1/silences.py).                *)
(*                                                                         *)
(* The scheduler's sweep and a request's overlap; each statement of a      *)
(* transaction sees what was committed before it (READ COMMITTED).  Time   *)
(* is in slots, a small number of them to the day; a silence whose         *)
(* identity columns were cleared has no further part to play.              *)
(***************************************************************************)
EXTENDS Naturals, FiniteSets

CONSTANTS
    Windows,      \* rows of maintenance_windows
    Schedules,    \* [days, start, len]: what schedule_digest tells apart
    Slots,        \* slots of a day
    MaxNow,       \* bound: the last slot
    MaxEdits,     \* bound: requests that edit a window
    MaxTouches    \* bound: silences the operator lifts or deletes

\* What the constants are.
Sane == Slots \in Nat \ {0} /\ MaxNow \in Nat /\ MaxEdits \in Nat /\ MaxTouches \in Nat

VARIABLES
    window,    \* [Windows -> Window]      the committed schedules
    row,       \* [Occurrences -> {"none", "live", "lifted"}]   silences by their identity
    now,       \* the slot it is
    sweep,     \* [Sweepers -> Sweep]
    lifts,     \* history: occurrences the operator lifted
    raced,     \* history: those lifted while a sweep already held them as live
    edits, touches

windowVars == <<window, row, now, sweep, lifts, raced, edits, touches>>

Sweepers == {"scheduler", "request"}
Window == [state : {"absent", "enabled", "disabled"}, schedule : Schedules]
Occurrences == Windows \X (0 .. MaxNow \div Slots) \X Schedules
Sweep == [pc : {"idle", "live", "write", "commit"}, view : [Windows -> Window], live : SUBSET Occurrences,
          deleted : SUBSET Occurrences, insert : SUBSET Occurrences, retire : SUBSET Occurrences]

\* ISO weekdays: day 0 of the model is a Monday.
Weekday(day) == (day % 7) + 1

Starts(s, day) == day * Slots + s.start
Ends(s, day) == Starts(s, day) + s.len

\* active_occurrence: today's start and yesterday's are the candidates, in
\* this order; the occurrence belongs to the day it starts on.
Candidates(s, t) ==
    LET today == t \div Slots
    IN  {d \in {today} \cup (IF today = 0 THEN {} ELSE {today - 1}) :
            Weekday(d) \in s.days /\ Starts(s, d) <= t /\ t < Ends(s, d)}

ActiveOccurrence(s, t) ==
    LET c == Candidates(s, t)
    IN  {d \in c : \A e \in c : e <= d}

\* The identities of the occurrences that are on, in a view of the windows.
ActiveKeys(view, t) ==
    {o \in Occurrences :
        view[o[1]].state = "enabled" /\ view[o[1]].schedule = o[3]
        /\ o[2] \in ActiveOccurrence(o[3], t)}

\* _live_maintenance_silences: not lifted, not expired, identity in place.
IsLive(o) == row[o] = "live" /\ now < Ends(o[3], o[2])

\* Mutant: a silence that was lifted no longer marks its occurrence.
TrackedWhileLive(o) == row[o] = "live"

\* _occurrence_already_tracked: live or lifted by hand.
Tracked(o) == row[o] # "none"

NoSweep == [pc |-> "idle", view |-> window, live |-> {}, deleted |-> {}, insert |-> {}, retire |-> {}]

Init ==
    /\ window \in [Windows -> {v \in Window : v.state = "enabled"}]
    /\ row = [o \in Occurrences |-> "none"]
    /\ now = 0
    /\ sweep = [s \in Sweepers |-> NoSweep]
    /\ lifts = {} /\ raced = {} /\ edits = 0 /\ touches = 0

\* The rows another transaction has written and not committed.
Locked(s) == UNION {sweep[r].insert \cup sweep[r].retire : r \in Sweepers \ {s}}

-----------------------------------------------------------------------------
\* sweep_maintenance_windows, the first SELECT: the scheduler's, in its own
\* transaction.
ScheduledSweep ==
    /\ sweep["scheduler"].pc = "idle"
    /\ sweep' = [sweep EXCEPT !["scheduler"] = [NoSweep EXCEPT !.pc = "live"]]
    /\ UNCHANGED <<window, row, now, lifts, raced, edits, touches>>

\* ... and the one of a request that creates, replaces or deletes a window (or
\* imports a bundle): its own flushed edit is part of what it reads.
EditWindow ==
    /\ sweep["request"].pc = "idle" /\ edits < MaxEdits
    /\ edits' = edits + 1
    /\ \E w \in Windows, v \in Window :
          /\ v # window[w]
          /\ window[w].state = "absent" => v.state # "absent"
          /\ sweep' = [sweep EXCEPT !["request"] = [NoSweep EXCEPT !.pc = "live", !.view[w] = v]]
    /\ UNCHANGED <<window, row, now, lifts, raced, touches>>

\* The second SELECT.
ReadLive(s) ==
    /\ sweep[s].pc = "live"
    /\ sweep' = [sweep EXCEPT ![s] = [@ EXCEPT !.pc = "write", !.live = {o \in Occurrences : IsLive(o)}]]
    /\ UNCHANGED <<window, row, now, lifts, raced, edits, touches>>

\* The rest of the sweep: the active occurrences not tracked yet are inserted
\* (an insert of the same identity by the other sweep is waited for, and then
\* is tracked), the live ones that are not active are lifted and lose their
\* identity.  A row that was deleted meanwhile fails the whole transaction.
Write(s) ==
    LET active == ActiveKeys(sweep[s].view, now)
        insert == {o \in active : ~Tracked(o)}
        retire == sweep[s].live \ active
    IN  /\ sweep[s].pc = "write"
        /\ (insert \cup retire) \cap Locked(s) = {}
        /\ IF retire \cap sweep[s].deleted # {}
           THEN sweep' = [sweep EXCEPT ![s] = NoSweep]
           ELSE sweep' = [sweep EXCEPT ![s] = [@ EXCEPT !.pc = "commit", !.live = {}, !.deleted = {},
                                                         !.insert = insert, !.retire = retire]]
        /\ UNCHANGED <<window, row, now, lifts, raced, edits, touches>>

CommitKeepingIdentity(s) ==
    /\ sweep[s].pc = "commit"
    /\ window' = IF s = "request" THEN sweep[s].view ELSE window
    /\ row' = [o \in Occurrences |-> IF o \in sweep[s].insert THEN "live"
                                     ELSE IF o \in sweep[s].retire THEN "lifted" ELSE row[o]]
    /\ sweep' = [r \in Sweepers |->
                    IF r = s THEN [NoSweep EXCEPT !.view = window']
                    ELSE [sweep[r] EXCEPT !.live = @ \ sweep[s].retire,
                                          !.view = IF sweep[r].pc = "idle" THEN window' ELSE @]]
    /\ UNCHANGED <<now, lifts, raced, edits, touches>>

\* The commit: the request's edit and both kinds of changes at once.  (A row
\* the other sweep still means to retire has lost its identity already.)
Commit(s) ==
    /\ sweep[s].pc = "commit"
    /\ window' = IF s = "request" THEN sweep[s].view ELSE window
    /\ row' = [o \in Occurrences |-> IF o \in sweep[s].insert THEN "live"
                                     ELSE IF o \in sweep[s].retire THEN "none" ELSE row[o]]
    /\ sweep' = [r \in Sweepers |->
                    IF r = s THEN [NoSweep EXCEPT !.view = window']
                    ELSE [sweep[r] EXCEPT !.live = @ \ sweep[s].retire,
                                          !.view = IF sweep[r].pc = "idle" THEN window' ELSE @]]
    /\ UNCHANGED <<now, lifts, raced, edits, touches>>

\* The process dies or the request fails: nothing of the sweep remains.
Abort(s) ==
    /\ sweep[s].pc # "idle" /\ touches < MaxTouches
    /\ touches' = touches + 1
    /\ sweep' = [sweep EXCEPT ![s] = NoSweep]
    /\ UNCHANGED <<window, row, now, lifts, raced, edits>>

-----------------------------------------------------------------------------
\* lift_silence: the row keeps its identity.
Lift(o) ==
    /\ row[o] = "live" /\ o \notin Locked("operator") /\ touches < MaxTouches
    /\ touches' = touches + 1
    /\ row' = [row EXCEPT ![o] = "lifted"]
    /\ lifts' = lifts \cup {o}
    /\ raced' = IF \E s \in Sweepers : o \in sweep[s].live THEN raced \cup {o} ELSE raced
    /\ UNCHANGED <<window, now, sweep, edits>>

\* delete_silence: the row is gone, and its identity with it.
Delete(o) ==
    /\ row[o] # "none" /\ o \notin Locked("operator") /\ touches < MaxTouches
    /\ touches' = touches + 1
    /\ row' = [row EXCEPT ![o] = "none"]
    /\ lifts' = lifts \ {o} /\ raced' = raced \ {o}
    /\ sweep' = [s \in Sweepers |->
                    IF o \in sweep[s].live THEN [sweep[s] EXCEPT !.deleted = @ \cup {o}] ELSE sweep[s]]
    /\ UNCHANGED <<window, now, edits>>

\* A slot passes; a sweep is over long before, so that its `now' is one slot.
Tick ==
    /\ now < MaxNow /\ now' = now + 1
    /\ \A s \in Sweepers : sweep[s].pc = "idle"
    /\ UNCHANGED <<window, row, sweep, lifts, raced, edits, touches>>

Next ==
    \/ ScheduledSweep \/ EditWindow
    \/ \E s \in Sweepers : ReadLive(s) \/ Write(s) \/ Commit(s) \/ Abort(s)
    \/ \E o \in Occurrences : Lift(o) \/ Delete(o)
    \/ Tick

\* The scheduler's sweep is due every minute, and a request that has begun
\* goes on.
Fairness ==
    /\ WF_windowVars(ScheduledSweep)
    /\ \A s \in Sweepers : WF_windowVars(ReadLive(s) \/ Write(s) \/ Commit(s))

Spec == Init /\ [][Next]_windowVars /\ Fairness

-----------------------------------------------------------------------------
TypeOK ==
    /\ window \in [Windows -> Window]
    /\ row \in [Occurrences -> {"none", "live", "lifted"}]
    /\ now \in 0 .. MaxNow
    /\ sweep \in [Sweepers -> Sweep]
    /\ lifts \subseteq Occurrences /\ raced \subseteq lifts
    /\ edits \in 0 .. MaxEdits /\ touches \in 0 .. MaxTouches

\* An occurrence the operator lifted stays lifted, whatever is edited and
\* swept afterwards, unless a sweep already held it as live when it was lifted
\* ("an OPERATOR-lifted occurrence keeps its identity columns, so the sweep
\* will not resurrect a silence a human deliberately lifted").
LiftSticks == \A o \in lifts \ raced : row[o] # "live"

\* The silences that mute are exactly the occurrences that are on.
Muted ==
    \A o \in Occurrences :
        IF o \in ActiveKeys(window, now) THEN row[o] = "live" \/ (row[o] = "lifted" /\ o \in lifts)
        ELSE ~IsLive(o)

\* Once edits, hand and clock come to rest, the silences agree with the
\* schedules for good: no occurrence that is on stays unmuted, and no silence
\* survives its window, however two sweeps crossed.
SweepsSettle == <>[]Muted
=============================================================================
