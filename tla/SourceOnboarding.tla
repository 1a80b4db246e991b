------------------------- MODULE SourceOnboarding -------------------------
(***************************************************************************)
(* A managed inbound source (services/webhooks/source_onboarding.py,       *)
(* api/v1/onboarding.py): operators rename, disable, rotate and revoke one *)
(* connection while its upstream keeps posting alerts to it, and every     *)
(* queued alert advances the connection's counters.                        *)
(*                                                                         *)
(* An operator's request first loads the row, then locks it and reads it   *)
(* again (_lock_source_connection).  An alert's request is authenticated,  *)
(* queued by the ordinary ingress and only then counted, so the other      *)
(* requests may run in between; the upstream posts again what was answered *)
(* with an error.                                                          *)
(***************************************************************************)
EXTENDS Integers, Sequences, FiniteSets

CONSTANTS
    Operators, Alerts,
    Shapes,         \* JSON structures a payload may have
    NoShape,        \* a payload that is not a JSON object has no fingerprint
    MaxToken,       \* bound: credentials issued
    MaxEdits,       \* bound: operator requests
    MaxFailures,    \* bound: telemetry writes that fail
    MaxPosts        \* bound: posts of one alert

VARIABLES
    connection,     \* the source_connections row
    operator,       \* each operator's request: what it loaded and asks for
    post,           \* each alert's current request
    posts,          \* requests made for each alert
    queued,         \* times each alert was queued
    log,            \* history: fingerprints of the counted events, in order
    edits, failures

onboardingVars == <<connection, operator, post, posts, queued, log, edits, failures>>

Connection == [enabled : BOOLEAN, revoked : BOOLEAN, token : 1..MaxToken,
               events : 0..Cardinality(Alerts) * MaxPosts, fingerprint : Shapes \cup {NoShape},
               changes : 0..Cardinality(Alerts) * MaxPosts, refused : 0..Cardinality(Alerts) * MaxPosts]

SourceRequests == {"enable", "disable", "rotate", "revoke"}
AtRest   == [pc |-> "idle", ask |-> "enable"]

(* token: the credential the upstream posts with.                          *)
Posts  == {"idle", "reading", "counting", "answered", "refused"}
NoPost == [pc |-> "idle", token |-> 1, shape |-> NoShape]

OnboardingTypeOK ==
    /\ connection \in Connection
    /\ operator \in [Operators -> [pc : {"idle", "loaded"}, ask : SourceRequests]]
    /\ post \in [Alerts -> [pc : Posts, token : 1..MaxToken, shape : Shapes \cup {NoShape}]]
    /\ queued \in [Alerts -> 0..MaxPosts]
    /\ edits \in 0..MaxEdits /\ failures \in 0..MaxFailures

(* create_source_connection.                                               *)
OnboardingInit ==
    /\ connection = [enabled |-> TRUE, revoked |-> FALSE, token |-> 1, events |-> 0,
                     fingerprint |-> NoShape, changes |-> 0, refused |-> 0]
    /\ operator = [o \in Operators |-> AtRest]
    /\ post = [a \in Alerts |-> NoPost]
    /\ posts = [a \in Alerts |-> 0]
    /\ queued = [a \in Alerts |-> 0]
    /\ log = <<>>
    /\ edits = 0 /\ failures = 0

-----------------------------------------------------------------------------
(* _connection_or_404: the endpoint loads the row, without a lock.         *)
LoadSource(o, ask) ==
    /\ operator[o].pc = "idle"
    /\ edits < MaxEdits
    /\ operator' = [operator EXCEPT ![o] = [pc |-> "loaded", ask |-> ask]]
    /\ edits' = edits + 1
    /\ UNCHANGED <<connection, post, posts, queued, log, failures>>

Finish(o) ==
    /\ operator' = [operator EXCEPT ![o] = AtRest]
    /\ UNCHANGED <<post, posts, queued, log, edits, failures>>

(* update_source_connection: a revoked credential is not enabled again.    *)
UpdateSource_Blind(o) ==
    /\ operator[o].pc = "loaded"
    /\ operator[o].ask \in {"enable", "disable"}
    /\ connection' = [connection EXCEPT !.enabled = (operator[o].ask = "enable")]
    /\ Finish(o)

UpdateSource(o) ==
    /\ operator[o].pc = "loaded"
    /\ operator[o].ask \in {"enable", "disable"}
    /\ connection' = IF operator[o].ask = "enable" /\ connection.revoked THEN connection
                     ELSE [connection EXCEPT !.enabled = (operator[o].ask = "enable")]
    /\ Finish(o)

(* rotate_source_token: a new credential, enabled and not revoked.         *)
RotateToken(o) ==
    /\ operator[o].pc = "loaded"
    /\ operator[o].ask = "rotate"
    /\ connection.token < MaxToken
    /\ connection' = [connection EXCEPT !.token = @ + 1, !.enabled = TRUE, !.revoked = FALSE]
    /\ Finish(o)

(* revoke_source_connection.                                               *)
RevokeSource(o) ==
    /\ operator[o].pc = "loaded"
    /\ operator[o].ask = "revoke"
    /\ connection' = [connection EXCEPT !.enabled = FALSE, !.revoked = TRUE]
    /\ Finish(o)

-----------------------------------------------------------------------------
(* source_token_matches.                                                   *)
TokenMatches(t) ==
    /\ connection.enabled
    /\ ~connection.revoked
    /\ t = connection.token

(* verify_source_connection_dep: a post with a wrong credential is counted *)
(* against the connection and refused.                                     *)
Authenticate(a, t, shape) ==
    /\ post[a].pc = "idle"
    /\ posts[a] < MaxPosts
    /\ posts' = [posts EXCEPT ![a] = @ + 1]
    /\ IF TokenMatches(t)
       THEN /\ post' = [post EXCEPT ![a] = [pc |-> "reading", token |-> t, shape |-> shape]]
            /\ UNCHANGED connection
       ELSE /\ post' = [post EXCEPT ![a] = [pc |-> "refused", token |-> t, shape |-> shape]]
            /\ connection' = [connection EXCEPT !.refused = @ + 1]
    /\ UNCHANGED <<operator, queued, log, edits, failures>>

(* receive_webhook: the alert is queued, suppressed with a success answer, *)
(* or refused with an error.                                               *)
Receive(a, outcome) ==
    /\ post[a].pc = "reading"
    /\ queued' = IF outcome = "queued" THEN [queued EXCEPT ![a] = @ + 1] ELSE queued
    /\ post' = [post EXCEPT ![a].pc = CASE outcome = "queued" -> "counting"
                                        [] outcome = "suppressed" -> "answered"
                                        [] OTHER -> "refused"]
    /\ UNCHANGED <<connection, operator, posts, log, edits, failures>>

(* record_source_event: the counters are those of the locked row, and the  *)
(* structure is compared with the last one that had a fingerprint.         *)
Counted_AnyShape(shape) ==
    [connection EXCEPT !.events = @ + 1,
                       !.fingerprint = shape,
                       !.changes = IF shape = connection.fingerprint THEN @ ELSE @ + 1]

Counted(shape) ==
    [connection EXCEPT !.events = @ + 1,
                       !.fingerprint = IF shape = NoShape THEN @ ELSE shape,
                       !.changes = IF NoShape \in {shape, connection.fingerprint} \/ shape = connection.fingerprint
                                   THEN @ ELSE @ + 1]

RecordEvent(a) ==
    /\ post[a].pc = "counting"
    /\ connection' = Counted(post[a].shape)
    /\ log' = Append(log, post[a].shape)
    /\ post' = [post EXCEPT ![a].pc = "answered"]
    /\ UNCHANGED <<operator, posts, queued, edits, failures>>

(* The write fails after the alert was queued: the answer stays a success. *)
TelemetryFails_Answered(a) ==
    /\ post[a].pc = "counting"
    /\ failures < MaxFailures
    /\ failures' = failures + 1
    /\ post' = [post EXCEPT ![a].pc = "refused"]
    /\ UNCHANGED <<connection, operator, posts, queued, log, edits>>

TelemetryFails(a) ==
    /\ post[a].pc = "counting"
    /\ failures < MaxFailures
    /\ failures' = failures + 1
    /\ post' = [post EXCEPT ![a].pc = "answered"]
    /\ UNCHANGED <<connection, operator, posts, queued, log, edits>>

(* External: the upstream posts again what was answered with an error.     *)
PostAgain(a) ==
    /\ post[a].pc = "refused"
    /\ posts[a] < MaxPosts
    /\ post' = [post EXCEPT ![a] = NoPost]
    /\ UNCHANGED <<connection, operator, posts, queued, log, edits, failures>>

OnboardingNext ==
    \/ \E o \in Operators :
          \/ \E ask \in SourceRequests : LoadSource(o, ask)
          \/ UpdateSource(o) \/ RotateToken(o) \/ RevokeSource(o)
    \/ \E a \in Alerts :
          \/ \E t \in 1..connection.token, s \in Shapes \cup {NoShape} : Authenticate(a, t, s)
          \/ \E outcome \in {"queued", "suppressed", "error"} : Receive(a, outcome)
          \/ RecordEvent(a) \/ TelemetryFails(a) \/ PostAgain(a)

OnboardingSpec == OnboardingInit /\ [][OnboardingNext]_onboardingVars

-----------------------------------------------------------------------------
(* However operators' requests overlap, a revoked credential is never      *)
(* enabled: the check of an update is made on the locked row, not on the   *)
(* one the endpoint loaded.                                                *)
RevokedStaysShut == ~(connection.enabled /\ connection.revoked)

(* An alert that was queued is never answered with an error, so an         *)
(* upstream that repeats what failed never queues an alert twice: not even *)
(* when the counters could not be written.                                 *)
QueuedOnce == \A a \in Alerts : queued[a] <= 1

(* The counters agree with the history of the events whose telemetry was   *)
(* written, in the order it was written: the number of events, the last    *)
(* structure seen, and how often one structure followed a different one,   *)
(* bodies without a structure left out.                                    *)
CountersTrue ==
    LET seen == SelectSeq(log, LAMBDA s : s # NoShape)
    IN  /\ connection.events = Len(log)
        /\ connection.fingerprint = IF seen = <<>> THEN NoShape ELSE seen[Len(seen)]
        /\ connection.changes = Cardinality({k \in 2..Len(seen) : seen[k] # seen[k - 1]})
=============================================================================
