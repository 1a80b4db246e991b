-------------------------- MODULE DeliveryIntent --------------------------
(***************************************************************************)
(* What the outbox promises for a decision to forward: the intent is       *)
(* opened, and is then either sent, for good, or dead until an operator    *)
(* opens it again; the follow-up record of a sent intent is created once,  *)
(* in the very step that marks it sent.                                    *)
(***************************************************************************)
EXTENDS Naturals

CONSTANT Ids

VARIABLES intent, followed

States == {"absent", "open", "sent", "dead"}

Init ==
    /\ intent = [i \in Ids |-> "absent"]
    /\ followed = [i \in Ids |-> 0]

Keep(i) == intent'[i] = intent[i] /\ followed'[i] = followed[i]

Open(i) ==
    /\ intent[i] \in {"absent", "dead"}
    /\ intent'[i] = "open"
    /\ followed'[i] = followed[i]

Send(i) ==
    /\ intent[i] = "open"
    /\ intent'[i] = "sent"
    /\ followed[i] = 0
    /\ followed'[i] \in {0, 1}

GiveUp(i) ==
    /\ intent[i] = "open"
    /\ intent'[i] = "dead"
    /\ followed'[i] = followed[i]

\* One transaction may settle several intents: a scan, a digest.
Next ==
    /\ intent' \in [Ids -> States]
    /\ followed' \in [Ids -> Nat]
    /\ \A i \in Ids : Keep(i) \/ Open(i) \/ Send(i) \/ GiveUp(i)

Spec == Init /\ [][Next]_<<intent, followed>>
=============================================================================
