----------------------------- MODULE BarHistory -----------------------------
(***************************************************************************)
(* What daily-bar ingestion promises the readers of market.bar_revision:   *)
(* every bar has an append-only history of values, a request either        *)
(* publishes all of its changes at the moment it ends or publishes none,   *)
(* and a change is a value that differs from the newest one of its bar.    *)
(***************************************************************************)
EXTENDS Naturals, Sequences

CONSTANTS Bars, Values, Requests

VARIABLES
    history,    \* the values of each bar, oldest first
    status      \* the status of each request's batch

Ended == {"SUCCEEDED", "PARTIAL", "FAILED", "QUARANTINED"}

Init ==
    /\ history = [b \in Bars |-> <<>>]
    /\ status = [r \in Requests |-> "ABSENT"]

Begin(r) ==
    /\ status[r] = "ABSENT"
    /\ status' = [status EXCEPT ![r] = "RUNNING"]
    /\ UNCHANGED history

\* A request ends without a change: nothing new, nothing usable, or a failure.
End(r) ==
    /\ status[r] = "RUNNING"
    /\ \E outcome \in Ended : status' = [status EXCEPT ![r] = outcome]
    /\ UNCHANGED history

Differs(b, v) == history[b] = <<>> \/ history[b][Len(history[b])] # v

Publish(r, changed) ==
    /\ status[r] = "RUNNING"
    /\ \E outcome \in {"SUCCEEDED", "PARTIAL"} :
          status' = [status EXCEPT ![r] = outcome]
    /\ \E new \in [changed -> Values] :
          /\ \A b \in changed : Differs(b, new[b])
          /\ history' = [b \in Bars |-> IF b \in changed
                                        THEN Append(history[b], new[b])
                                        ELSE history[b]]

Next ==
    \E r \in Requests :
        Begin(r) \/ End(r) \/ \E changed \in (SUBSET Bars) \ {{}} : Publish(r, changed)

Spec == Init /\ [][Next]_<<history, status>>
=============================================================================
