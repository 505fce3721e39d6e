----------------------------- MODULE RekeyLedger -----------------------------
(***************************************************************************)
(* What the latency bookkeeping of an SKDC promises, without sets of       *)
(* acknowledgements, timers or packets: each rekey opens the next version, *)
(* and an open version is closed exactly once, by the acknowledgements     *)
(* (OK) or by the timeout (TIMEOUT).                                       *)
(***************************************************************************)
EXTENDS Integers

CONSTANTS Cluster, Version

VARIABLES
    latest,  \* [Cluster -> Version]: the newest version
    stage    \* [Cluster -> [Version -> {"unused", "open", "OK", "TIMEOUT"}]]

Init ==
    /\ latest = [c \in Cluster |-> 1]
    /\ stage  = [c \in Cluster |-> [v \in Version |-> "unused"]]

Open(c) ==
    /\ latest[c] + 1 \in Version
    /\ stage[c][latest[c] + 1] = "unused"
    /\ latest' = [latest EXCEPT ![c] = @ + 1]
    /\ stage'  = [stage EXCEPT ![c][latest[c] + 1] = "open"]

Close(c, v) ==
    /\ stage[c][v] = "open"
    /\ \E s \in {"OK", "TIMEOUT"} : stage' = [stage EXCEPT ![c][v] = s]
    /\ UNCHANGED latest

Next == \E c \in Cluster : Open(c) \/ \E v \in Version : Close(c, v)

Spec == Init /\ [][Next]_<<latest, stage>>
=============================================================================
