----------------------------- MODULE JobService -----------------------------
(***************************************************************************)
(* What durable execution promises about a queued backtest.  A submitted   *)
(* job is attempted a bounded number of times.  An attempt that finishes   *)
(* saves one result and leaves the job paid for, once, however many        *)
(* attempts finish.  Nothing starts or finishes after a cancellation was   *)
(* recorded, and no job is called cancelled without one.                   *)
(*                                                                         *)
(* No promise is made about how the status moves otherwise: a late attempt *)
(* or a late retry may call a completed job running, queued or failed.     *)
(***************************************************************************)
EXTENDS Naturals

CONSTANTS Jobs, MaxAttempts, Cost

VARIABLES
    state,      \* per job: the status its user is shown
    tried,      \* per job: attempts started
    saved,      \* per job: results saved
    paid,       \* per job: credits paid, net
    dropped     \* per job: a cancellation is recorded

jobVars == <<state, tried, saved, paid, dropped>>

Init ==
    /\ state = [j \in Jobs |-> "absent"]
    /\ tried = [j \in Jobs |-> 0]
    /\ saved = [j \in Jobs |-> 0]
    /\ paid = [j \in Jobs |-> 0]
    /\ dropped = [j \in Jobs |-> FALSE]

\* Submission, recovery, failure, retry: only the status moves.
Show(j, s) ==
    /\ state[j] = "absent" => s = "queued"
    /\ s = "queued" => ~dropped[j]
    /\ s = "cancelled" => dropped[j]
    /\ state' = [state EXCEPT ![j] = s]
    /\ UNCHANGED <<tried, saved, paid, dropped>>

Attempt(j) ==
    /\ state[j] # "absent" /\ ~dropped[j] /\ tried[j] < MaxAttempts
    /\ state' = [state EXCEPT ![j] = "running"]
    /\ tried' = [tried EXCEPT ![j] = @ + 1]
    /\ UNCHANGED <<saved, paid, dropped>>

Finish(j) ==
    /\ state[j] # "absent" /\ ~dropped[j] /\ saved[j] < tried[j]
    /\ state' = [state EXCEPT ![j] = "completed"]
    /\ saved' = [saved EXCEPT ![j] = @ + 1]
    /\ paid' = [paid EXCEPT ![j] = Cost]
    /\ UNCHANGED <<tried, dropped>>

Drop(j) ==
    /\ state[j] \in {"queued", "running"}
    /\ dropped' = [dropped EXCEPT ![j] = TRUE]
    /\ UNCHANGED <<state, tried, saved, paid>>

Next ==
    \E j \in Jobs :
        \/ \E s \in {"queued", "running", "failed", "cancelled"} : Show(j, s)
        \/ Attempt(j) \/ Finish(j) \/ Drop(j)

Spec == Init /\ [][Next]_jobVars
=============================================================================
