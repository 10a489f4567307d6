---------------------------- MODULE PriceAlerts ----------------------------
(***************************************************************************)
(* One price alert: the evaluator, which locks the row, compares the new   *)
(* price with the last one and inserts an event (evaluate_quote), and the  *)
(* owner's requests, which load the row without a lock and write the       *)
(* columns they changed.  A Redis key guards the insertion; a worker that  *)
(* dies while it holds the key leaves it for ten seconds.                  *)
(***************************************************************************)
EXTENDS Integers

CONSTANTS
    Kinds,       \* alert types considered
    Prices,      \* prices of quotes
    Targets0,    \* target prices, or lower bounds of zones, an owner may set
    ZoneWidth, ApproachDistance, RearmDistance,
    NoPrice,     \* last_price IS NULL
    MaxEdits     \* bound: requests of the owner

AllKinds == {"CROSSING_UP", "CROSSING_DOWN", "ENTERING_ZONE", "LEAVING_ZONE"}

ASSUME AlertAssumption ==
    /\ Kinds \subseteq AllKinds /\ Prices \subseteq Int /\ Targets0 \subseteq Int
    /\ {ZoneWidth, ApproachDistance, RearmDistance, MaxEdits} \subseteq Nat
    /\ NoPrice \notin Int

VARIABLES
    rule,        \* alert_type, trigger_mode and approach_enabled, which stay
    alert,       \* the row: status, runtime_state, approach_state, last_price,
                 \* the target and what rearm_eligible_at says
    calm,        \* the cooldown after an approach warning has passed
    redisLock,   \* the key alert_lock:<id> exists while nobody evaluates
    edit,        \* columns the open request will write
    edits,       \* requests so far
    seen,        \* history: last price evaluated since the last baseline
    shots,       \* history: armings of an alert that triggers once, less its events
    missed, ghost,  \* history: a crossing without event, an event without crossing
    slips        \* history: how the row may have lost step with the prices

alertHistory == <<seen, shots, missed, ghost, slips>>
alertVars == <<rule, alert, calm, redisLock, edit, edits, alertHistory>>

NoEdit == [op |-> "none"]

AlertRows ==
    [status : {"ACTIVE", "COMPLETED", "EXPIRED", "DISABLED", "DELETED"},
     runtime : {"ARMED", "TRIGGERED", "COOLDOWN", "EXPIRED", "DISABLED"},
     approach : {"WAITING", "APPROACH_SENT", "DISABLED"},
     last : Prices \cup {NoPrice}, target : Targets0,
     cooldown : {"none", "running", "over"}]

AlertTypeOK ==
    /\ rule \in [kind : Kinds, once : BOOLEAN, approach : BOOLEAN]
    /\ alert \in AlertRows
    /\ {calm, redisLock} \subseteq BOOLEAN
    /\ edits \in 0..MaxEdits
    /\ seen \in Prices \cup {NoPrice} /\ shots \in Int /\ {missed, ghost} \subseteq BOOLEAN
    /\ slips \subseteq {"baseline", "lock"}

ApproachStart == IF rule.approach THEN "WAITING" ELSE "DISABLED"

AlertInit ==
    /\ rule \in [kind : Kinds, once : BOOLEAN, approach : BOOLEAN]
    /\ \E t \in Targets0 :
          alert = [status |-> "ACTIVE", runtime |-> "ARMED", approach |-> ApproachStart,
                   last |-> NoPrice, target |-> t, cooldown |-> "none"]
    /\ calm = TRUE /\ redisLock = FALSE
    /\ edit = NoEdit /\ edits = 0
    /\ seen = NoPrice /\ shots = 1 /\ missed = FALSE /\ ghost = FALSE /\ slips = {}

-----------------------------------------------------------------------------
(* Conditions on prices *)

Zone == alert.target .. (alert.target + ZoneWidth)

\* The side of the condition on which the alert has fired.
Beyond(p) ==
    CASE rule.kind = "CROSSING_UP"   -> p >= alert.target
      [] rule.kind = "CROSSING_DOWN" -> p <= alert.target
      [] rule.kind = "ENTERING_ZONE" -> p \in Zone
      [] rule.kind = "LEAVING_ZONE"  -> p \notin Zone

\* _transition_matches
Crosses(prev, p) == prev # NoPrice /\ ~Beyond(prev) /\ Beyond(p)

\* The strip before the condition, from below and from above.
Strip(prev, p, edge, sign) ==
    LET far == sign * (edge - sign * ApproachDistance)
    IN  sign * prev < far /\ far <= sign * p /\ sign * p < sign * edge

\* _approach_transition
Approaches(prev, p) ==
    /\ prev # NoPrice /\ ApproachDistance > 0
    /\ \/ rule.kind = "CROSSING_UP" /\ Strip(prev, p, alert.target, 1)
       \/ rule.kind = "CROSSING_DOWN" /\ Strip(prev, p, alert.target, -1)
       \/ /\ rule.kind = "ENTERING_ZONE"
          /\ Strip(prev, p, alert.target, 1) \/ Strip(prev, p, alert.target + ZoneWidth, -1)

\* _can_rearm
CanRearm(p) ==
    /\ ~rule.once /\ alert.cooldown # "running"
    /\ CASE rule.kind = "CROSSING_UP"   -> p <= alert.target - RearmDistance
         [] rule.kind = "CROSSING_DOWN" -> p >= alert.target + RearmDistance
         [] OTHER                       -> ~Beyond(p)

\* _can_rearm_approach
CanRearmApproach(p) ==
    LET away == ApproachDistance + RearmDistance
    IN  /\ ~rule.once /\ calm
        /\ \/ rule.kind \in {"CROSSING_UP", "ENTERING_ZONE"} /\ p <= alert.target - away
           \/ rule.kind = "CROSSING_DOWN" /\ p >= alert.target + away
           \/ rule.kind = "ENTERING_ZONE" /\ p >= alert.target + ZoneWidth + away

-----------------------------------------------------------------------------
(* The evaluator *)

Runtime(p) ==
    IF alert.runtime \in {"TRIGGERED", "COOLDOWN"} /\ CanRearm(p) THEN "ARMED" ELSE alert.runtime
Approach(p) ==
    IF alert.approach = "APPROACH_SENT" /\ CanRearmApproach(p) THEN "WAITING" ELSE alert.approach

Warns(p) == /\ Runtime(p) = "ARMED" /\ Approach(p) = "WAITING"
            /\ Approaches(alert.last, p)
Hits(p) == Runtime(p) = "ARMED" /\ Crosses(alert.last, p)

\* Faulty variant: the price is kept only with an event.
BadFollowed(p) ==
    [alert EXCEPT !.last = IF Hits(p) \/ Warns(p) \/ @ = NoPrice THEN p ELSE @,
                  !.runtime = Runtime(p), !.approach = Approach(p)]

\* The row as every evaluation leaves it.
Followed(p) == [alert EXCEPT !.last = p, !.runtime = Runtime(p), !.approach = Approach(p)]

\* What the prices alone would have called for, without the row's last price.
Observe(p, event) ==
    /\ seen' = p
    /\ missed' = (missed \/ (Runtime(p) = "ARMED" /\ Crosses(seen, p) /\ event # "main"))
    /\ ghost' = (ghost \/ (event = "main" /\ ~Crosses(seen, p)))

Quiet(p) ==
    /\ alert.status = "ACTIVE" /\ ~Warns(p) /\ ~Hits(p)
    /\ alert' = Followed(p) /\ Observe(p, "none")
    /\ UNCHANGED <<rule, calm, redisLock, edit, edits, shots, slips>>

\* The key is there: the alert is passed over, its last price moves on.
Locked(p) ==
    /\ alert.status = "ACTIVE" /\ (Warns(p) \/ Hits(p))
    /\ redisLock
    /\ alert' = Followed(p) /\ Observe(p, "none")
    /\ slips' = slips \cup {"lock"}
    /\ UNCHANGED <<rule, calm, redisLock, edit, edits, shots>>

\* An approach warning; the key is deleted, or its deletion fails unnoticed.
Warn(p) ==
    /\ alert.status = "ACTIVE" /\ Warns(p) /\ ~redisLock
    /\ alert' = [Followed(p) EXCEPT !.approach = "APPROACH_SENT"]
    /\ calm' = FALSE /\ redisLock' \in BOOLEAN /\ Observe(p, "approach")
    /\ UNCHANGED <<rule, edit, edits, shots, slips>>

Triggered(p) ==
    IF rule.once THEN [Followed(p) EXCEPT !.status = "COMPLETED", !.runtime = "TRIGGERED"]
    ELSE [Followed(p) EXCEPT !.runtime = "COOLDOWN", !.cooldown = "running"]

\* The event with its deliveries is inserted.
Trigger(p) ==
    /\ alert.status = "ACTIVE" /\ Hits(p) /\ ~redisLock
    /\ alert' = Triggered(p) /\ redisLock' \in BOOLEAN
    /\ shots' = (IF rule.once THEN shots - 1 ELSE shots) /\ Observe(p, "main")
    /\ UNCHANGED <<rule, calm, edit, edits, slips>>

\* The worker dies with the key: the transaction is rolled back.
EvaluatorDies(p) ==
    /\ alert.status = "ACTIVE" /\ (Warns(p) \/ Hits(p))
    /\ ~redisLock /\ redisLock' = TRUE
    /\ UNCHANGED <<rule, alert, calm, edit, edits, alertHistory>>

\* A quote after expires_at.
ExpireAlert ==
    /\ alert.status = "ACTIVE"
    /\ alert' = [alert EXCEPT !.status = "EXPIRED", !.runtime = "EXPIRED",
                              !.approach = "DISABLED"]
    /\ UNCHANGED <<rule, calm, redisLock, edit, edits, alertHistory>>

\* A cooldown ends, or the left key expires.
Elapse ==
    /\ \/ /\ alert.cooldown = "running" /\ alert' = [alert EXCEPT !.cooldown = "over"]
          /\ UNCHANGED <<calm, redisLock>>
       \/ ~calm /\ calm' = TRUE /\ UNCHANGED <<alert, redisLock>>
       \/ redisLock /\ redisLock' = FALSE /\ UNCHANGED <<alert, calm>>
    /\ UNCHANGED <<rule, edit, edits, alertHistory>>

-----------------------------------------------------------------------------
(* The owner's requests *)

\* The row as a request leaves it that finds nothing changed in between.
Off(status) == [alert EXCEPT !.status = status, !.runtime = "DISABLED",
                             !.approach = "DISABLED"]
Enabled == [alert EXCEPT !.status = "ACTIVE", !.runtime = "ARMED", !.last = NoPrice,
                         !.approach = ApproachStart, !.cooldown = "none"]
Edited(t) ==
    [alert EXCEPT !.target = t, !.last = NoPrice, !.runtime = "ARMED",
                  !.approach = ApproachStart,
                  !.status = IF @ \in {"COMPLETED", "EXPIRED"} THEN "ACTIVE" ELSE @]
ReApproached == [alert EXCEPT !.approach = ApproachStart]

\* disable, delete, enable and the two edits of update_alert.
Requested(op) ==
    CASE op = "disable"  -> {Off("DISABLED")}
      [] op = "delete"   -> {Off("DELETED")}
      [] op = "enable"   -> {Enabled}
      [] op = "edit"     -> {Edited(t) : t \in Targets0}
      [] op = "approach" -> {ReApproached}

\* Faulty variant: the request writes every column it loaded.
BadDirty(new) == new

\* The columns whose value is not the one that was loaded.
Dirty(new) == [f \in {g \in DOMAIN alert : new[g] # alert[g]} |-> new[f]]

\* The request loads the row and sets columns ...
EditRead(op) ==
    /\ edit = NoEdit /\ edits < MaxEdits /\ edits' = edits + 1
    /\ alert.status # "DELETED"
    /\ \E new \in Requested(op) : edit' = [op |-> op, put |-> Dirty(new)]
    /\ UNCHANGED <<rule, alert, calm, redisLock, alertHistory>>

\* ... and its commit writes those it has changed.
EditCommit ==
    /\ edit # NoEdit /\ edit' = NoEdit
    /\ alert' = [f \in DOMAIN alert |-> IF f \in DOMAIN edit.put THEN edit.put[f] ELSE alert[f]]
    /\ IF edit.op \in {"enable", "edit"}
       THEN /\ seen' = NoPrice /\ shots' = shots + 1
            /\ slips' = IF alert'.last # NoPrice THEN slips \cup {"baseline"} ELSE slips
       ELSE UNCHANGED <<seen, shots, slips>>
    /\ UNCHANGED <<rule, calm, redisLock, edits, missed, ghost>>

AlertNext ==
    \/ \E p \in Prices : Quiet(p) \/ Locked(p) \/ Warn(p) \/ Trigger(p) \/ EvaluatorDies(p)
    \/ ExpireAlert \/ Elapse \/ EditCommit
    \/ \E op \in {"disable", "delete", "enable", "edit", "approach"} : EditRead(op)

AlertSpec == AlertInit /\ [][AlertNext]_alertVars

-----------------------------------------------------------------------------
(* Properties *)

\* An alert that is armed fires at every crossing of the prices it was shown,
\* and only there, but for two races: a crossing that meets a left key is
\* passed over, and a price evaluated while a request resets an empty baseline
\* becomes the baseline of the new condition.
FollowsPrices == /\ missed => "lock" \in slips
                 /\ ghost => "baseline" \in slips

\* An alert that triggers once fires at most once for each time it was armed,
\* whatever requests are open when it fires.
OnePerArming == shots >= 0
=============================================================================
