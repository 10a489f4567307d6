--------------------------- MODULE Alerts_proofs ----------------------------
(***************************************************************************)
(* Proofs about alerts: PriceAlerts decides when one fires, AlertDelivery  *)
(* sends what the event says.                                              *)
(***************************************************************************)
EXTENDS PriceAlerts, AlertDelivery, TLAPS

-----------------------------------------------------------------------------
(* PriceAlerts, for any prices, targets, distances, alert types and        *)
(* requests.  The row's last price is the price evaluated last unless a    *)
(* race has left the two apart, and then no baseline is there to be        *)
(* crossed (Baseline): so an event without crossing, or a crossing without *)
(* event, has its race in the history.  An open request writes what its    *)
(* operation changed and nothing else (OpenEdit), so only one that arms    *)
(* the alert can give it back the arming an event has used (ArmingLeft).   *)

Columns == {"status", "runtime", "approach", "last", "target", "cooldown"}

\* What an open request may write: the values of its operation and no other
\* column; only one that arms the alert can make it active or armed.
Puts(op, put) ==
    /\ DOMAIN put \subseteq Columns
    /\ "status" \in DOMAIN put =>
          put["status"] \in IF op \in {"enable", "edit"} THEN {"ACTIVE"}
                            ELSE {"DISABLED", "DELETED"}
    /\ "runtime" \in DOMAIN put =>
          put["runtime"] \in IF op \in {"enable", "edit"} THEN {"ARMED"} ELSE {"DISABLED"}
    /\ "approach" \in DOMAIN put => put["approach"] \in {"WAITING", "DISABLED"}
    /\ "last" \in DOMAIN put => op \in {"enable", "edit"} /\ put["last"] = NoPrice
    /\ "target" \in DOMAIN put => put["target"] \in Targets0
    /\ "cooldown" \in DOMAIN put => put["cooldown"] = "none"

OpenEdit == edit = NoEdit \/ Puts(edit.op, edit.put)

\* The row's last price is the last one evaluated, or a race left it behind.
Baseline == alert.last = seen \/ (seen = NoPrice /\ "baseline" \in slips)

\* An alert that can fire once has an arming left.
CanFire == alert.status = "ACTIVE" /\ alert.runtime = "ARMED"
ArmingLeft == shots \in Nat /\ (rule.once /\ CanFire => shots >= 1)

AlertInv == AlertTypeOK /\ OpenEdit /\ Baseline /\ FollowsPrices /\ ArmingLeft

LEMMA AlertInitInv == AlertInit => AlertInv
<1> SUFFICES ASSUME AlertInit PROVE AlertInv
  OBVIOUS
<1>1. alert \in AlertRows /\ alert.last = NoPrice
  BY DEF AlertInit, AlertRows, ApproachStart
<1>2. AlertTypeOK
  <2>1. edits \in 0..MaxEdits /\ shots \in Int
    BY AlertAssumption DEF AlertInit, AlertAssumption
  <2> QED BY <1>1, <2>1 DEF AlertInit, AlertTypeOK
<1>3. OpenEdit /\ Baseline /\ FollowsPrices
  BY <1>1 DEF AlertInit, OpenEdit, Baseline, FollowsPrices
<1>4. ArmingLeft
  BY DEF AlertInit, ArmingLeft
<1> QED BY <1>2, <1>3, <1>4 DEF AlertInv

\* What every evaluation makes of the row.
LEMMA FollowedRow ==
    ASSUME AlertInv, NEW p \in Prices
    PROVE  /\ Followed(p) \in AlertRows
           /\ Followed(p).status = alert.status /\ Followed(p).last = p
           /\ Followed(p).runtime = Runtime(p)
           /\ Runtime(p) \in {alert.runtime, "ARMED"}
           /\ rule.once => Runtime(p) = alert.runtime
<1>1. Runtime(p) \in {"ARMED", "TRIGGERED", "COOLDOWN", "EXPIRED", "DISABLED"}
  BY DEF Runtime, AlertInv, AlertTypeOK, AlertRows
<1>2. Approach(p) \in {"WAITING", "APPROACH_SENT", "DISABLED"}
  BY DEF Approach, AlertInv, AlertTypeOK, AlertRows
<1>3. Followed(p) \in AlertRows /\ Followed(p).status = alert.status /\ Followed(p).last = p
      /\ Followed(p).runtime = Runtime(p)
  BY <1>1, <1>2 DEF Followed, AlertInv, AlertTypeOK, AlertRows
<1> QED BY <1>3 DEF Runtime, CanRearm

\* An approach warning and an event are never due of the same price.
LEMMA WarnsNotCrosses ==
    ASSUME AlertInv, NEW p \in Prices, Warns(p)
    PROVE  ~Crosses(alert.last, p)
<1>1. p \in Int /\ alert.target \in Int /\ ZoneWidth \in Nat /\ ApproachDistance \in Nat
  BY AlertAssumption DEF AlertInv, AlertTypeOK, AlertRows, AlertAssumption
<1>2. Approaches(alert.last, p)
  BY DEF Warns
<1>3. CASE rule.kind = "CROSSING_UP"
  <2>1. p < alert.target
    BY <1>1, <1>2, <1>3 DEF Approaches, Strip
  <2> QED BY <1>1, <1>3, <2>1 DEF Crosses, Beyond
<1>4. CASE rule.kind = "CROSSING_DOWN"
  <2>1. p > alert.target
    BY <1>1, <1>2, <1>4 DEF Approaches, Strip
  <2> QED BY <1>1, <1>4, <2>1 DEF Crosses, Beyond
<1>5. CASE rule.kind = "ENTERING_ZONE"
  <2>1. p < alert.target \/ p > alert.target + ZoneWidth
    BY <1>1, <1>2, <1>5 DEF Approaches, Strip
  <2> QED BY <1>1, <1>5, <2>1 DEF Crosses, Beyond, Zone
<1> QED BY <1>2, <1>3, <1>4, <1>5 DEF Approaches

\* An evaluation: the baseline is the price again, and the histories are true
\* of the row they were kept beside.
LEMMA ObservedHistory ==
    ASSUME AlertInv, NEW p \in Prices, NEW event \in {"none", "approach", "main"},
           Observe(p, event), alert'.last = p, slips \subseteq slips',
           event = "main" => Hits(p),
           Hits(p) => event = "main" \/ "lock" \in slips'
    PROVE  Baseline' /\ FollowsPrices'
<1>1. Baseline'
  BY DEF Observe, Baseline
<1>2. ASSUME missed', ~missed PROVE "lock" \in slips'
  <2>1. Runtime(p) = "ARMED" /\ Crosses(seen, p) /\ event # "main"
    BY <1>2 DEF Observe
  <2>2. alert.last = seen
    BY <2>1 DEF AlertInv, Baseline, Crosses
  <2> QED BY <2>1, <2>2 DEF Hits
<1>3. ASSUME ghost', ~ghost PROVE "baseline" \in slips'
  <2>1. event = "main" /\ ~Crosses(seen, p)
    BY <1>3 DEF Observe
  <2>2. alert.last # seen
    BY <2>1 DEF Hits
  <2> QED BY <2>2 DEF AlertInv, Baseline
<1>4. FollowsPrices'
  BY <1>2, <1>3 DEF AlertInv, FollowsPrices
<1> QED BY <1>1, <1>4

\* A row that becomes Followed(p), with or without a warning, cannot fire
\* unless it could before.
LEMMA SameArmings ==
    ASSUME AlertInv, NEW p \in Prices, UNCHANGED <<rule, shots>>,
           alert'.status = alert.status, alert'.runtime = Runtime(p)
    PROVE  ArmingLeft'
BY FollowedRow DEF AlertInv, ArmingLeft, CanFire

LEMMA ObservedType ==
    ASSUME AlertInv, NEW p \in Prices, NEW event, Observe(p, event)
    PROVE  /\ seen' \in Prices \cup {NoPrice}
           /\ {missed', ghost'} \subseteq BOOLEAN
BY DEF Observe, AlertInv, AlertTypeOK

LEMMA QuietInv ==
    ASSUME AlertInv, NEW p \in Prices, Quiet(p)
    PROVE  AlertInv'
<1>1. Baseline' /\ FollowsPrices'
  BY FollowedRow, ObservedHistory DEF Quiet
<1>2. ArmingLeft'
  BY FollowedRow, SameArmings DEF Quiet
<1>3. AlertTypeOK'
  BY FollowedRow, ObservedType DEF Quiet, AlertInv, AlertTypeOK
<1> QED BY <1>1, <1>2, <1>3 DEF Quiet, AlertInv, OpenEdit, Puts

LEMMA LockedInv ==
    ASSUME AlertInv, NEW p \in Prices, Locked(p)
    PROVE  AlertInv'
<1>1. Baseline' /\ FollowsPrices'
  BY FollowedRow, ObservedHistory DEF Locked
<1>2. ArmingLeft'
  BY FollowedRow, SameArmings DEF Locked
<1>3. AlertTypeOK'
  BY FollowedRow, ObservedType DEF Locked, AlertInv, AlertTypeOK
<1> QED BY <1>1, <1>2, <1>3 DEF Locked, AlertInv, OpenEdit, Puts

LEMMA WarnInv ==
    ASSUME AlertInv, NEW p \in Prices, Warn(p)
    PROVE  AlertInv'
<1> DEFINE row == [Followed(p) EXCEPT !.approach = "APPROACH_SENT"]
<1>1. /\ row \in AlertRows /\ row.status = alert.status
      /\ row.last = p /\ row.runtime = Runtime(p)
  BY FollowedRow DEF AlertRows
<1>2. ~Hits(p)
  BY WarnsNotCrosses DEF Warn, Hits
<1>3. Baseline' /\ FollowsPrices'
  BY <1>1, <1>2, ObservedHistory DEF Warn
<1>4. ArmingLeft'
  BY <1>1, SameArmings DEF Warn
<1>5. AlertTypeOK'
  BY <1>1, ObservedType DEF Warn, AlertInv, AlertTypeOK
<1> QED BY <1>3, <1>4, <1>5 DEF Warn, AlertInv, OpenEdit, Puts

\* Only an alert that can fire does, and one that fires once completes.
LEMMA TriggerInv ==
    ASSUME AlertInv, NEW p \in Prices, Trigger(p)
    PROVE  AlertInv'
<1>1. /\ Triggered(p) \in AlertRows /\ Triggered(p).last = p
      /\ rule.once => Triggered(p).status = "COMPLETED"
  <2> DEFINE row == Followed(p)
  <2>1. row \in AlertRows /\ row.last = p
    BY FollowedRow
  <2> HIDE DEF row
  <2>2. LET once == [row EXCEPT !.status = "COMPLETED", !.runtime = "TRIGGERED"]
        IN  once \in AlertRows /\ once.last = p /\ once.status = "COMPLETED"
    BY <2>1 DEF AlertRows
  <2>3. LET again == [row EXCEPT !.runtime = "COOLDOWN", !.cooldown = "running"]
        IN  again \in AlertRows /\ again.last = p
    BY <2>1 DEF AlertRows
  <2> QED BY <2>2, <2>3 DEF Triggered, row
<1>2. rule.once => CanFire
  BY FollowedRow DEF Trigger, Hits, CanFire
<1>3. Baseline' /\ FollowsPrices'
  BY <1>1, ObservedHistory DEF Trigger
<1>4. ArmingLeft'
  BY <1>1, <1>2 DEF Trigger, AlertInv, ArmingLeft, CanFire
<1>5. AlertTypeOK'
  BY <1>1, <1>4, ObservedType DEF Trigger, AlertInv, AlertTypeOK, ArmingLeft
<1> QED BY <1>3, <1>4, <1>5 DEF Trigger, AlertInv, OpenEdit, Puts

LEMMA ExpireAlertInv ==
    ASSUME AlertInv, ExpireAlert
    PROVE  AlertInv'
<1>1. alert' \in AlertRows /\ alert'.last = alert.last /\ alert'.status = "EXPIRED"
  BY DEF ExpireAlert, AlertInv, AlertTypeOK, AlertRows
<1>2. AlertTypeOK'
  BY <1>1 DEF ExpireAlert, alertHistory, AlertInv, AlertTypeOK
<1> QED BY <1>1, <1>2 DEF ExpireAlert, alertHistory, AlertInv, OpenEdit, Puts, Baseline,
                          FollowsPrices, ArmingLeft, CanFire

LEMMA ElapseInv ==
    ASSUME AlertInv, Elapse
    PROVE  AlertInv'
<1>1. /\ alert' \in AlertRows /\ alert'.last = alert.last
      /\ alert'.status = alert.status /\ alert'.runtime = alert.runtime
  BY DEF Elapse, AlertInv, AlertTypeOK, AlertRows
<1>2. AlertTypeOK'
  BY <1>1 DEF Elapse, alertHistory, AlertInv, AlertTypeOK
<1> QED BY <1>1, <1>2 DEF Elapse, alertHistory, AlertInv, OpenEdit, Puts, Baseline,
                          FollowsPrices, ArmingLeft, CanFire

LEMMA EvaluatorDiesInv ==
    ASSUME AlertInv, NEW p \in Prices, EvaluatorDies(p)
    PROVE  AlertInv'
<1>1. AlertTypeOK'
  BY DEF EvaluatorDies, alertHistory, AlertInv, AlertTypeOK
<1> QED BY <1>1 DEF EvaluatorDies, alertHistory, AlertInv, OpenEdit, Puts, Baseline,
                    FollowsPrices, ArmingLeft, CanFire

-----------------------------------------------------------------------------
(* The owner's requests *)

LEMMA EditReadInv ==
    ASSUME AlertInv, NEW op \in {"disable", "delete", "enable", "edit", "approach"},
           EditRead(op)
    PROVE  AlertInv'
<1>1. PICK new \in Requested(op) : edit' = [op |-> op, put |-> Dirty(new)]
  BY DEF EditRead
<1>2. DOMAIN alert = Columns /\ ApproachStart \in {"WAITING", "DISABLED"}
  BY DEF AlertInv, AlertTypeOK, AlertRows, Columns, ApproachStart
<1>3. /\ DOMAIN Dirty(new) \subseteq Columns
      /\ \A f \in DOMAIN Dirty(new) : new[f] # alert[f] /\ Dirty(new)[f] = new[f]
  BY <1>2 DEF Dirty
<1>4. Puts(op, Dirty(new))
  <2>1. CASE op \in {"disable", "delete"}
    <3>1. PICK s \in {"DISABLED", "DELETED"} : new = Off(s)
      BY <1>1, <2>1 DEF Requested
    <3>2. /\ new.status = s /\ new.runtime = "DISABLED"
          /\ new.approach = "DISABLED" /\ new.last = alert.last
          /\ new.target = alert.target /\ new.cooldown = alert.cooldown
      BY <3>1 DEF Off, AlertInv, AlertTypeOK, AlertRows
    <3> QED BY <1>3, <2>1, <3>2 DEF Puts
  <2>2. CASE op = "enable"
    <3>1. /\ new.status = "ACTIVE" /\ new.runtime = "ARMED"
          /\ new.approach \in {"WAITING", "DISABLED"} /\ new.last = NoPrice
          /\ new.target = alert.target /\ new.cooldown = "none"
      BY <1>1, <1>2, <2>2 DEF Requested, Enabled, AlertInv, AlertTypeOK, AlertRows
    <3> QED BY <1>3, <2>2, <3>1 DEF Puts
  <2>3. CASE op = "edit"
    <3>1. PICK t \in Targets0 : new = Edited(t)
      BY <1>1, <2>3 DEF Requested
    <3>2. /\ new.status \in {"ACTIVE", alert.status} /\ new.runtime = "ARMED"
          /\ new.approach \in {"WAITING", "DISABLED"} /\ new.last = NoPrice
          /\ new.target = t /\ new.cooldown = alert.cooldown
      BY <1>2, <3>1 DEF Edited, AlertInv, AlertTypeOK, AlertRows
    <3> QED BY <1>3, <2>3, <3>2 DEF Puts
  <2>4. CASE op = "approach"
    <3>1. /\ new.status = alert.status /\ new.runtime = alert.runtime
          /\ new.approach \in {"WAITING", "DISABLED"} /\ new.last = alert.last
          /\ new.target = alert.target /\ new.cooldown = alert.cooldown
      BY <1>1, <1>2, <2>4 DEF Requested, ReApproached, AlertInv, AlertTypeOK, AlertRows
    <3> QED BY <1>3, <2>4, <3>1 DEF Puts
  <2> QED BY <2>1, <2>2, <2>3, <2>4
<1>5. OpenEdit'
  BY <1>1, <1>4 DEF OpenEdit, Puts
<1>6. AlertTypeOK'
  <2>1. edits' \in 0..MaxEdits
    BY AlertAssumption DEF EditRead, AlertInv, AlertTypeOK, AlertAssumption
  <2> QED BY <2>1 DEF EditRead, alertHistory, AlertInv, AlertTypeOK
<1> QED BY <1>5, <1>6 DEF EditRead, alertHistory, AlertInv, Baseline, FollowsPrices,
                          ArmingLeft, CanFire

LEMMA EditCommitInv ==
    ASSUME AlertInv, EditCommit
    PROVE  AlertInv'
<1> DEFINE put == edit.put
<1>1. Puts(edit.op, put)
  BY DEF EditCommit, AlertInv, OpenEdit
<1>2. \A f \in Columns : alert'[f] = IF f \in DOMAIN put THEN put[f] ELSE alert[f]
  BY DEF EditCommit, AlertInv, AlertTypeOK, AlertRows, Columns
<1>3. alert' \in AlertRows
  <2>1. alert' = [f \in Columns |-> alert'[f]]
    BY DEF EditCommit, AlertInv, AlertTypeOK, AlertRows, Columns
  <2> QED BY <1>1, <1>2, <2>1 DEF Puts, AlertInv, AlertTypeOK, AlertRows, Columns
<1>4. CASE edit.op \in {"enable", "edit"}
  <2>1. /\ seen' = NoPrice /\ shots' = shots + 1 /\ slips \subseteq slips'
        /\ slips' \subseteq {"baseline", "lock"}
        /\ alert'.last # NoPrice => "baseline" \in slips'
    BY <1>4 DEF EditCommit, AlertInv, AlertTypeOK
  <2>2. ArmingLeft'
    BY <2>1 DEF AlertInv, ArmingLeft
  <2>3. AlertTypeOK'
    BY <1>3, <2>1 DEF EditCommit, AlertInv, AlertTypeOK
  <2>4. Baseline' /\ FollowsPrices'
    BY <2>1 DEF EditCommit, Baseline, AlertInv, FollowsPrices
  <2> QED BY <2>2, <2>3, <2>4 DEF EditCommit, AlertInv, OpenEdit
<1>5. CASE edit.op \notin {"enable", "edit"}
  <2>1. UNCHANGED <<seen, shots, slips>> /\ alert'.last = alert.last
    BY <1>1, <1>2, <1>5 DEF EditCommit, Puts, Columns
  <2>2. CanFire' => CanFire
    BY <1>1, <1>2, <1>5 DEF Puts, CanFire, Columns
  <2>3. ArmingLeft'
    BY <2>1, <2>2 DEF EditCommit, AlertInv, ArmingLeft
  <2>4. AlertTypeOK'
    BY <1>3, <2>1 DEF EditCommit, AlertInv, AlertTypeOK
  <2>5. Baseline' /\ FollowsPrices'
    BY <2>1 DEF EditCommit, Baseline, AlertInv, FollowsPrices
  <2> QED BY <2>3, <2>4, <2>5 DEF EditCommit, AlertInv, OpenEdit
<1> QED BY <1>4, <1>5

LEMMA AlertNextInv == AlertInv /\ [AlertNext]_alertVars => AlertInv'
<1>1. ASSUME AlertInv, UNCHANGED alertVars PROVE AlertInv'
  <2>1. AlertTypeOK'
    BY <1>1 DEF alertVars, alertHistory, AlertInv, AlertTypeOK
  <2> QED BY <1>1, <2>1 DEF alertVars, alertHistory, AlertInv, OpenEdit, Puts, Baseline,
                            FollowsPrices, ArmingLeft, CanFire
<1>2. ASSUME AlertInv, AlertNext PROVE AlertInv'
  BY <1>2, QuietInv, LockedInv, WarnInv, TriggerInv, EvaluatorDiesInv, ExpireAlertInv,
     ElapseInv, EditReadInv, EditCommitInv DEF AlertNext
<1> QED BY <1>1, <1>2

LEMMA AlertInvariant == AlertSpec => []AlertInv
BY AlertInitInv, AlertNextInv, PTL DEF AlertSpec

\* The types of the row, the rule and the histories.
THEOREM AlertTypeCorrect == AlertSpec => []AlertTypeOK
BY AlertInvariant, PTL DEF AlertInv

\* Whatever the owner's requests, the workers' deaths and the left keys: an armed
\* alert misses no crossing of the prices it was shown but at a left key, and
\* fires without one only after a request reset its baseline in a race.
THEOREM AlertFollows == AlertSpec => []FollowsPrices
BY AlertInvariant, PTL DEF AlertInv

\* An alert that triggers once fires no more often than it was armed, however its
\* events and the owner's requests interleave.
THEOREM AlertOnce == AlertSpec => []OnePerArming
<1>1. AlertInv => OnePerArming
  BY DEF AlertInv, ArmingLeft, OnePerArming
<1> QED BY <1>1, AlertInvariant, PTL

-----------------------------------------------------------------------------
(* AlertDelivery, for any rows, workers and number of attempts.  A worker  *)
(* holds a row from Take to Finish.  A held row reads SENDING or           *)
(* AMBIGUOUS, and only a row that waits can be taken, so no two workers    *)
(* hold one row and nobody else writes the outcome: this is what           *)
(* AMBIGUOUS, from which nothing leads back to a waiting row, is for.      *)

Holds(w) == sender[w].at \in {"sending", "replied"}

\* A row that waits has an attempt left.
AttemptLeft ==
    \A d \in Deliveries :
        delivery[d].status \in Waiting => delivery[d].attempt < MaxDeliveryAttempts

\* A row in a worker's hands waits for nobody, and is in no other's.
HeldAlone ==
    \A w \in Senders : Holds(w) =>
        /\ delivery[sender[w].row].status \in {"SENDING", "AMBIGUOUS"}
        /\ \A v \in Senders \ {w} : Holds(v) => sender[v].row # sender[w].row

\* What a worker knows of the message it sends.
Heard ==
    \A w \in Senders :
        /\ sender[w].at = "sending" => received[sender[w].row] = 0
        /\ sender[w].at = "replied" =>
              /\ sender[w].reply = "ok" => received[sender[w].row] = 1
              /\ sender[w].reply \in {"retry", "refused"} => received[sender[w].row] = 0

DeliveryInv == /\ DeliveryTypeOK /\ AttemptLeft /\ HeldAlone /\ Heard
       /\ NotifiedOnce /\ DeliveryTellsTruth

\* A worker's place in its pass.
LEMMA SenderType ==
    ASSUME DeliveryTypeOK, NEW w \in Senders
    PROVE  /\ sender[w].todo \in SUBSET Deliveries
           /\ sender[w].at \in {"idle", "marked", "pass"} =>
                  sender[w] \in [at : {"idle", "marked", "pass"}, todo : SUBSET Deliveries]
           /\ Holds(w) => sender[w].row \in Deliveries
           /\ sender[w].at = "replied" => sender[w].reply \in Replies
BY DEF DeliveryTypeOK, Holds

LEMMA DeliveryInitInv == DeliveryInit => DeliveryInv
BY DeliveryAssumption DEF DeliveryInit, DeliveryInv, DeliveryTypeOK, AttemptLeft, HeldAlone, Heard,
     NotifiedOnce, DeliveryTellsTruth, Asleep, Holds, Waiting, Ended

\* A step that writes neither the rows nor what arrived, and takes no row in hand.
LEMMA IdleStep ==
    ASSUME DeliveryInv, UNCHANGED <<delivery, received>>,
           elapsed' \in [Deliveries -> BOOLEAN],
           NEW w \in Senders,
           NEW next \in [at : {"idle", "marked", "pass"}, todo : SUBSET Deliveries],
           sender' = [sender EXCEPT ![w] = next]
    PROVE  DeliveryInv'
<1>1. \A v \in Senders : sender'[v] = IF v = w THEN next ELSE sender[v]
  BY DEF DeliveryInv, DeliveryTypeOK
<1>2. DeliveryTypeOK'
  BY <1>1 DEF DeliveryInv, DeliveryTypeOK
<1>3. HeldAlone' /\ Heard'
  BY <1>1 DEF DeliveryInv, HeldAlone, Heard, Holds
<1> QED BY <1>2, <1>3 DEF DeliveryInv, AttemptLeft, NotifiedOnce, DeliveryTellsTruth

LEMMA TimePassesInv ==
    ASSUME DeliveryInv, NEW d \in Deliveries, TimePasses(d)
    PROVE  DeliveryInv'
BY DEF TimePasses, DeliveryInv, DeliveryTypeOK, AttemptLeft, HeldAlone, Heard, Holds,
     NotifiedOnce, DeliveryTellsTruth

LEMMA MarkStaleInv ==
    ASSUME DeliveryInv, NEW w \in Senders, MarkStale(w)
    PROVE  DeliveryInv'
<1> DEFINE Stale(d) == delivery[d].status = "SENDING" /\ elapsed[d]
<1>1. \A d \in Deliveries :
        /\ delivery'[d].status = IF Stale(d) THEN "AMBIGUOUS" ELSE delivery[d].status
        /\ delivery'[d].attempt = delivery[d].attempt
  BY DEF MarkStale, Left, DeliveryInv, DeliveryTypeOK
<1>2. delivery' \in [Deliveries -> [status : Waiting \cup Ended \cup {"SENDING"},
                                    attempt : 0..MaxDeliveryAttempts]]
  BY DEF MarkStale, Left, DeliveryInv, DeliveryTypeOK, Ended
<1>3. \A v \in Senders : /\ Holds(v)' <=> Holds(v)
                         /\ Holds(v) => sender'[v] = sender[v]
  BY DEF MarkStale, DeliveryInv, DeliveryTypeOK, Holds
<1>4. DeliveryTypeOK'
  <2>1. [sender[w] EXCEPT !.at = "marked"] \in [at : {"marked"}, todo : SUBSET Deliveries]
    BY SenderType DEF MarkStale, DeliveryInv
  <2> QED BY <1>2, <2>1 DEF MarkStale, DeliveryInv, DeliveryTypeOK
<1>5. HeldAlone'
  BY <1>1, <1>3, SenderType DEF DeliveryInv, HeldAlone
<1>6. Heard'
  BY <1>3 DEF MarkStale, DeliveryInv, Heard, Holds
<1>7. AttemptLeft' /\ DeliveryTellsTruth' /\ NotifiedOnce'
  BY <1>1 DEF MarkStale, DeliveryInv, AttemptLeft, DeliveryTellsTruth, NotifiedOnce, Waiting
<1> QED BY <1>4, <1>5, <1>6, <1>7 DEF DeliveryInv

\* Nobody holds a row that waits.
LEMMA TakeInv ==
    ASSUME DeliveryInv, NEW w \in Senders, NEW d \in Deliveries, Take(w, d)
    PROVE  DeliveryInv'
<1> DEFINE next == [at |-> "sending", todo |-> sender[w].todo \ {d}, row |-> d]
<1>1. \A v \in Senders : sender'[v] = IF v = w THEN next ELSE sender[v]
  BY DEF Take, DeliveryInv, DeliveryTypeOK
<1>2. \A e \in Deliveries :
        delivery'[e] = IF e = d THEN [status |-> "SENDING", attempt |-> delivery[d].attempt + 1]
                       ELSE delivery[e]
  BY DEF Take, DeliveryInv, DeliveryTypeOK
<1>3. delivery[d].status \in Waiting /\ received[d] = 0
  BY DEF Take, Takeable, DeliveryInv, DeliveryTellsTruth
<1>4. \A v \in Senders : Holds(v) => sender[v].row # d
  BY <1>3 DEF DeliveryInv, HeldAlone, Waiting
<1>5. delivery[d].attempt + 1 \in 0..MaxDeliveryAttempts
  BY <1>3, DeliveryAssumption DEF DeliveryInv, AttemptLeft, DeliveryTypeOK
<1>6. DeliveryTypeOK'
  <2>1. next \in [at : {"sending"}, todo : SUBSET Deliveries, row : Deliveries]
    BY SenderType DEF DeliveryInv
  <2> QED BY <1>5, <2>1 DEF Take, DeliveryInv, DeliveryTypeOK
<1>7. HeldAlone'
  BY <1>1, <1>2, <1>4, SenderType DEF DeliveryInv, HeldAlone, Holds
<1>8. Heard'
  BY <1>1, <1>3 DEF Take, DeliveryInv, Heard
<1>9. AttemptLeft' /\ DeliveryTellsTruth' /\ NotifiedOnce'
  BY <1>2 DEF Take, DeliveryInv, AttemptLeft, DeliveryTellsTruth, NotifiedOnce, Waiting
<1> QED BY <1>6, <1>7, <1>8, <1>9 DEF DeliveryInv

\* The only step in which a message arrives: it had not arrived before.
LEMMA DispatchInv ==
    ASSUME DeliveryInv, NEW w \in Senders, Dispatch(w)
    PROVE  DeliveryInv'
<1> DEFINE d == sender[w].row
<1>1. PICK reply \in Replies, taken \in BOOLEAN :
        /\ reply = "ok" => taken
        /\ reply \in {"retry", "refused"} => ~taken
        /\ received' = [received EXCEPT ![d] = IF taken THEN received[d] + 1 ELSE received[d]]
        /\ sender' = [sender EXCEPT ![w] =
              [at |-> "replied", todo |-> sender[w].todo, row |-> d, reply |-> reply]]
  BY DEF Dispatch
<1>2. Holds(w) /\ sender[w].at = "sending" /\ d \in Deliveries
  BY SenderType DEF Dispatch, Holds, DeliveryInv
<1>3. received[d] = 0 /\ delivery[d].status \in {"SENDING", "AMBIGUOUS"}
  BY <1>2 DEF DeliveryInv, Heard, HeldAlone
<1>4. \A e \in Deliveries :
        received'[e] = IF e = d THEN IF taken THEN 1 ELSE 0 ELSE received[e]
  BY <1>1, <1>3 DEF DeliveryInv, DeliveryTypeOK
<1>5. \A v \in Senders :
        sender'[v] = IF v = w THEN [at |-> "replied", todo |-> sender[w].todo,
                                    row |-> d, reply |-> reply]
                     ELSE sender[v]
  BY <1>1 DEF DeliveryInv, DeliveryTypeOK
<1>6. DeliveryTypeOK'
  BY <1>1, <1>2, <1>3, SenderType DEF Dispatch, DeliveryInv, DeliveryTypeOK
<1>7. HeldAlone'
  BY <1>2, <1>5 DEF Dispatch, DeliveryInv, HeldAlone, Holds
<1>8. Heard'
  <2> SUFFICES ASSUME NEW v \in Senders, v # w
               PROVE  Holds(v) => received'[sender[v].row] = received[sender[v].row]
    BY <1>1, <1>2, <1>4, <1>5 DEF DeliveryInv, Heard, Holds
  <2> QED BY <1>2, <1>4, SenderType DEF DeliveryInv, HeldAlone
<1>9. AttemptLeft' /\ DeliveryTellsTruth' /\ NotifiedOnce'
  BY <1>3, <1>4 DEF Dispatch, DeliveryInv, AttemptLeft, DeliveryTellsTruth, NotifiedOnce, Waiting
<1> QED BY <1>6, <1>7, <1>8, <1>9 DEF DeliveryInv

\* The outcome that is written is what became of the message.
LEMMA FinishInv ==
    ASSUME DeliveryInv, NEW w \in Senders, Finish(w)
    PROVE  DeliveryInv'
<1> DEFINE d == sender[w].row
           outcome == NextStatus(sender[w].reply, delivery[d].attempt)
<1>1. sender[w].at = "replied" /\ Holds(w) /\ d \in Deliveries /\ sender[w].reply \in Replies
  BY SenderType DEF Finish, Holds, DeliveryInv
<1>2. /\ outcome \in {"SENT", "AMBIGUOUS", "RETRYING", "FAILED"}
      /\ outcome = "SENT" => sender[w].reply = "ok"
      /\ outcome \in {"RETRYING", "FAILED"} => sender[w].reply \in {"retry", "refused"}
      /\ outcome = "RETRYING" => delivery[d].attempt < MaxDeliveryAttempts
  BY <1>1 DEF NextStatus, Replies
<1>3. \A e \in Deliveries :
        /\ delivery'[e].status = IF e = d THEN outcome ELSE delivery[e].status
        /\ delivery'[e].attempt = delivery[e].attempt
  BY <1>1 DEF Finish, DeliveryInv, DeliveryTypeOK
<1>4. \A v \in Senders :
        sender'[v] = IF v = w THEN [at |-> "pass", todo |-> sender[w].todo] ELSE sender[v]
  BY DEF Finish, DeliveryInv, DeliveryTypeOK
<1>5. DeliveryTypeOK'
  <2>1. outcome \in Waiting \cup Ended
    BY <1>2 DEF Waiting, Ended
  <2> QED BY <1>1, <2>1, SenderType DEF Finish, DeliveryInv, DeliveryTypeOK
<1>6. HeldAlone'
  <2>1. \A v \in Senders \ {w} : Holds(v) => sender[v].row # d
    BY <1>1 DEF DeliveryInv, HeldAlone
  <2> QED BY <1>3, <1>4, <2>1, SenderType DEF DeliveryInv, HeldAlone, Holds
<1>7. Heard'
  BY <1>4 DEF Finish, DeliveryInv, Heard
<1>8. /\ outcome = "SENT" => received[d] = 1
      /\ outcome \in {"RETRYING", "FAILED"} => received[d] = 0
  BY <1>1, <1>2 DEF DeliveryInv, Heard
<1>9. AttemptLeft' /\ DeliveryTellsTruth' /\ NotifiedOnce'
  BY <1>2, <1>3, <1>8
  DEF Finish, DeliveryInv, AttemptLeft, DeliveryTellsTruth, NotifiedOnce, Waiting
<1> QED BY <1>5, <1>6, <1>7, <1>9 DEF DeliveryInv

LEMMA DeliveryNextInv == DeliveryInv /\ [DeliveryNext]_deliveryVars => DeliveryInv'
<1> SUFFICES ASSUME DeliveryInv, [DeliveryNext]_deliveryVars PROVE DeliveryInv'
  OBVIOUS
<1>1. ASSUME NEW d \in Deliveries, TimePasses(d) PROVE DeliveryInv'
  BY <1>1, TimePassesInv
<1>2. ASSUME NEW w \in Senders, MarkStale(w) PROVE DeliveryInv'
  BY <1>2, MarkStaleInv
<1>3. ASSUME NEW w \in Senders, Plan(w) PROVE DeliveryInv'
  <2> DEFINE due == {d \in Deliveries : \/ delivery[d].status = "PENDING"
                                        \/ delivery[d].status = "RETRYING" /\ elapsed[d]}
             next == [at |-> "pass", todo |-> due]
  <2>1. next \in [at : {"idle", "marked", "pass"}, todo : SUBSET Deliveries]
    OBVIOUS
  <2>2. sender' = [sender EXCEPT ![w] = next] /\ UNCHANGED <<delivery, elapsed, received>>
    BY <1>3 DEF Plan
  <2>3. elapsed' \in [Deliveries -> BOOLEAN]
    BY <2>2 DEF DeliveryInv, DeliveryTypeOK
  <2> HIDE DEF next
  <2> QED BY <2>1, <2>2, <2>3, IdleStep
<1>4. ASSUME NEW w \in Senders, Dispatch(w) PROVE DeliveryInv'
  BY <1>4, DispatchInv
<1>5. ASSUME NEW w \in Senders, Finish(w) PROVE DeliveryInv'
  BY <1>5, FinishInv
<1>6. ASSUME NEW w \in Senders, EndPass(w) PROVE DeliveryInv'
  BY <1>6, IdleStep DEF EndPass, Asleep, DeliveryInv, DeliveryTypeOK
<1>7. ASSUME NEW w \in Senders, NEW d \in Deliveries, Take(w, d) PROVE DeliveryInv'
  BY <1>7, TakeInv
<1>8. ASSUME NEW w \in Senders, NEW d \in Deliveries, PassBy(w, d) PROVE DeliveryInv'
  <2> DEFINE next == [sender[w] EXCEPT !.todo = @ \ {d}]
  <2>1. next \in [at : {"idle", "marked", "pass"}, todo : SUBSET Deliveries]
    BY <1>8, SenderType DEF PassBy, DeliveryInv
  <2>2. sender' = [sender EXCEPT ![w] = next] /\ UNCHANGED <<delivery, elapsed, received>>
    BY <1>8 DEF PassBy
  <2>3. elapsed' \in [Deliveries -> BOOLEAN]
    BY <2>2 DEF DeliveryInv, DeliveryTypeOK
  <2> HIDE DEF next
  <2> QED BY <2>1, <2>2, <2>3, IdleStep
<1>9. CASE UNCHANGED deliveryVars
  BY <1>9 DEF deliveryVars, DeliveryInv, DeliveryTypeOK, AttemptLeft, HeldAlone, Heard, Holds,
       NotifiedOnce, DeliveryTellsTruth
<1> QED BY <1>1, <1>2, <1>3, <1>4, <1>5, <1>6, <1>7, <1>8, <1>9 DEF DeliveryNext

LEMMA DeliveryInvariant == DeliverySpec => []DeliveryInv
BY DeliveryInitInv, DeliveryNextInv, PTL DEF DeliverySpec

\* The type invariant of the outbox; no row is attempted more than
\* MaxDeliveryAttempts times.
THEOREM DeliveryTypeCorrect == DeliverySpec => []DeliveryTypeOK
BY DeliveryInvariant, PTL DEF DeliveryInv

\* However workers share the rows, die or answer late, and whenever another
\* takes a row for left, no notification reaches its recipient twice.
THEOREM DeliveryNotifiesOnce == DeliverySpec => []NotifiedOnce
BY DeliveryInvariant, PTL DEF DeliveryInv

\* A row's status is true of its message, the late answers included.
THEOREM DeliveryIsTrue == DeliverySpec => []DeliveryTellsTruth
BY DeliveryInvariant, PTL DEF DeliveryInv

-----------------------------------------------------------------------------
(* The outbox implements OrderService.  A message arrives in Dispatch, for *)
(* the first time because its row is held alone; SENT is written by the    *)
(* holder, who heard that it arrived, over a row that is not settled yet.  *)

\* A settled row stays as it is.
SettledStep ==
    \A d \in Deliveries :
        delivery[d].status \in {"SENT", "FAILED"} => delivery'[d] = delivery[d]

OutboxStep == [DeliveryService!Next]_(DeliveryService!serviceVars)

\* A step in which nothing arrives and no row becomes SENT or leaves it.
LEMMA NothingArrives ==
    ASSUME received' = received,
           \A d \in Deliveries : delivery'[d].status = "SENT" <=> delivery[d].status = "SENT"
    PROVE  OutboxStep
BY DEF OutboxStep, DeliveryService!serviceVars

LEMMA RowsStay ==
    ASSUME UNCHANGED <<delivery, received>>
    PROVE  SettledStep /\ OutboxStep
BY NothingArrives DEF SettledStep

LEMMA MarkStaleSettled ==
    ASSUME DeliveryInv, NEW w \in Senders, MarkStale(w)
    PROVE  SettledStep /\ OutboxStep
<1>1. \A d \in Deliveries :
        delivery'[d] = IF delivery[d].status = "SENDING" /\ elapsed[d] THEN Left(d)
                       ELSE delivery[d]
  BY DEF MarkStale
<1>2. \A d \in Deliveries : Left(d).status = "AMBIGUOUS"
  BY DEF Left, DeliveryInv, DeliveryTypeOK
<1>3. SettledStep
  BY <1>1 DEF SettledStep
<1>4. OutboxStep
  BY <1>1, <1>2, NothingArrives DEF MarkStale
<1> QED BY <1>3, <1>4

LEMMA TakeSettled ==
    ASSUME DeliveryInv, NEW w \in Senders, NEW d \in Deliveries, Take(w, d)
    PROVE  SettledStep /\ OutboxStep
<1>1. delivery[d].status \in {"PENDING", "RETRYING"} /\ received' = received
  BY DEF Take, Takeable, Waiting
<1>2. \A e \in Deliveries :
        delivery'[e] = IF e = d THEN [status |-> "SENDING", attempt |-> delivery[d].attempt + 1]
                       ELSE delivery[e]
  BY DEF Take, DeliveryInv, DeliveryTypeOK
<1>3. SettledStep
  BY <1>1, <1>2 DEF SettledStep
<1>4. OutboxStep
  BY <1>1, <1>2, NothingArrives
<1> QED BY <1>3, <1>4

\* The sending.
LEMMA DispatchSettled ==
    ASSUME DeliveryInv, NEW w \in Senders, Dispatch(w)
    PROVE  SettledStep /\ OutboxStep
<1> DEFINE d == sender[w].row
<1>1. d \in Deliveries /\ received[d] = 0 /\ delivery' = delivery
  BY SenderType DEF Dispatch, Holds, DeliveryInv, Heard
<1>2. PICK taken \in BOOLEAN :
        received' = [received EXCEPT ![d] = IF taken THEN received[d] + 1 ELSE received[d]]
  BY DEF Dispatch
<1> HIDE DEF d
<1>3. CASE taken
  <2>1. received' = [received EXCEPT ![d] = 1]
    BY <1>1, <1>2, <1>3
  <2>2. DeliveryService!Send(d)
    BY <1>1, <2>1 DEF DeliveryService!Send
  <2> QED BY <1>1, <2>2 DEF SettledStep, OutboxStep, DeliveryService!Next
<1>4. CASE ~taken
  <2>1. received' = received
    BY <1>2, <1>4 DEF DeliveryInv, DeliveryTypeOK
  <2> QED BY <1>1, <2>1, RowsStay
<1> QED BY <1>3, <1>4

\* The recording.
LEMMA FinishSettled ==
    ASSUME DeliveryInv, NEW w \in Senders, Finish(w)
    PROVE  SettledStep /\ OutboxStep
<1>d. PICK d \in Deliveries : d = sender[w].row
  BY SenderType DEF Finish, Holds, DeliveryInv
<1> DEFINE outcome == NextStatus(sender[w].reply, delivery[d].attempt)
<1>1. sender[w].at = "replied" /\ delivery[d].status \in {"SENDING", "AMBIGUOUS"}
  BY <1>d DEF Finish, Holds, DeliveryInv, HeldAlone
<1>2. received' = received /\ delivery' = [delivery EXCEPT ![d].status = outcome]
  BY <1>d DEF Finish
<1>3. outcome = "SENT" => received[d] = 1
  BY <1>d, <1>1, SenderType DEF NextStatus, Replies, DeliveryInv, Heard, Holds
<1> HIDE DEF outcome
<1>4. /\ \A e \in Deliveries : e # d => delivery'[e] = delivery[e]
      /\ delivery'[d].status = outcome
  BY <1>1, <1>2 DEF DeliveryInv, DeliveryTypeOK
<1>5. SettledStep
  BY <1>1, <1>4 DEF SettledStep
<1>6. CASE outcome = "SENT"
  <2>1. DeliveryService!Record(d)
    <3>1. "FILLED" \in DeliveryService!Success
      BY DEF DeliveryService!Success
    <3>2. [e \in Deliveries |-> IF delivery'[e].status = "SENT" THEN "FILLED" ELSE "none"]
            = [[e \in Deliveries |-> IF delivery[e].status = "SENT" THEN "FILLED" ELSE "none"]
                EXCEPT ![d] = "FILLED"]
      BY <1>1, <1>4, <1>6
    <3> QED BY <1>1, <1>2, <1>3, <1>6, <3>1, <3>2 DEF DeliveryService!Record
  <2> QED BY <1>5, <2>1 DEF OutboxStep, DeliveryService!Next
<1>7. CASE outcome # "SENT"
  BY <1>1, <1>2, <1>4, <1>5, <1>7, NothingArrives
<1> QED BY <1>6, <1>7

LEMMA DeliveryNextSettles ==
    ASSUME DeliveryInv, [DeliveryNext]_deliveryVars
    PROVE  SettledStep /\ OutboxStep
<1>1. ASSUME NEW d \in Deliveries, TimePasses(d) PROVE SettledStep /\ OutboxStep
  BY <1>1, RowsStay DEF TimePasses
<1>2. ASSUME NEW w \in Senders, Plan(w) \/ EndPass(w) \/ \E d \in Deliveries : PassBy(w, d)
      PROVE  SettledStep /\ OutboxStep
  BY <1>2, RowsStay DEF Plan, EndPass, PassBy
<1>3. ASSUME NEW w \in Senders,
             MarkStale(w) \/ Dispatch(w) \/ Finish(w) \/ \E d \in Deliveries : Take(w, d)
      PROVE  SettledStep /\ OutboxStep
  BY <1>3, MarkStaleSettled, DispatchSettled, FinishSettled, TakeSettled
<1>4. CASE UNCHANGED deliveryVars
  BY <1>4, RowsStay DEF deliveryVars
<1> QED BY <1>1, <1>2, <1>3, <1>4 DEF DeliveryNext

\* A row that says SENT or FAILED says so for good: a worker that answers late
\* holds its row alone, and nobody takes a row that no longer waits.
THEOREM DeliverySettles == DeliverySpec => DeliveryIsFinal
<1>1. DeliveryInv /\ [DeliveryNext]_deliveryVars => [SettledStep]_deliveryVars
  BY DeliveryNextSettles
<1>2. DeliverySpec => [][SettledStep]_deliveryVars
  BY <1>1, DeliveryInvariant, PTL DEF DeliverySpec
<1> QED BY <1>2 DEF SettledStep, DeliveryIsFinal

\* The outbox keeps the promise of the order services: a message arrives once at
\* most, and that it did is recorded once, after it.
THEOREM DeliveryImplementsService == DeliverySpec => DeliveryServiceSpec
<1>1. DeliveryInit => DeliveryService!Init
  BY DEF DeliveryInit, DeliveryService!Init
<1>2. DeliveryInv /\ [DeliveryNext]_deliveryVars =>
        [DeliveryService!Next]_(DeliveryService!serviceVars)
  BY DeliveryNextSettles DEF OutboxStep
<1> QED BY <1>1, <1>2, DeliveryInvariant, PTL
        DEF DeliverySpec, DeliveryServiceSpec, DeliveryService!Spec
=============================================================================
