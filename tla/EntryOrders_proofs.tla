------------------------- MODULE EntryOrders_proofs -------------------------
(***************************************************************************)
(* Proofs about the two ways of an entry order to a broker that has no     *)
(* gateway in between: the reservations of CopyDispatch, for any copy      *)
(* accounts and passes, and the command rows of Mt5Commands, for any       *)
(* callers, handlers and commands, and one agent.                          *)
(***************************************************************************)
EXTENDS CopyDispatch, Mt5Commands, FiniteSetTheorems, WellFoundedInduction, TLAPS

-----------------------------------------------------------------------------
(* CopyDispatch: what protects an account is its order row and not the     *)
(* advisory lock, which ends with the reservation.  A row is reserved only  *)
(* from Reclaimable, and nothing but a release leads back there from the    *)
(* moment it is reserved.  So while nobody else released it, one dispatcher *)
(* at most has the account's order in hand (Sound).                         *)


Places == {"idle", "start", "checked", "reserved", "sent", "refused", "failed"}

\* A dispatcher has the order in hand: reserved, given up before the call, sent.
InHand == {"reserved", "failed", "sent"}

Sound(t) ==
    /\ posted[t] <= 1
    /\ posted[t] > 0 => orders[t] \notin Reclaimable
    /\ \A d \in Dispatchers :
          /\ task[d][t] \in {"reserved", "failed"} => orders[t] = "PENDING" /\ posted[t] = 0
          /\ task[d][t] = "sent" => posted[t] = 1
          /\ task[d][t] \in InHand =>
                \A e \in Dispatchers \ {d} : task[e][t] \notin InHand

CopyInv == CopyTypeOK /\ \A t \in Targets : released[t] \/ Sound(t)

LEMMA CopyInitInv == CopyInit => CopyInv
<1> SUFFICES ASSUME CopyInit PROVE CopyInv
  OBVIOUS
<1>1. CopyTypeOK
  <2>1. task \in [Dispatchers -> [Targets -> {"idle"}]]
    BY DEF CopyInit
  <2>2. copyLock \in [Targets -> Dispatchers \cup {NoDispatcher}]
    BY DEF CopyInit
  <2>3. orders \in [Targets -> OrderStates] /\ primary \in {"none", "PLACED", "FILLED"}
    BY DEF CopyInit, OrderStates
  <2>4. passes \in 0..MaxPasses
    BY CopyAssumption DEF CopyInit, CopyAssumption
  <2>5. posted \in [Targets -> Nat] /\ released \in [Targets -> BOOLEAN]
    BY DEF CopyInit
  <2>6. outdated \in BOOLEAN
    BY DEF CopyInit
  <2> QED BY <2>1, <2>2, <2>3, <2>4, <2>5, <2>6 DEF CopyTypeOK
<1>2. ASSUME NEW t \in Targets PROVE Sound(t)
  <2>1. posted[t] = 0 /\ \A d \in Dispatchers : task[d][t] = "idle"
    BY DEF CopyInit
  <2> QED BY <2>1 DEF Sound, InHand
<1> QED BY <1>1, <1>2 DEF CopyInv

\* A task of one account moves, the others stay.
LEMMA GotoStep ==
    ASSUME CopyTypeOK, NEW d \in Dispatchers, NEW t \in Targets, NEW place \in Places,
           Goto(d, t, place)
    PROVE  /\ task' \in [Dispatchers -> [Targets -> Places]]
           /\ \A e \in Dispatchers, u \in Targets :
                 task'[e][u] = IF e = d /\ u = t THEN place ELSE task[e][u]
BY DEF CopyTypeOK, Goto, Places

LEMMA UnlockType ==
    ASSUME CopyTypeOK, NEW d, NEW t, Unlock(d, t)
    PROVE  copyLock' \in [Targets -> Dispatchers \cup {NoDispatcher}]
BY DEF CopyTypeOK, Unlock

\* An account keeps its soundness in a step that leaves its rows alone and
\* gives its order to nobody.
LEMMA Untouched ==
    ASSUME NEW t \in Targets, released[t] \/ Sound(t),
           orders'[t] = orders[t], posted'[t] = posted[t], released'[t] = released[t],
           \A e \in Dispatchers : task'[e][t] \in {task[e][t], "idle", "start", "checked", "refused"}
    PROVE  released'[t] \/ Sound(t)'
BY DEF Sound, InHand

\* The actions that write neither order rows nor history.
LEMMA QuietStep ==
    ASSUME CopyInv, UNCHANGED <<orders, posted, released>>, CopyTypeOK',
           \A e \in Dispatchers, u \in Targets :
              task'[e][u] \in {task[e][u], "idle", "start", "checked", "refused"}
    PROVE  CopyInv'
BY Untouched DEF CopyInv

\* The actions on one account: the others stay as they are.
LEMMA AccountStep ==
    ASSUME CopyInv, CopyTypeOK', NEW d \in Dispatchers, NEW t \in Targets,
           NEW place \in Places, Goto(d, t, place),
           \A u \in Targets \ {t} : /\ orders'[u] = orders[u] /\ posted'[u] = posted[u]
                                    /\ released'[u] = released[u],
           released'[t] \/ Sound(t)'
    PROVE  CopyInv'
<1>1. \A u \in Targets \ {t}, e \in Dispatchers : task'[e][u] = task[e][u]
  BY GotoStep DEF CopyInv
<1>2. \A u \in Targets \ {t} : released'[u] \/ Sound(u)'
  BY <1>1, Untouched DEF CopyInv
<1> QED BY <1>2 DEF CopyInv

\* Only a row that may be reclaimed is reserved, and then nobody has the order.
LEMMA ReserveInv ==
    ASSUME CopyInv, NEW d \in Dispatchers, NEW t \in Targets, Reserve(d, t)
    PROVE  CopyInv'
<1>1. Goto(d, t, "reserved") /\ "reserved" \in Places
  BY DEF Reserve, Places
<1>2. CopyTypeOK'
  BY <1>1, GotoStep, UnlockType DEF Reserve, CopyInv, CopyTypeOK, OrderStates, Places
<1>3. released'[t] \/ Sound(t)'
  <2> SUFFICES ASSUME ~released[t] PROVE Sound(t)'
    BY DEF Reserve
  <2>1. Sound(t) /\ orders[t] \in Reclaimable
    BY DEF CopyInv, Reserve, Claimable
  <2>2. posted[t] = 0 /\ \A e \in Dispatchers : task[e][t] \notin InHand
    BY <2>1 DEF Sound, Reclaimable, InHand, CopyInv, CopyTypeOK
  <2>3. orders'[t] = "PENDING" /\ posted'[t] = 0
    BY <2>2 DEF Reserve, CopyInv, CopyTypeOK
  <2>4. \A e \in Dispatchers : task'[e][t] = IF e = d THEN "reserved" ELSE task[e][t]
    BY <1>1, GotoStep DEF CopyInv
  <2> QED BY <2>2, <2>3, <2>4 DEF Sound, InHand
<1>4. \A u \in Targets \ {t} : orders'[u] = orders[u]
  BY DEF Reserve, CopyInv, CopyTypeOK
<1> QED BY <1>1, <1>2, <1>3, <1>4, AccountStep DEF Reserve

LEMMA SubmitInv ==
    ASSUME CopyInv, NEW d \in Dispatchers, NEW t \in Targets, Submit(d, t)
    PROVE  CopyInv'
<1>1. Goto(d, t, "sent") /\ "sent" \in Places
  BY DEF Submit, Places
<1>2. CopyTypeOK'
  BY <1>1, GotoStep DEF Submit, CopyInv, CopyTypeOK, Places
<1>3. released'[t] \/ Sound(t)'
  <2> SUFFICES ASSUME ~released[t] PROVE Sound(t)'
    BY DEF Submit
  <2>1. Sound(t) /\ task[d][t] = "reserved"
    BY DEF CopyInv, Submit
  <2>2. /\ orders[t] = "PENDING" /\ posted[t] = 0
        /\ \A e \in Dispatchers \ {d} : task[e][t] \notin InHand
    BY <2>1 DEF Sound, InHand
  <2>3. orders'[t] = "PENDING" /\ posted'[t] = 1
    BY <2>2 DEF Submit, CopyInv, CopyTypeOK
  <2>4. \A e \in Dispatchers : task'[e][t] = IF e = d THEN "sent" ELSE task[e][t]
    BY <1>1, GotoStep DEF CopyInv
  <2> QED BY <2>2, <2>3, <2>4 DEF Sound, InHand, Reclaimable
<1>4. \A u \in Targets \ {t} : posted'[u] = posted[u]
  BY DEF Submit, CopyInv, CopyTypeOK
<1> QED BY <1>1, <1>2, <1>3, <1>4, AccountStep DEF Submit

\* The row after an answer: whatever it becomes, it may not be reclaimed.
LEMMA Answered ==
    ASSUME CopyInv, NEW d \in Dispatchers, NEW t \in Targets, NEW s \in OrderStates,
           task[d][t] = "sent", Goto(d, t, "idle"),
           orders' = [orders EXCEPT ![t] = s],
           ~released[t] => s \notin Reclaimable,
           UNCHANGED <<primary, outdated, copyLock, passes, posted, released>>
    PROVE  CopyInv'
<1>1. "idle" \in Places
  BY DEF Places
<1>2. CopyTypeOK'
  BY <1>1, GotoStep DEF CopyInv, CopyTypeOK, Places
<1>3. released'[t] \/ Sound(t)'
  <2> SUFFICES ASSUME ~released[t] PROVE Sound(t)'
    OBVIOUS
  <2>1. Sound(t)
    BY DEF CopyInv
  <2>2. posted[t] = 1 /\ \A e \in Dispatchers \ {d} : task[e][t] \notin InHand
    BY <2>1 DEF Sound, InHand
  <2>3. orders'[t] \notin Reclaimable
    BY DEF CopyInv, CopyTypeOK
  <2>4. \A e \in Dispatchers : task'[e][t] = IF e = d THEN "idle" ELSE task[e][t]
    BY <1>1, GotoStep DEF CopyInv
  <2> QED BY <2>2, <2>3, <2>4 DEF Sound, InHand
<1>4. \A u \in Targets \ {t} : orders'[u] = orders[u]
  BY DEF CopyInv, CopyTypeOK
<1> QED BY <1>1, <1>2, <1>3, <1>4, AccountStep

LEMMA AnswerUnknownInv ==
    ASSUME CopyInv, NEW d \in Dispatchers, NEW t \in Targets, AnswerUnknown(d, t)
    PROVE  CopyInv'
<1> DEFINE s == CASE orders[t] = "SKIPPED" -> "DEAD"
                  [] orders[t] = "PENDING" /\ t \in CTraderKeyed -> "UNKNOWN"
                  [] OTHER -> orders[t]
<1>1. orders[t] \in OrderStates
  BY DEF CopyInv, CopyTypeOK
<1>2. s \in OrderStates
  BY <1>1 DEF OrderStates
<1>3. ~released[t] => orders[t] \notin Reclaimable
  BY DEF AnswerUnknown, CopyInv, Sound
<1>4. ~released[t] => s \notin Reclaimable
  BY <1>3 DEF Reclaimable
<1>5. orders' = [orders EXCEPT ![t] = s]
  BY DEF AnswerUnknown
<1> HIDE DEF s
<1> QED BY <1>2, <1>4, <1>5, Answered DEF AnswerUnknown

\* Cleanup: a reservation of one's own was not sent; another's is released.
LEMMA CleanupInv ==
    ASSUME CopyInv, NEW d \in Dispatchers, NEW t \in Targets, Cleanup(d, t)
    PROVE  CopyInv'
<1>1. Goto(d, t, "idle") /\ "idle" \in Places
  BY DEF Cleanup, Places
<1>2. /\ orders'[t] = IF orders[t] = "PENDING" THEN "SKIPPED" ELSE orders[t]
      /\ released'[t] = (released[t] \/ (task[d][t] = "refused" /\ orders[t] = "PENDING"))
      /\ posted'[t] = posted[t]
  BY DEF Cleanup, CopyInv, CopyTypeOK
<1>3. CopyTypeOK'
  <2>1. released' \in [Targets -> BOOLEAN]
    BY DEF Cleanup, CopyInv, CopyTypeOK
  <2>2. orders' \in [Targets -> OrderStates]
    BY DEF Cleanup, CopyInv, CopyTypeOK, OrderStates
  <2> QED BY <1>1, <2>1, <2>2, GotoStep DEF Cleanup, CopyInv, CopyTypeOK, Places
<1>4. released'[t] \/ Sound(t)'
  <2> SUFFICES ASSUME ~released'[t] PROVE Sound(t)'
    OBVIOUS
  <2>1. Sound(t)
    BY <1>2 DEF CopyInv
  <2>2. \A e \in Dispatchers : task'[e][t] = IF e = d THEN "idle" ELSE task[e][t]
    BY <1>1, GotoStep DEF CopyInv
  <2>3. CASE task[d][t] = "failed"
    <3>1. posted[t] = 0 /\ \A e \in Dispatchers \ {d} : task[e][t] \notin InHand
      BY <2>1, <2>3 DEF Sound, InHand
    <3> QED BY <1>2, <2>2, <3>1 DEF Sound, InHand
  <2>4. CASE task[d][t] = "refused"
    <3>1. orders'[t] = orders[t]
      BY <1>2, <2>4
    <3> QED BY <1>2, <2>1, <2>2, <3>1 DEF Sound, InHand
  <2> QED BY <2>3, <2>4 DEF Cleanup
<1>5. \A u \in Targets \ {t} : orders'[u] = orders[u] /\ released'[u] = released[u]
  BY DEF Cleanup, CopyInv, CopyTypeOK
<1> QED BY <1>1, <1>3, <1>4, <1>5, AccountStep DEF Cleanup

\* Reconciliation writes rows that are at the broker, never back to Reclaimable.
LEMMA ReconcileInv ==
    ASSUME CopyInv, NEW t \in Targets, ReconcileCopy(t)
    PROVE  CopyInv'
<1>1. PICK s \in {"FILLED", "ERROR"} : orders' = [orders EXCEPT ![t] = s]
  BY DEF ReconcileCopy
<1>2. CopyTypeOK'
  BY <1>1 DEF ReconcileCopy, CopyInv, CopyTypeOK, OrderStates
<1>3. released'[t] \/ Sound(t)'
  <2> SUFFICES ASSUME ~released[t] PROVE Sound(t)'
    BY DEF ReconcileCopy
  <2>1. Sound(t)
    BY DEF CopyInv
  <2>2. orders[t] = "PENDING" => posted[t] = 1
    BY <2>1 DEF ReconcileCopy, Sound, CopyInv, CopyTypeOK
  <2>3. \A e \in Dispatchers : task[e][t] \notin {"reserved", "failed"}
    BY <2>1, <2>2 DEF ReconcileCopy, Sound
  <2>4. orders'[t] \notin Reclaimable
    BY <1>1 DEF CopyInv, CopyTypeOK, Reclaimable
  <2> QED BY <2>1, <2>3, <2>4 DEF ReconcileCopy, Sound, InHand
<1>4. \A u \in Targets \ {t} : released'[u] \/ Sound(u)'
  <2> SUFFICES ASSUME NEW u \in Targets \ {t} PROVE released'[u] \/ Sound(u)'
    OBVIOUS
  <2>1. orders'[u] = orders[u]
    BY <1>1 DEF CopyInv, CopyTypeOK
  <2> QED BY <2>1, Untouched DEF ReconcileCopy, CopyInv
<1> QED BY <1>2, <1>3, <1>4 DEF CopyInv

\* The actions of one account that write no row: an exception or a rejection
\* before the reservation or after it, and the advisory lock.
LEMMA PlainAccountInv ==
    ASSUME CopyInv, NEW d \in Dispatchers, NEW t \in Targets,
           \/ BeginCopy(d, t) \/ Raise(d, t) \/ RejectCopy(d, t)
           \/ BlockDuplicate(d, t) \/ RaiseLate(d, t)
    PROVE  CopyInv'
<1>1. UNCHANGED <<primary, outdated, orders, passes, posted, released>>
  BY DEF BeginCopy, Raise, RejectCopy, BlockDuplicate, RaiseLate
<1>2. PICK place \in {"idle", "checked", "refused", "failed"} :
        /\ Goto(d, t, place)
        /\ place = "failed" => task[d][t] = "reserved"
  BY DEF BeginCopy, Raise, RejectCopy, BlockDuplicate, RaiseLate
<1>3. place \in Places
  BY DEF Places
<1>4. copyLock' \in [Targets -> Dispatchers \cup {NoDispatcher}]
  BY UnlockType DEF BeginCopy, Raise, RejectCopy, BlockDuplicate, RaiseLate, CopyInv, CopyTypeOK
<1>5. CopyTypeOK'
  BY <1>1, <1>2, <1>3, <1>4, GotoStep DEF CopyInv, CopyTypeOK, Places
<1>6. \A e \in Dispatchers : task'[e][t] = IF e = d THEN place ELSE task[e][t]
  BY <1>2, <1>3, GotoStep DEF CopyInv
<1>7. released'[t] \/ Sound(t)'
  BY <1>1, <1>2, <1>6 DEF CopyInv, Sound, InHand
<1> QED BY <1>1, <1>2, <1>3, <1>5, <1>7, AccountStep

LEMMA CopyNextInv == CopyInv /\ [CopyNext]_copyVars => CopyInv'
<1> SUFFICES ASSUME CopyInv, [CopyNext]_copyVars PROVE CopyInv'
  OBVIOUS
<1>1. CASE ExecutePrimary
  <2> PICK s \in {"PLACED", "FILLED"} : task' = [task EXCEPT ![Runner] =
          [t \in Targets |-> IF Confirmed(s) THEN "start" ELSE "idle"]]
    BY <1>1 DEF ExecutePrimary
  <2> DEFINE tasks == [t \in Targets |-> IF Confirmed(s) THEN "start" ELSE "idle"]
  <2>0. tasks \in [Targets -> {"start", "idle"}]
    OBVIOUS
  <2>1. /\ task' \in [Dispatchers -> [Targets -> Places]]
        /\ \A e \in Dispatchers, u \in Targets : task'[e][u] \in {task[e][u], "idle", "start"}
    <3> HIDE DEF tasks
    <3> QED BY <2>0 DEF CopyInv, CopyTypeOK, Places
  <2>2. CopyTypeOK'
    BY <1>1, <2>1 DEF ExecutePrimary, CopyInv, CopyTypeOK, Places
  <2>3. \A e \in Dispatchers, u \in Targets : task'[e][u] \in {task[e][u], "idle", "start"}
    BY <2>1
  <2> QED BY <1>1, <2>2, <2>3, QuietStep DEF ExecutePrimary
<1>2. CASE ConfirmPrimary
  BY <1>2, QuietStep DEF ConfirmPrimary, CopyInv, CopyTypeOK
<1>3. CASE Outdate
  BY <1>3, QuietStep DEF Outdate, CopyInv, CopyTypeOK
<1>4. CASE PlanPass
  <2>1. task' \in [Dispatchers -> [Targets -> Places]]
    BY <1>4 DEF PlanPass, CopyInv, CopyTypeOK, Places
  <2>2. CopyTypeOK'
    BY <1>4, <2>1, CopyAssumption DEF PlanPass, CopyInv, CopyTypeOK, Places
  <2>3. \A e \in Dispatchers, u \in Targets : task'[e][u] \in {task[e][u], "idle", "start"}
    BY <1>4 DEF PlanPass, CopyInv, CopyTypeOK
  <2> QED BY <1>4, <2>2, <2>3, QuietStep DEF PlanPass
<1>5. ASSUME NEW d \in Dispatchers, NEW t \in Targets,
             \/ BeginCopy(d, t) \/ Raise(d, t) \/ RejectCopy(d, t)
             \/ BlockDuplicate(d, t) \/ RaiseLate(d, t)
      PROVE  CopyInv'
  BY <1>5, PlainAccountInv
<1>6. ASSUME NEW d \in Dispatchers, NEW t \in Targets, Reserve(d, t) PROVE CopyInv'
  BY <1>6, ReserveInv
<1>7. ASSUME NEW d \in Dispatchers, NEW t \in Targets, Submit(d, t) PROVE CopyInv'
  BY <1>7, SubmitInv
<1>8. ASSUME NEW d \in Dispatchers, NEW t \in Targets, AnswerCopy(d, t) PROVE CopyInv'
  <2>1. PICK s \in Answers : orders' = [orders EXCEPT ![t] = s]
    BY <1>8 DEF AnswerCopy
  <2>2. s \in OrderStates /\ s \notin Reclaimable
    BY DEF Answers, OrderStates, Reclaimable
  <2> QED BY <1>8, <2>1, <2>2, Answered DEF AnswerCopy
<1>9. ASSUME NEW d \in Dispatchers, NEW t \in Targets, AnswerUnknown(d, t) PROVE CopyInv'
  BY <1>9, AnswerUnknownInv
<1>10. ASSUME NEW d \in Dispatchers, NEW t \in Targets, Cleanup(d, t) PROVE CopyInv'
  BY <1>10, CleanupInv
<1>11. ASSUME NEW d \in Dispatchers, CrashCopy(d) PROVE CopyInv'
  <2>1. task' \in [Dispatchers -> [Targets -> Places]]
    BY <1>11 DEF CrashCopy, CopyInv, CopyTypeOK, Places
  <2>2. copyLock' \in [Targets -> Dispatchers \cup {NoDispatcher}]
    BY <1>11 DEF CrashCopy, CopyInv, CopyTypeOK
  <2>3. CopyTypeOK'
    BY <1>11, <2>1, <2>2 DEF CrashCopy, CopyInv, CopyTypeOK, Places
  <2>4. \A e \in Dispatchers, u \in Targets : task'[e][u] \in {task[e][u], "idle"}
    BY <1>11 DEF CrashCopy, CopyInv, CopyTypeOK
  <2> QED BY <1>11, <2>3, <2>4, QuietStep DEF CrashCopy
<1>12. ASSUME NEW t \in Targets, ReconcileCopy(t) PROVE CopyInv'
  BY <1>12, ReconcileInv
<1>13. CASE UNCHANGED copyVars
  BY <1>13, QuietStep DEF copyVars, CopyInv, CopyTypeOK
<1> QED BY <1>1, <1>2, <1>3, <1>4, <1>5, <1>6, <1>7, <1>8, <1>9, <1>10, <1>11, <1>12, <1>13
        DEF CopyNext

LEMMA CopyInvariant == CopySpec => []CopyInv
BY CopyInitInv, CopyNextInv, PTL DEF CopySpec

\* The type invariant of the dispatch of copies.
THEOREM CopyTypeCorrect == CopySpec => []CopyTypeOK
BY CopyInvariant, PTL DEF CopyInv

\* An account is sent a second order, or two dispatchers hold its reservation,
\* only after a task that had not made the reservation released it: crashes,
\* lost answers and races of the runner with the worker are never enough.
THEOREM CopySentAgainOnlyIfReleased == CopySpec => []SentAgainOnlyIfReleased
<1>1. CopyInv => SentAgainOnlyIfReleased
  BY CopyAssumption DEF CopyInv, SentAgainOnlyIfReleased, Sound, InHand, Dispatchers
<1> QED BY <1>1, CopyInvariant, PTL

\* An order that may be at the broker has a row that stops further attempts.
THEOREM CopySentIsBlocking == CopySpec => []SentIsBlocking
<1>1. CopyInv => SentIsBlocking
  BY DEF CopyInv, SentIsBlocking, Sound
<1> QED BY <1>1, CopyInvariant, PTL

-----------------------------------------------------------------------------
(* Mt5Commands: a command is awaited while it is PENDING or before the      *)
(* agent, in the response it waits for or in the rest of its batch.  An     *)
(* awaited command is untried (Fresh).  When the agent executes a command   *)
(* it is awaited no more, since no response is prepared for a busy agent,   *)
(* no row becomes PENDING again, and no second command has the key.         *)
(* Nothing in the code keeps a second process with the account's token from *)
(* executing the same rows, so that OneAgent is assumed.                    *)


OneAgent == \A g, h \in Agents : g = h

\* Rows are numbered in the order of their insertion.
Numbered == \E n \in 0..MaxCommands : Inserted = 1..n

\* One command per key, and none before the key's order.
OneCommand ==
    /\ \A i, j \in Inserted : command_key[i] = command_key[j] => i = j
    /\ \A k \in EntryKeys : entry[k] = "none" => ~Existing(k) /\ submitted[k] = 0

\* What is selected, handed to the agent or reported are inserted rows.
Known ==
    /\ \A p \in Polls : poll[p].rows \subseteq Inserted
    /\ \A g \in Agents : agent[g].todo \subseteq Inserted
    /\ \A r \in results : r.id \in Inserted

\* An agent waits for a handler or works on a batch that is not empty.
Working ==
    \A g \in Agents :
        /\ agent[g].at = "waiting" <=> agent[g].poll # NoPoll
        /\ agent[g].at \in {"batch", "posting"} => agent[g].todo # {}

\* A response is sent when its rows are marked.
Marked ==
    /\ \A p \in Polls : poll[p].at = "answered" =>
           \A i \in poll[p].rows : command_status[i] # "PENDING"
    /\ \A g \in Agents : agent[g].at \in {"batch", "posting"} =>
           \A i \in agent[g].todo : command_status[i] # "PENDING"

\* Command i is before agent g, not yet executed.
Before(g, i) ==
    \/ /\ agent[g].at = "waiting" /\ poll[agent[g].poll].at \in {"select", "answered"}
       /\ i \in poll[agent[g].poll].rows
    \/ agent[g].at = "batch" /\ i \in agent[g].todo
    \/ agent[g].at = "posting" /\ i \in agent[g].todo /\ i # First(agent[g].todo)

Awaited(i) == command_status[i] = "PENDING" \/ \E g \in Agents : Before(g, i)

Untried(i) ==
    /\ entry[command_key[i]] = "PLACED" /\ submitted[command_key[i]] = 0
    /\ \A r \in results : r.id # i

Fresh == \A i \in Inserted : Awaited(i) => Untried(i)

\* The terminal executes what it was given, at most once; an order it still has
\* to decide was taken by it and is not executed.
Executing ==
    \A k \in EntryKeys :
        /\ submitted[k] <= 1 /\ executed[k] <= submitted[k]
        /\ k \in working => submitted[k] = 1 /\ executed[k] = 0 /\ "PLACED" \in retcodes[k]

\* What a success and a failure say of the order of a key.  Nothing can become
\* of an order reported as a failure any more.
Succeeded(k) == executed[k] >= 1 \/ "PLACED" \in retcodes[k]

Failed(k) ==
    k \notin working /\ (executed[k] = 0 \/ retcodes[k] \cap {"DONE_PARTIAL", "NONE"} # {})

\* A result under way is true, and so is the row where one was stored.
Reported ==
    \A r \in results :
        /\ r.ok => submitted[command_key[r.id]] = 1 /\ Succeeded(command_key[r.id])
        /\ ~r.ok => Failed(command_key[r.id])

Truthful ==
    \A k \in EntryKeys :
        /\ entry[k] = "FILLED" => Succeeded(k)
        /\ entry[k] = "ERROR" => Failed(k)

CommandInv == /\ Mt5TypeOK /\ Numbered /\ OneCommand /\ Known /\ Working /\ Marked
       /\ Fresh /\ Executing /\ Reported /\ Truthful

-----------------------------------------------------------------------------
(* The first command of a batch *)

Less == {p \in Nat \X Nat : p[1] < p[2]}

LEMMA LessIsWellFounded == IsWellFoundedOn(Less, Nat)
<1>1. OpToRel(<, Nat) = Less
  BY DEF OpToRel, Less
<1> QED BY <1>1, NatLessThanWellFounded

LEMMA FirstInBatch ==
    ASSUME NEW S, S \subseteq Nat, S # {}
    PROVE  First(S) \in S
<1>1. PICK i \in S : \A j \in S : ~ (<<j, i>> \in Less)
  BY LessIsWellFounded, WFMin
<1>2. ASSUME NEW j \in S PROVE i <= j
  <2>1. i \in Nat /\ j \in Nat /\ <<j, i>> \in Nat \X Nat
    OBVIOUS
  <2>2. ~ (<<j, i>>[1] < <<j, i>>[2])
    BY <1>1, <2>1 DEF Less
  <2> QED BY <2>1, <2>2
<1> QED BY <1>2 DEF First

-----------------------------------------------------------------------------
LEMMA Mt5InitInv == Mt5Init => CommandInv
<1> SUFFICES ASSUME Mt5Init PROVE CommandInv
  OBVIOUS
<1>1. Mt5TypeOK
  <2>1. (CHOOSE k \in EntryKeys : TRUE) \in EntryKeys
    BY Mt5Assumption DEF Mt5Assumption
  <2>2. Ready \in AgentAt /\ NoRows \in PollAt /\ NoOrder \in Open
    BY DEF Ready, NoRows, NoOrder, AgentAt, PollAt, Open
  <2>3. command_key \in [Commands -> EntryKeys]
    BY <2>1 DEF Mt5Init
  <2>4. command_status \in [Commands -> CommandStates]
    BY DEF Mt5Init, CommandStates
  <2>5. caller \in [Callers -> Open] /\ poll \in [Polls -> PollAt] /\ agent \in [Agents -> AgentAt]
    BY <2>2 DEF Mt5Init
  <2>6. /\ entry \in [EntryKeys -> {"none", "PLACED", "FILLED", "ERROR"}]
        /\ submitted \in [EntryKeys -> Nat] /\ executed \in [EntryKeys -> Nat]
    BY DEF Mt5Init
  <2>7. /\ results \subseteq Posts /\ working \subseteq EntryKeys
        /\ retcodes \in [EntryKeys -> SUBSET Retcodes]
    BY DEF Mt5Init
  <2> QED BY <2>3, <2>4, <2>5, <2>6, <2>7 DEF Mt5TypeOK
<1>2. Inserted = {}
  BY DEF Mt5Init, Inserted
<1>3. Numbered
  <2>1. Inserted = 1..0 /\ 0 \in 0..MaxCommands
    BY <1>2, Mt5Assumption DEF Mt5Assumption
  <2> QED BY <2>1 DEF Numbered
<1>4. OneCommand /\ Fresh
  BY <1>2 DEF OneCommand, Fresh, Existing, Mt5Init
<1>5. Known /\ Working /\ Marked /\ Reported
  BY <1>2 DEF Known, Working, Marked, Reported, Mt5Init, Ready, NoRows
<1>6. Executing /\ Truthful
  BY DEF Executing, Truthful, Mt5Init
<1> QED BY <1>1, <1>3, <1>4, <1>5, <1>6 DEF CommandInv

\* What an agent waits for is a handler.
LEMMA WaitsForHandler ==
    ASSUME CommandInv, NEW g \in Agents, agent[g].at = "waiting"
    PROVE  agent[g].poll \in Polls
BY DEF CommandInv, Mt5TypeOK, AgentAt, Working

LEMMA WorksOnFields ==
    ASSUME NEW rows
    PROVE  /\ WorksOn(rows).at = IF rows = {} THEN "idle" ELSE "batch"
           /\ WorksOn(rows).poll = NoPoll /\ WorksOn(rows).todo = rows
           /\ rows \subseteq Commands => WorksOn(rows) \in AgentAt
BY DEF WorksOn, AgentAt

\* A step that writes no row and executes nothing, and puts before the agent
\* only what is awaited.
LEMMA RowsKept ==
    ASSUME CommandInv, UNCHANGED <<commandRows, terminal>>, results' \subseteq results,
           Mt5TypeOK', Known', Working', Marked',
           \A g \in Agents, i \in Inserted : Before(g, i)' => Awaited(i)
    PROVE  CommandInv'
<1>1. Inserted' = Inserted
  BY DEF commandRows, Inserted
<1>2. Numbered' /\ OneCommand'
  BY <1>1 DEF commandRows, terminal, CommandInv, Numbered, OneCommand, Existing
<1>3. \A i \in Inserted : Awaited(i)' => Awaited(i)
  BY DEF commandRows, Awaited
<1>4. Fresh'
  BY <1>1, <1>3 DEF commandRows, terminal, CommandInv, Fresh, Untried
<1>5. Reported' /\ Executing' /\ Truthful'
  BY DEF commandRows, terminal, CommandInv, Reported, Executing, Truthful, Succeeded, Failed
<1> QED BY <1>2, <1>4, <1>5 DEF CommandInv

-----------------------------------------------------------------------------
(* The caller *)

\* A step of a caller that rolls back or has written nothing yet.
LEMMA CallerStep ==
    ASSUME CommandInv, NEW c \in Callers, NEW next \in Open, caller' = [caller EXCEPT ![c] = next],
           UNCHANGED <<commandRows, poll, agent, results, terminal>>
    PROVE  CommandInv'
<1>1. Mt5TypeOK'
  BY DEF commandRows, terminal, CommandInv, Mt5TypeOK
<1>2. Known' /\ Working' /\ Marked'
  BY DEF commandRows, CommandInv, Known, Working, Marked, Inserted
<1>3. \A g \in Agents, i \in Inserted : Before(g, i)' => Awaited(i)
  BY DEF Before, Awaited
<1> QED BY <1>1, <1>2, <1>3, RowsKept

\* The key of an order that is not there has no command, and nothing was
\* executed for it.
LEMMA KeyIsNew ==
    ASSUME CommandInv, NEW c \in Callers, caller[c].at = "flushed", Unique(c)
    PROVE  /\ caller[c].key \in EntryKeys
           /\ \A i \in Inserted : command_key[i] # caller[c].key
           /\ submitted[caller[c].key] = 0 /\ Failed(caller[c].key)
<1> DEFINE k == caller[c].key
<1>1. k \in EntryKeys
  BY DEF CommandInv, Mt5TypeOK, Open
<1>2. submitted[k] = 0 /\ \A i \in Inserted : command_key[i] # k
  BY <1>1 DEF Unique, CommandInv, OneCommand, Existing
<1>3. executed[k] = 0 /\ k \notin working
  BY <1>1, <1>2 DEF CommandInv, Executing, Mt5TypeOK
<1> QED BY <1>1, <1>2, <1>3 DEF Failed

\* The order row alone is written: no agent, or a command that was there.
LEMMA OrderOnly ==
    ASSUME CommandInv, NEW c \in Callers, caller[c].at = "flushed", Unique(c),
           NEW s \in {"PLACED", "ERROR"}, entry' = [entry EXCEPT ![caller[c].key] = s],
           caller' = [caller EXCEPT ![c] = NoOrder],
           UNCHANGED <<command_key, command_status, poll, agent, results, terminal>>
    PROVE  CommandInv'
<1> DEFINE k == caller[c].key
<1>1. \A j \in EntryKeys : entry'[j] = IF j = k THEN s ELSE entry[j]
  BY DEF CommandInv, Mt5TypeOK
<1>2. Mt5TypeOK'
  <2>1. NoOrder \in Open
    BY DEF NoOrder, Open
  <2> QED BY <2>1, KeyIsNew DEF terminal, CommandInv, Mt5TypeOK
<1>3. Inserted' = Inserted
  BY DEF Inserted
<1>4. Numbered' /\ Known' /\ Working' /\ Marked' /\ Reported' /\ Executing'
  BY <1>3 DEF terminal, CommandInv, Numbered, Known, Working, Marked, Reported, Executing,
              Succeeded, Failed
<1>5. OneCommand'
  BY <1>1, <1>3 DEF terminal, CommandInv, OneCommand, Existing
<1>6. Fresh'
  <2> SUFFICES ASSUME NEW i \in Inserted, Awaited(i)' PROVE Untried(i)'
    BY <1>3 DEF Fresh
  <2>1. Awaited(i)
    BY DEF Awaited, Before
  <2>2. command_key[i] \in EntryKeys /\ command_key[i] # k
    BY KeyIsNew DEF CommandInv, Mt5TypeOK, Inserted
  <2> QED BY <1>1, <2>1, <2>2 DEF terminal, CommandInv, Fresh, Untried
<1>7. Truthful'
  BY <1>1, KeyIsNew DEF terminal, CommandInv, Truthful, Succeeded, Failed
<1> QED BY <1>2, <1>4, <1>5, <1>6, <1>7 DEF CommandInv

LEMMA CommitEntryInv ==
    ASSUME CommandInv, NEW c \in Callers, CommitEntry(c)
    PROVE  CommandInv'
<1> DEFINE k == caller[c].key
           i == Cardinality(Inserted) + 1
<1>1. CASE UNCHANGED <<command_key, command_status>>
  BY <1>1, OrderOnly DEF CommitEntry
<1>2. CASE /\ Cardinality(Inserted) < MaxCommands
           /\ command_key' = [command_key EXCEPT ![i] = k]
           /\ command_status' = [command_status EXCEPT ![i] = "PENDING"]
  <2>1. /\ k \in EntryKeys /\ submitted[k] = 0
        /\ \A j \in Inserted : command_key[j] # k
    BY KeyIsNew DEF CommitEntry
  <2>2. PICK n \in 0..MaxCommands : Inserted = 1..n
    BY DEF CommandInv, Numbered
  <2>3. Cardinality(Inserted) = n
    <3>1. n \in Int /\ 1 \in Int /\ n >= 0
      BY <2>2, Mt5Assumption DEF Mt5Assumption
    <3> QED BY <2>2, <3>1, FS_Interval
  <2>4. i = n + 1 /\ i \in Commands /\ i \notin Inserted
    BY <1>2, <2>2, <2>3, Mt5Assumption DEF Commands, Mt5Assumption
  <2>5. \A j \in Commands :
          /\ command_key'[j] = IF j = i THEN k ELSE command_key[j]
          /\ command_status'[j] = IF j = i THEN "PENDING" ELSE command_status[j]
    BY <1>2 DEF CommandInv, Mt5TypeOK
  <2>6. Inserted' = Inserted \cup {i} /\ Inserted \subseteq Commands
    BY <2>4, <2>5 DEF Inserted
  <2>7. \A j \in EntryKeys : entry'[j] = IF j = k THEN "PLACED" ELSE entry[j]
    BY DEF CommitEntry, CommandInv, Mt5TypeOK
  <2> HIDE DEF i
  <2>8. Mt5TypeOK'
    <3>1. NoOrder \in Open
      BY DEF NoOrder, Open
    <3>2. /\ command_key' \in [Commands -> EntryKeys]
          /\ command_status' \in [Commands -> CommandStates]
      BY <1>2, <2>1 DEF CommandInv, Mt5TypeOK, CommandStates
    <3> QED BY <2>1, <3>1, <3>2 DEF CommitEntry, terminal, CommandInv, Mt5TypeOK
  <2>9. Numbered'
    <3>1. Inserted' = 1..(n + 1) /\ n + 1 \in 0..MaxCommands
      BY <2>2, <2>4, <2>6, Mt5Assumption DEF Commands, Mt5Assumption
    <3> QED BY <3>1 DEF Numbered
  <2>10. OneCommand'
    BY <2>1, <2>4, <2>5, <2>6, <2>7 DEF CommitEntry, terminal, CommandInv, OneCommand, Existing
  <2>11. Known' /\ Working'
    BY <2>6 DEF CommitEntry, CommandInv, Known, Working
  <2>12. Marked'
    BY <2>4, <2>5, <2>6 DEF CommitEntry, CommandInv, Known, Marked
  <2>13. Fresh'
    <3> SUFFICES ASSUME NEW j \in Inserted', Awaited(j)' PROVE Untried(j)'
      BY DEF Fresh
    <3>1. CASE j = i
      BY <2>1, <2>4, <2>5, <2>7, <3>1 DEF CommitEntry, terminal, Untried, CommandInv, Known
    <3>2. CASE j # i
      <4>1. j \in Inserted /\ command_key'[j] = command_key[j] /\ command_key[j] # k
        BY <2>1, <2>5, <2>6, <3>2
      <4>2. Awaited(j)
        BY <2>5, <2>6, <3>2, <4>1 DEF CommitEntry, Awaited, Before
      <4>3. command_key[j] \in EntryKeys
        BY <2>6, <4>1 DEF CommandInv, Mt5TypeOK
      <4> QED BY <2>7, <4>1, <4>2, <4>3 DEF CommitEntry, terminal, CommandInv, Fresh, Untried
    <3> QED BY <3>1, <3>2
  <2>14. Reported'
    <3>1. \A r \in results : command_key'[r.id] = command_key[r.id]
      BY <2>4, <2>5, <2>6 DEF CommandInv, Known
    <3>2. UNCHANGED <<results, terminal>>
      BY DEF CommitEntry
    <3> QED BY <3>1, <3>2 DEF terminal, CommandInv, Reported, Succeeded, Failed
  <2>15. Executing' /\ Truthful'
    BY <2>7 DEF CommitEntry, terminal, CommandInv, Executing, Truthful, Succeeded, Failed
  <2> QED BY <2>8, <2>9, <2>10, <2>11, <2>12, <2>13, <2>14, <2>15 DEF CommandInv
<1> QED BY <1>1, <1>2 DEF CommitEntry

-----------------------------------------------------------------------------
(* The polls *)

LEMMA AgentPollsInv ==
    ASSUME CommandInv, NEW g \in Agents, NEW p \in Polls, AgentPolls(g, p)
    PROVE  CommandInv'
<1>1. \A h \in Agents :
        agent'[h] = IF h = g THEN [at |-> "waiting", poll |-> p, todo |-> {}] ELSE agent[h]
  BY DEF AgentPolls, CommandInv, Mt5TypeOK
<1>2. \A q \in Polls :
        poll'[q] = IF q = p THEN [at |-> "read", rows |-> {}] ELSE poll[q]
  <2>1. [NoRows EXCEPT !.at = "read"] = [at |-> "read", rows |-> {}]
    BY DEF NoRows
  <2> QED BY <2>1 DEF AgentPolls, CommandInv, Mt5TypeOK
<1>3. Mt5TypeOK'
  <2>1. [at |-> "waiting", poll |-> p, todo |-> {}] \in AgentAt
    BY DEF AgentAt
  <2>2. [at |-> "read", rows |-> {}] \in PollAt
    BY DEF PollAt
  <2>3. agent' \in [Agents -> AgentAt] /\ poll' \in [Polls -> PollAt]
    BY <1>1, <1>2, <2>1, <2>2 DEF AgentPolls, CommandInv, Mt5TypeOK
  <2> QED BY <2>3 DEF AgentPolls, commandRows, terminal, CommandInv, Mt5TypeOK
<1>4. p # NoPoll
  BY Mt5Assumption DEF Mt5Assumption
<1>5. UNCHANGED <<command_key, command_status, results>> /\ Inserted' = Inserted
  BY DEF AgentPolls, commandRows, Inserted
<1>6. Known' /\ Marked'
  BY <1>1, <1>2, <1>5 DEF CommandInv, Known, Marked
<1>7. Working'
  BY <1>1, <1>4 DEF CommandInv, Working
<1>8. \A h \in Agents, i \in Inserted : Before(h, i)' => Before(h, i)
  BY <1>1, <1>2, WaitsForHandler DEF Before
<1> QED BY <1>3, <1>6, <1>7, <1>8, RowsKept DEF AgentPolls, Awaited

LEMMA PollSelectInv ==
    ASSUME CommandInv, NEW p \in Polls, PollSelect(p)
    PROVE  CommandInv'
<1> DEFINE pending == {i \in Inserted : command_status[i] = "PENDING"}
<1>1. \A q \in Polls :
        poll'[q] = IF q = p THEN [at |-> "select", rows |-> pending] ELSE poll[q]
  BY DEF PollSelect, CommandInv, Mt5TypeOK
<1>2. Mt5TypeOK'
  <2>1. [at |-> "select", rows |-> pending] \in PollAt
    BY DEF PollAt, Inserted
  <2> QED BY <2>1 DEF PollSelect, commandRows, terminal, CommandInv, Mt5TypeOK
<1>3. Known' /\ Working' /\ Marked'
  BY <1>1 DEF PollSelect, commandRows, CommandInv, Known, Working, Marked, Inserted
<1>4. \A g \in Agents, i \in Inserted : Before(g, i)' => Awaited(i)
  BY <1>1, WaitsForHandler DEF PollSelect, Before, Awaited
<1> QED BY <1>2, <1>3, <1>4, RowsKept DEF PollSelect

LEMMA PollCommitInv ==
    ASSUME CommandInv, NEW p \in Polls, PollCommit(p)
    PROVE  CommandInv'
<1>1. \A i \in Commands :
        command_status'[i] = IF i \in poll[p].rows THEN "SENT" ELSE command_status[i]
  BY DEF PollCommit
<1>2. Inserted' = Inserted /\ Inserted \subseteq Commands
  BY <1>1 DEF CommandInv, Known, Inserted
<1>3. \A q \in Polls : /\ poll'[q].rows = poll[q].rows
                       /\ poll'[q].at = IF q = p THEN "answered" ELSE poll[q].at
  BY DEF PollCommit, CommandInv, Mt5TypeOK, PollAt
<1>4. Mt5TypeOK'
  <2>1. command_status' \in [Commands -> CommandStates]
    BY DEF PollCommit, CommandInv, Mt5TypeOK, CommandStates
  <2>2. poll' \in [Polls -> PollAt]
    <3>1. [poll[p] EXCEPT !.at = "answered"] \in PollAt
      BY DEF CommandInv, Mt5TypeOK, PollAt
    <3> QED BY <3>1 DEF PollCommit, CommandInv, Mt5TypeOK
  <2> QED BY <2>1, <2>2 DEF PollCommit, terminal, CommandInv, Mt5TypeOK
<1>5. Numbered' /\ OneCommand' /\ Working'
  BY <1>2 DEF PollCommit, terminal, CommandInv, Numbered, OneCommand, Existing, Working
<1>6. Known' /\ Reported' /\ Executing' /\ Truthful'
  BY <1>2, <1>3 DEF PollCommit, terminal, CommandInv, Known, Reported, Executing, Truthful,
                    Succeeded, Failed
<1>7. Marked'
  <2>1. \A i \in Inserted : command_status[i] # "PENDING" => command_status'[i] # "PENDING"
    BY <1>1, <1>2
  <2>2. \A i \in poll[p].rows : command_status'[i] # "PENDING"
    BY <1>1, <1>2 DEF CommandInv, Known
  <2> QED BY <1>3, <2>1, <2>2 DEF PollCommit, CommandInv, Known, Marked
<1>8. Fresh'
  <2> SUFFICES ASSUME NEW i \in Inserted, Awaited(i)' PROVE Untried(i)'
    BY <1>2 DEF Fresh
  <2>1. Awaited(i)
    BY <1>1, <1>2, <1>3, WaitsForHandler DEF PollCommit, Awaited, Before
  <2> QED BY <2>1 DEF PollCommit, terminal, CommandInv, Fresh, Untried
<1> QED BY <1>4, <1>5, <1>6, <1>7, <1>8 DEF CommandInv

\* The batch of the agent is what it waited for.
LEMMA PollAnswerInv ==
    ASSUME CommandInv, NEW p \in Polls, PollAnswer(p)
    PROVE  CommandInv'
<1>1. \A g \in Agents :
        agent'[g] = IF agent[g].poll = p THEN WorksOn(poll[p].rows) ELSE agent[g]
  BY DEF PollAnswer
<1>2. \A q \in Polls : poll'[q] = IF q = p THEN [at |-> "idle", rows |-> {}] ELSE poll[q]
  BY DEF PollAnswer, NoRows, CommandInv, Mt5TypeOK
<1>3. poll[p].rows \subseteq Commands /\ NoRows \in PollAt
  BY DEF CommandInv, Mt5TypeOK, PollAt, NoRows
<1>4. Mt5TypeOK'
  <2>1. agent' \in [Agents -> AgentAt]
    <3>1. WorksOn(poll[p].rows) \in AgentAt
      BY <1>3, WorksOnFields
    <3> QED BY <3>1 DEF PollAnswer, CommandInv, Mt5TypeOK
  <2> QED BY <1>3, <2>1 DEF PollAnswer, commandRows, terminal, CommandInv, Mt5TypeOK
<1>5. Known' /\ Working'
  BY <1>1, <1>2, WorksOnFields DEF PollAnswer, commandRows, CommandInv, Known, Working, Inserted
<1>6. Marked'
  BY <1>1, <1>2, WorksOnFields DEF PollAnswer, commandRows, CommandInv, Marked
<1>7. ASSUME NEW g \in Agents, NEW i \in Inserted, Before(g, i)' PROVE Before(g, i)
  <2>1. CASE agent[g].poll = p
    <3>1. agent[g].at = "waiting" /\ poll[p].at = "answered"
      BY <2>1, Mt5Assumption DEF PollAnswer, CommandInv, Working, Mt5Assumption
    <3>2. agent'[g].at \in {"idle", "batch"} /\ agent'[g].todo = poll[p].rows
      BY <1>1, <2>1, WorksOnFields
    <3>3. i \in poll[p].rows
      BY <1>7, <3>2 DEF Before
    <3> QED BY <2>1, <3>1, <3>3 DEF Before
  <2>2. CASE agent[g].poll # p
    BY <1>1, <1>2, <1>7, <2>2, WaitsForHandler DEF Before
  <2> QED BY <2>1, <2>2
<1> QED BY <1>4, <1>5, <1>6, <1>7, RowsKept DEF PollAnswer, Awaited

-----------------------------------------------------------------------------
(* The agent *)

\* The command that is executed is untried, and no more awaited afterwards.
LEMMA ExecuteInv ==
    ASSUME CommandInv, OneAgent, NEW g \in Agents, Execute(g)
    PROVE  CommandInv'
<1> DEFINE i == First(agent[g].todo)
           k == command_key[i]
<1>1. PICK code \in Retcodes :
        /\ submitted' = [submitted EXCEPT ![k] =
                             IF code = "NOT_SENT" THEN submitted[k] ELSE submitted[k] + 1]
        /\ \E n \in Executions(code) : executed' = [executed EXCEPT ![k] = executed[k] + n]
        /\ working' = IF code = "PLACED" THEN working \cup {k} ELSE working
        /\ retcodes' = [retcodes EXCEPT ![k] = retcodes[k] \cup {code}]
        /\ results' = results \cup {[id |-> i, ok |-> Accepted(code)]}
  BY DEF Execute
<1>e. PICK n \in Executions(code) : executed' = [executed EXCEPT ![k] = executed[k] + n]
  BY <1>1
<1> DEFINE m == IF code = "NOT_SENT" THEN 0 ELSE 1
<1>n. n \in {0, 1} /\ m \in {0, 1} /\ n <= m
  BY <1>1, <1>e DEF Executions, Retcodes
<1>2. agent[g].at = "batch" /\ i \in agent[g].todo
  <2>1. agent[g].at = "batch" /\ agent[g].todo # {} /\ agent[g].todo \subseteq Nat
    BY DEF Execute, CommandInv, Working, Known, Inserted, Commands
  <2> QED BY <2>1, FirstInBatch
<1> HIDE DEF i
<1>3. i \in Inserted /\ i \in Commands /\ k \in EntryKeys /\ command_status[i] # "PENDING"
  BY <1>2 DEF CommandInv, Known, Marked, Inserted, Mt5TypeOK
<1>4. entry[k] = "PLACED" /\ submitted[k] = 0 /\ \A r \in results : r.id # i
  BY <1>2, <1>3 DEF CommandInv, Fresh, Awaited, Before, Untried
<1>t. executed[k] = 0 /\ k \notin working
  BY <1>3, <1>4 DEF CommandInv, Executing, Mt5TypeOK
<1>5. \A j \in EntryKeys :
        /\ submitted'[j] = IF j = k THEN m ELSE submitted[j]
        /\ executed'[j] = IF j = k THEN n ELSE executed[j]
        /\ retcodes'[j] = IF j = k THEN retcodes[j] \cup {code} ELSE retcodes[j]
        /\ j \in working' <=> j \in working \/ (j = k /\ code = "PLACED")
  <2>1. submitted' = [submitted EXCEPT ![k] = m]
    <3>1. (IF code = "NOT_SENT" THEN submitted[k] ELSE submitted[k] + 1) = m
      BY <1>4
    <3> HIDE DEF m, k
    <3> QED BY <1>1, <3>1
  <2>2. executed' = [executed EXCEPT ![k] = n]
    <3>1. executed[k] + n = n
      BY <1>n, <1>t
    <3> HIDE DEF k
    <3> QED BY <1>e, <3>1
  <2> HIDE DEF m, k
  <2> QED BY <1>1, <1>3, <2>1, <2>2 DEF CommandInv, Mt5TypeOK
<1>o. \A j \in {k} : /\ Accepted(code) => m = 1 /\ Succeeded(j)'
                     /\ ~Accepted(code) => Failed(j)'
  <2> SUFFICES ASSUME NEW j \in {k}
               PROVE  /\ Accepted(code) => m = 1 /\ Succeeded(j)'
                      /\ ~Accepted(code) => Failed(j)'
    OBVIOUS
  <2>1. code \in {"DONE", "DONE_PARTIAL"} => n = 1
    BY <1>1, <1>e DEF Executions
  <2>2. code \in {"PLACED", "REJECTED", "NOT_SENT"} => n = 0
    BY <1>1, <1>e DEF Executions
  <2>3. executed'[j] = n /\ code \in retcodes'[j] /\ (j \in working' <=> code = "PLACED")
    BY <1>3, <1>5, <1>t
  <2> QED BY <1>1, <2>1, <2>2, <2>3 DEF Accepted, Retcodes, Succeeded, Failed
<1>s. \A j \in EntryKeys \ {k} : /\ Succeeded(j)' <=> Succeeded(j)
                                 /\ Failed(j)' <=> Failed(j)
  BY <1>5 DEF Succeeded, Failed
<1>6. \A j \in Inserted : j # i => command_key[j] # k /\ command_key[j] \in EntryKeys
  BY <1>3 DEF CommandInv, OneCommand, Inserted, Mt5TypeOK
<1>7. \A h \in Agents : /\ agent'[h].todo = agent[h].todo /\ agent'[h].poll = agent[h].poll
                        /\ agent'[h].at = IF h = g THEN "posting" ELSE agent[h].at
  BY DEF Execute, CommandInv, Mt5TypeOK, AgentAt
<1>8. Mt5TypeOK'
  <2>1. [id |-> i, ok |-> Accepted(code)] \in Posts
    BY <1>3 DEF Posts, Accepted
  <2>2. /\ submitted' \in [EntryKeys -> Nat] /\ executed' \in [EntryKeys -> Nat]
        /\ retcodes' \in [EntryKeys -> SUBSET Retcodes] /\ working' \subseteq EntryKeys
    BY <1>1, <1>e, <1>n, <1>3 DEF CommandInv, Mt5TypeOK
  <2>3. [agent[g] EXCEPT !.at = "posting"] \in AgentAt
    BY DEF CommandInv, Mt5TypeOK, AgentAt
  <2> QED BY <1>1, <1>3, <2>1, <2>2, <2>3 DEF Execute, commandRows, CommandInv, Mt5TypeOK
<1>9. Inserted' = Inserted
  BY DEF Execute, commandRows, Inserted
<1>10. Numbered' /\ OneCommand'
  <2>1. UNCHANGED <<command_key, entry>>
    BY DEF Execute, commandRows
  <2>2. \A j \in EntryKeys : entry[j] = "none" => submitted'[j] = submitted[j]
    BY <1>4, <1>5
  <2> QED BY <1>9, <2>1, <2>2 DEF CommandInv, Numbered, OneCommand, Existing
<1>11. Known' /\ Working' /\ Marked'
  BY <1>1, <1>2, <1>3, <1>7, <1>9 DEF Execute, commandRows, CommandInv, Known, Working, Marked
<1>12. Fresh'
  <2> SUFFICES ASSUME NEW j \in Inserted, Awaited(j)' PROVE Untried(j)'
    BY <1>9 DEF Fresh
  <2>1. command_status'[j] = command_status[j] /\ command_key'[j] = command_key[j]
    BY DEF Execute, commandRows
  <2>2. \A h \in Agents : h = g
    BY DEF OneAgent
  <2>3. Before(g, j)' => Before(g, j) /\ j # i
    BY <1>2, <1>7 DEF Execute, Before, i
  <2>4. Awaited(j) /\ j # i
    BY <1>3, <2>1, <2>2, <2>3 DEF Awaited
  <2>5. Untried(j) /\ submitted'[command_key[j]] = submitted[command_key[j]]
    BY <1>5, <1>6, <2>4 DEF CommandInv, Fresh
  <2> QED BY <1>1, <2>1, <2>4, <2>5 DEF Execute, commandRows, Untried
<1>13. Reported'
  <2> SUFFICES ASSUME NEW r \in results'
               PROVE  /\ r.ok => /\ submitted'[command_key[r.id]] = 1
                                 /\ Succeeded(command_key[r.id])'
                      /\ ~r.ok => Failed(command_key[r.id])'
    BY DEF Execute, commandRows, Reported
  <2>1. CASE r \in results
    <3>1. command_key[r.id] # k /\ command_key[r.id] \in EntryKeys
      BY <1>4, <1>6, <2>1 DEF CommandInv, Known
    <3>2. UNCHANGED command_key
      BY DEF Execute, commandRows
    <3>3. submitted'[command_key[r.id]] = submitted[command_key[r.id]]
      BY <1>5, <3>1
    <3>4. /\ r.ok => submitted[command_key[r.id]] = 1 /\ Succeeded(command_key[r.id])
          /\ ~r.ok => Failed(command_key[r.id])
      BY <2>1 DEF CommandInv, Reported
    <3> QED BY <1>5, <3>1, <3>2, <3>3, <3>4 DEF Succeeded, Failed
  <2>2. CASE r = [id |-> i, ok |-> Accepted(code)]
    <3>1. PICK j \in {k} : command_key[r.id] = j /\ command_key'[r.id] = j
      BY <2>2 DEF Execute, commandRows
    <3>2. submitted'[j] = m /\ (r.ok <=> Accepted(code))
      BY <1>3, <1>5, <2>2
    <3> HIDE DEF m, k
    <3>3. /\ r.ok => m = 1 /\ Succeeded(j)'
          /\ ~r.ok => Failed(j)'
      BY <1>o, <3>2 DEF Succeeded, Failed
    <3> QED BY <3>1, <3>2, <3>3 DEF Succeeded, Failed
  <2> QED BY <1>1, <2>1, <2>2
<1>14. Executing'
  <2>1. code = "PLACED" => n = 0 /\ m = 1
    BY <1>1, <1>e DEF Executions
  <2> SUFFICES ASSUME NEW j \in EntryKeys
               PROVE  /\ submitted'[j] <= 1 /\ executed'[j] <= submitted'[j]
                      /\ j \in working' => /\ submitted'[j] = 1 /\ executed'[j] = 0
                                           /\ "PLACED" \in retcodes'[j]
    BY DEF Executing
  <2> HIDE DEF m
  <2>2. CASE j = k
    <3>1. /\ submitted'[j] = m /\ executed'[j] = n /\ code \in retcodes'[j]
          /\ j \in working' <=> code = "PLACED"
      BY <1>5, <1>t, <2>2
    <3> QED BY <1>n, <2>1, <3>1
  <2>3. CASE j # k
    BY <1>5, <2>3 DEF CommandInv, Executing
  <2> QED BY <2>2, <2>3
<1>15. Truthful'
  BY <1>4, <1>s DEF Execute, commandRows, CommandInv, Truthful
<1> QED BY <1>8, <1>10, <1>11, <1>12, <1>13, <1>14, <1>15 DEF CommandInv

\* An order that was only taken is executed at most once, and what was told of
\* it, that it was taken, stays true.
LEMMA TerminalDecidesInv ==
    ASSUME CommandInv, NEW k \in EntryKeys, TerminalDecides(k)
    PROVE  CommandInv'
<1>1. /\ k \in working /\ submitted[k] = 1 /\ executed[k] = 0 /\ "PLACED" \in retcodes[k]
      /\ working' = working \ {k}
  BY DEF TerminalDecides, CommandInv, Executing
<1>2. PICK n \in {0, 1} : executed' = [executed EXCEPT ![k] = n]
  <2>1. PICK n \in {0, 1} : executed' = [executed EXCEPT ![k] = executed[k] + n]
    BY DEF TerminalDecides
  <2>2. executed[k] + n = n
    BY <1>1
  <2> QED BY <2>1, <2>2
<1>3. \A j \in EntryKeys : executed'[j] = IF j = k THEN n ELSE executed[j]
  BY <1>2 DEF CommandInv, Mt5TypeOK
<1>4. /\ UNCHANGED <<command_key, command_status, entry, caller, poll, agent, results>>
      /\ UNCHANGED <<submitted, retcodes>>
  BY DEF TerminalDecides, commandRows
<1>5. Inserted' = Inserted
  BY <1>4 DEF Inserted
<1>6. Mt5TypeOK'
  <2>1. executed' \in [EntryKeys -> Nat] /\ working' \subseteq EntryKeys
    BY <1>1, <1>2 DEF CommandInv, Mt5TypeOK
  <2> QED BY <1>4, <2>1 DEF CommandInv, Mt5TypeOK
<1>7. Numbered' /\ OneCommand' /\ Known' /\ Working' /\ Marked'
  BY <1>4, <1>5 DEF CommandInv, Numbered, OneCommand, Existing, Known, Working, Marked
<1>8. Fresh'
  BY <1>4, <1>5 DEF CommandInv, Fresh, Awaited, Before, Untried
<1>9. Executing'
  BY <1>1, <1>3, <1>4 DEF CommandInv, Executing
<1>10. \A j \in EntryKeys : (Succeeded(j) => Succeeded(j)') /\ (Failed(j) => Failed(j)')
  BY <1>1, <1>3, <1>4 DEF Succeeded, Failed
<1>11. Reported'
  <2>1. \A r \in results : command_key[r.id] \in EntryKeys
    BY DEF CommandInv, Known, Inserted, Mt5TypeOK
  <2> QED BY <1>4, <1>10, <2>1 DEF CommandInv, Reported
<1>12. Truthful'
  BY <1>4, <1>10 DEF CommandInv, Truthful
<1> QED BY <1>6, <1>7, <1>8, <1>9, <1>11, <1>12 DEF CommandInv

\* A result that is stored is true, and its command is not awaited.
LEMMA StoreResultInv ==
    ASSUME CommandInv, NEW r \in Posts, StoreResult(r)
    PROVE  CommandInv'
<1> DEFINE k == command_key[r.id]
<1>1. /\ r \in results /\ r.id \in Inserted /\ r.id \in Commands /\ r.ok \in BOOLEAN
      /\ k \in EntryKeys
  BY DEF StoreResult, Posts, CommandInv, Known, Inserted, Mt5TypeOK
<1>2. \A i \in Commands :
        command_status'[i] = IF i = r.id THEN IF r.ok THEN "COMPLETED" ELSE "ERROR"
                             ELSE command_status[i]
  BY DEF StoreResult, CommandInv, Mt5TypeOK
<1>3. \A j \in EntryKeys :
        entry'[j] = IF j = k THEN IF r.ok THEN "FILLED" ELSE "ERROR" ELSE entry[j]
  BY DEF StoreResult, Outcome, CommandInv, Mt5TypeOK
<1> DEFINE Posted(g) == agent[g].at = "posting" /\ First(agent[g].todo) = r.id
           rest(g) == agent[g].todo \ {r.id}
<1>4. \A g \in Agents : agent'[g] = IF Posted(g) THEN WorksOn(rest(g)) ELSE agent[g]
  BY DEF StoreResult
<1>5. \A g \in Agents :
        /\ Posted(g) => /\ agent'[g].at = IF rest(g) = {} THEN "idle" ELSE "batch"
                        /\ agent'[g].poll = NoPoll /\ agent'[g].todo = rest(g)
        /\ ~Posted(g) => agent'[g] = agent[g]
  <2> SUFFICES ASSUME NEW g \in Agents
               PROVE  /\ Posted(g) =>
                           /\ agent'[g].at = IF rest(g) = {} THEN "idle" ELSE "batch"
                           /\ agent'[g].poll = NoPoll /\ agent'[g].todo = rest(g)
                      /\ ~Posted(g) => agent'[g] = agent[g]
    OBVIOUS
  <2>1. Posted(g) => agent'[g] = WorksOn(rest(g))
    BY <1>4
  <2>2. ~Posted(g) => agent'[g] = agent[g]
    BY <1>4
  <2> HIDE DEF Posted, rest
  <2> QED BY <2>1, <2>2, WorksOnFields
<1>6. /\ results' = results \ {r}
      /\ UNCHANGED <<command_key, poll, working, submitted, executed, retcodes>>
  BY DEF StoreResult, terminal
<1>7. Inserted' = Inserted
  BY <1>1, <1>2 DEF Inserted
<1>8. Mt5TypeOK'
  <2>1. command_status' \in [Commands -> CommandStates]
    BY DEF StoreResult, CommandInv, Mt5TypeOK, CommandStates
  <2>2. entry' \in [EntryKeys -> {"none", "PLACED", "FILLED", "ERROR"}]
    BY DEF StoreResult, Outcome, CommandInv, Mt5TypeOK
  <2>3. agent' \in [Agents -> AgentAt]
    <3>1. \A g \in Agents : agent[g] \in AgentAt /\ agent[g].todo \in SUBSET Commands
      BY DEF CommandInv, Mt5TypeOK, AgentAt
    <3>2. \A g \in Agents : agent'[g] \in AgentAt
      <4> SUFFICES ASSUME NEW g \in Agents PROVE agent'[g] \in AgentAt
        OBVIOUS
      <4>1. rest(g) \subseteq Commands
        BY <3>1
      <4>2. WorksOn(rest(g)) \in AgentAt
        BY <4>1, WorksOnFields
      <4> QED BY <1>4, <3>1, <4>2
    <3> QED BY <3>2 DEF StoreResult
  <2> QED BY <1>6, <2>1, <2>2, <2>3 DEF StoreResult, CommandInv, Mt5TypeOK
<1>9. Numbered' /\ Known'
  BY <1>5, <1>6, <1>7 DEF CommandInv, Numbered, Known
<1>10. OneCommand'
  BY <1>3, <1>7, <1>6 DEF CommandInv, OneCommand, Existing
<1>11. Working'
  BY <1>5 DEF CommandInv, Working
<1>12. Marked'
  <2>1. \A i \in Inserted : command_status[i] # "PENDING" => command_status'[i] # "PENDING"
    BY <1>2 DEF Inserted
  <2> QED BY <1>5, <1>6, <2>1 DEF CommandInv, Known, Marked
<1>13. Fresh'
  <2> SUFFICES ASSUME NEW i \in Inserted, Awaited(i)' PROVE Untried(i)'
    BY <1>7 DEF Fresh
  <2>1. command_status'[i] = "PENDING" => command_status[i] = "PENDING"
    BY <1>2 DEF Inserted
  <2>2. \A g \in Agents : Before(g, i)' => Before(g, i)
    BY <1>5, <1>6 DEF Before
  <2>3. Awaited(i)
    BY <2>1, <2>2 DEF Awaited
  <2>4. Untried(i) /\ i # r.id
    BY <1>1, <2>3 DEF CommandInv, Fresh, Untried
  <2>5. command_key[i] \in EntryKeys /\ command_key[i] # k
    BY <1>1, <2>4 DEF CommandInv, OneCommand, Inserted, Mt5TypeOK
  <2> QED BY <1>3, <1>6, <2>4, <2>5 DEF Untried
<1>14. Reported' /\ Executing'
  BY <1>6 DEF CommandInv, Reported, Executing, Succeeded, Failed
<1>15. Truthful'
  BY <1>1, <1>3, <1>6 DEF CommandInv, Reported, Truthful, Succeeded, Failed
<1> QED BY <1>8, <1>9, <1>10, <1>11, <1>12, <1>13, <1>14, <1>15 DEF CommandInv

LEMMA AgentLosesInv ==
    ASSUME CommandInv, NEW g \in Agents, AgentLoses(g)
    PROVE  CommandInv'
<1>1. results' \subseteq results
  BY DEF AgentLoses
<1>2. \A h \in Agents :
        agent'[h] = IF h = g THEN [at |-> "idle", poll |-> NoPoll, todo |-> {}] ELSE agent[h]
  BY DEF AgentLoses, Ready, CommandInv, Mt5TypeOK
<1>3. Mt5TypeOK'
  <2>1. Ready \in AgentAt
    BY DEF Ready, AgentAt
  <2> QED BY <1>1, <2>1 DEF AgentLoses, commandRows, terminal, CommandInv, Mt5TypeOK
<1>4. Known' /\ Working' /\ Marked'
  BY <1>1, <1>2 DEF AgentLoses, commandRows, CommandInv, Known, Working, Marked, Inserted
<1>5. \A h \in Agents, i \in Inserted : Before(h, i)' => Before(h, i)
  BY <1>2 DEF AgentLoses, Before
<1> QED BY <1>1, <1>3, <1>4, <1>5, RowsKept DEF AgentLoses, Awaited

-----------------------------------------------------------------------------
LEMMA Mt5NextInv == OneAgent /\ CommandInv /\ [Mt5Next]_mt5Vars => CommandInv'
<1> SUFFICES ASSUME OneAgent, CommandInv, [Mt5Next]_mt5Vars PROVE CommandInv'
  OBVIOUS
<1>1. ASSUME NEW c \in Callers, NEW k \in EntryKeys, PlaceOrder(c, k) PROVE CommandInv'
  <2> DEFINE next == [at |-> "flushed", key |-> k, insert |-> ~Existing(k)]
  <2>1. next \in Open
    BY DEF Open, Existing
  <2> HIDE DEF next
  <2>2. caller' = [caller EXCEPT ![c] = next]
    BY <1>1 DEF PlaceOrder, next
  <2> QED BY <1>1, <2>1, <2>2, CallerStep DEF PlaceOrder
<1>2. ASSUME NEW c \in Callers, CommitEntry(c) PROVE CommandInv'
  BY <1>2, CommitEntryInv
<1>3. ASSUME NEW c \in Callers, CommitNoAgent(c) PROVE CommandInv'
  BY <1>3, OrderOnly DEF CommitNoAgent
<1>4. ASSUME NEW c \in Callers, RollbackEntry(c) PROVE CommandInv'
  <2>1. NoOrder \in Open
    BY DEF NoOrder, Open
  <2> QED BY <1>4, <2>1, CallerStep DEF RollbackEntry
<1>5. ASSUME NEW g \in Agents, NEW p \in Polls, AgentPolls(g, p) PROVE CommandInv'
  BY <1>5, AgentPollsInv
<1>6. ASSUME NEW p \in Polls, PollSelect(p) PROVE CommandInv'
  BY <1>6, PollSelectInv
<1>7. ASSUME NEW p \in Polls, PollCommit(p) PROVE CommandInv'
  BY <1>7, PollCommitInv
<1>8. ASSUME NEW p \in Polls, PollAnswer(p) PROVE CommandInv'
  BY <1>8, PollAnswerInv
<1>9. ASSUME NEW g \in Agents, Execute(g) PROVE CommandInv'
  BY <1>9, ExecuteInv
<1>10. ASSUME NEW g \in Agents, AgentLoses(g) PROVE CommandInv'
  BY <1>10, AgentLosesInv
<1>11. ASSUME NEW r \in Posts, StoreResult(r) PROVE CommandInv'
  BY <1>11, StoreResultInv
<1>12. CASE UNCHANGED mt5Vars
  <2>1. Mt5TypeOK' /\ Known' /\ Working' /\ Marked'
    BY <1>12 DEF mt5Vars, commandRows, terminal, CommandInv, Mt5TypeOK, Known, Working, Marked,
                 Inserted
  <2>2. \A g \in Agents, i \in Inserted : Before(g, i)' => Awaited(i)
    BY <1>12 DEF mt5Vars, Before, Awaited
  <2> QED BY <1>12, <2>1, <2>2, RowsKept DEF mt5Vars
<1>13. ASSUME NEW k \in EntryKeys, TerminalDecides(k) PROVE CommandInv'
  BY <1>13, TerminalDecidesInv
<1> QED BY <1>1, <1>2, <1>3, <1>4, <1>5, <1>6, <1>7, <1>8, <1>9, <1>10, <1>11, <1>12, <1>13
        DEF Mt5Next

LEMMA Mt5Invariant == OneAgent /\ Mt5Spec => []CommandInv
<1>1. OneAgent => []OneAgent
  <2>1. OneAgent => OneAgent'
    BY DEF OneAgent
  <2> QED BY <2>1, PTL
<1> QED BY <1>1, Mt5InitInv, Mt5NextInv, PTL DEF Mt5Spec

\* With one agent on the account, the terminal executes the entry of a
\* client_order_id at most once: racing callers, overlapping and abandoned
\* polls, batches cut short and results stored late notwithstanding.
THEOREM Mt5ExecutesOnce == OneAgent /\ Mt5Spec => []EntryExecutedOnce
<1>1. CommandInv => EntryExecutedOnce
  BY DEF CommandInv, Executing, EntryExecutedOnce, Mt5TypeOK
<1> QED BY <1>1, Mt5Invariant, PTL

\* The order row is true of the terminal, whenever the result is stored and
\* whatever the terminal does with an order it had only taken: FILLED was
\* executed or only PLACED, ERROR was not executed at all or only in part, or
\* the terminal did not answer.
THEOREM Mt5EntryIsTrue == OneAgent /\ Mt5Spec => []EntryTellsTruth
<1>1. CommandInv => EntryTellsTruth
  BY DEF CommandInv, Truthful, Succeeded, Failed, EntryTellsTruth
<1> QED BY <1>1, Mt5Invariant, PTL

\* The type invariant of the command queue.
THEOREM Mt5TypeCorrect == OneAgent /\ Mt5Spec => []Mt5TypeOK
BY Mt5Invariant, PTL DEF CommandInv

-----------------------------------------------------------------------------
(* The command queue as an order service *)

\* An executed order whose result is under way has the row it was placed with,
\* and one result.
Unstored ==
    \A r \in results : /\ entry[command_key[r.id]] = "PLACED"
                       /\ \A s \in results : r.id = s.id => r = s

QueueInv == CommandInv /\ Unstored

FinalStep == \A k \in EntryKeys : entry[k] \in {"FILLED", "ERROR"} => entry'[k] = entry[k]

QueueStep == [EntryService!Next]_(EntryService!serviceVars)

\* A step that gives the terminal nothing and writes no FILLED.
LEMMA NothingSent ==
    ASSUME CommandInv, submitted' = submitted,
           \A k \in EntryKeys : entry'[k] = "FILLED" <=> entry[k] = "FILLED"
    PROVE  QueueStep
BY DEF QueueStep, EntryService!serviceVars

\* Callers and polls: an order row is written only where there was none.
LEMMA QueueKept ==
    ASSUME QueueInv, UNCHANGED submitted, results' \subseteq results,
           \A i \in Inserted : command_key'[i] = command_key[i],
           \A k \in EntryKeys : entry'[k] # entry[k] =>
               /\ entry[k] = "none" /\ entry'[k] \in {"PLACED", "ERROR"}
               /\ \A i \in Inserted : command_key[i] # k
    PROVE  Unstored' /\ FinalStep /\ QueueStep
<1>1. Unstored'
  <2> SUFFICES ASSUME NEW r \in results'
               PROVE  /\ entry'[command_key'[r.id]] = "PLACED"
                      /\ \A s \in results' : r.id = s.id => r = s
    BY DEF Unstored
  <2>1. r \in results /\ r.id \in Inserted /\ command_key[r.id] \in EntryKeys
    BY DEF QueueInv, CommandInv, Known, Mt5TypeOK, Inserted
  <2>2. entry'[command_key[r.id]] = entry[command_key[r.id]]
    BY <2>1
  <2> QED BY <2>1, <2>2 DEF QueueInv, Unstored
<1>2. FinalStep
  BY DEF FinalStep
<1>3. QueueStep
  BY NothingSent DEF QueueInv
<1> QED BY <1>1, <1>2, <1>3

LEMMA CommitQueue ==
    ASSUME QueueInv, NEW c \in Callers, CommitEntry(c) \/ CommitNoAgent(c)
    PROVE  Unstored' /\ FinalStep /\ QueueStep
<1> DEFINE k == caller[c].key
<1>1. /\ k \in EntryKeys /\ entry[k] = "none"
      /\ \A i \in Inserted : command_key[i] # k
  BY KeyIsNew DEF QueueInv, CommitEntry, CommitNoAgent, Unique
<1>2. PICK s \in {"PLACED", "ERROR"} : entry' = [entry EXCEPT ![k] = s]
  BY DEF CommitEntry, CommitNoAgent
<1>3. \A j \in EntryKeys : entry'[j] = IF j = k THEN s ELSE entry[j]
  BY <1>2 DEF QueueInv, CommandInv, Mt5TypeOK
<1>4. \A i \in Inserted : command_key'[i] = command_key[i]
  <2>1. CASE UNCHANGED command_key
    BY <2>1
  <2>2. CASE command_key' = [command_key EXCEPT ![Cardinality(Inserted) + 1] = k]
    <3>1. PICK n \in 0..MaxCommands : Inserted = 1..n
      BY DEF QueueInv, CommandInv, Numbered
    <3>2. n \in Int /\ 1 \in Int /\ n >= 0
      BY <3>1, Mt5Assumption DEF Mt5Assumption
    <3>3. Cardinality(Inserted) = n
      BY <3>1, <3>2, FS_Interval
    <3>4. Cardinality(Inserted) + 1 \notin Inserted
      BY <3>1, <3>2, <3>3
    <3>5. Inserted \subseteq Commands /\ command_key \in [Commands -> EntryKeys]
      BY DEF QueueInv, CommandInv, Mt5TypeOK, Inserted
    <3> QED BY <2>2, <3>4, <3>5
  <2> QED BY <2>1, <2>2 DEF CommitEntry, CommitNoAgent
<1>5. UNCHANGED <<submitted, results>>
  BY DEF CommitEntry, CommitNoAgent, terminal
<1> HIDE DEF k
<1> QED BY <1>1, <1>3, <1>4, <1>5, QueueKept

LEMMA ExecuteQueue ==
    ASSUME QueueInv, NEW g \in Agents, Execute(g)
    PROVE  Unstored' /\ FinalStep /\ QueueStep
<1> DEFINE i == First(agent[g].todo)
           k == command_key[i]
<1>1. PICK code \in Retcodes :
        /\ submitted' = [submitted EXCEPT ![k] =
                             IF code = "NOT_SENT" THEN submitted[k] ELSE submitted[k] + 1]
        /\ results' = results \cup {[id |-> i, ok |-> Accepted(code)]}
  BY DEF Execute
<1>2. agent[g].at = "batch" /\ i \in agent[g].todo
  <2>1. agent[g].at = "batch" /\ agent[g].todo # {} /\ agent[g].todo \subseteq Nat
    BY DEF Execute, QueueInv, CommandInv, Working, Known, Inserted, Commands
  <2> QED BY <2>1, FirstInBatch
<1> HIDE DEF i
<1>3. i \in Inserted /\ k \in EntryKeys
  BY <1>2 DEF QueueInv, CommandInv, Known, Inserted, Mt5TypeOK
<1>4. entry[k] = "PLACED" /\ submitted[k] = 0 /\ \A r \in results : r.id # i
  BY <1>2, <1>3 DEF QueueInv, CommandInv, Fresh, Awaited, Before, Untried
<1>5. UNCHANGED <<entry, command_key>>
  BY DEF Execute, commandRows
<1>6. Unstored'
  BY <1>1, <1>4, <1>5 DEF QueueInv, Unstored
<1>7. FinalStep
  BY <1>5 DEF FinalStep
<1>8. CASE code # "NOT_SENT"
  <2>1. submitted' = [submitted EXCEPT ![k] = 1]
    BY <1>1, <1>4, <1>8
  <2>2. EntryService!Send(k)
    BY <1>4, <1>5, <2>1 DEF EntryService!Send
  <2>3. QueueStep
    BY <1>3, <2>2 DEF QueueStep, EntryService!Next
  <2> QED BY <1>6, <1>7, <2>3
<1>9. CASE code = "NOT_SENT"
  <2>1. submitted' = submitted
    BY <1>1, <1>9 DEF QueueInv, CommandInv, Mt5TypeOK
  <2>2. QueueStep
    BY <1>5, <2>1, NothingSent DEF QueueInv
  <2> QED BY <1>6, <1>7, <2>2
<1> QED BY <1>8, <1>9

LEMMA StoreQueue ==
    ASSUME QueueInv, NEW r \in Posts, StoreResult(r)
    PROVE  Unstored' /\ FinalStep /\ QueueStep
<1>1. r \in results /\ r.id \in Inserted /\ r.ok \in BOOLEAN
  BY DEF StoreResult, Posts, QueueInv, CommandInv, Known
<1>k. PICK k \in EntryKeys : k = command_key[r.id]
  BY <1>1 DEF QueueInv, CommandInv, Inserted, Mt5TypeOK
<1>2. entry' = [entry EXCEPT ![k] = IF r.ok THEN "FILLED" ELSE "ERROR"]
  BY <1>k DEF StoreResult, Outcome
<1>3. \A j \in EntryKeys :
        entry'[j] = IF j = k THEN IF r.ok THEN "FILLED" ELSE "ERROR" ELSE entry[j]
  BY <1>2 DEF QueueInv, CommandInv, Mt5TypeOK
<1>4. results' = results \ {r} /\ UNCHANGED <<command_key, submitted>>
  BY DEF StoreResult, terminal
<1>5. entry[k] = "PLACED"
  BY <1>1, <1>k DEF QueueInv, Unstored
<1>6. Unstored'
  <2> SUFFICES ASSUME NEW s \in results \ {r} PROVE entry'[command_key[s.id]] = "PLACED"
    BY <1>4 DEF QueueInv, Unstored
  <2>1. s.id # r.id /\ s.id \in Inserted
    BY <1>1 DEF QueueInv, CommandInv, Known, Unstored
  <2>2. command_key[s.id] # k /\ command_key[s.id] \in EntryKeys
    BY <1>1, <1>k, <2>1 DEF QueueInv, CommandInv, OneCommand, Inserted, Mt5TypeOK
  <2>3. entry[command_key[s.id]] = "PLACED"
    BY DEF QueueInv, Unstored
  <2> QED BY <1>3, <2>2, <2>3
<1>7. FinalStep
  BY <1>3, <1>5 DEF FinalStep
<1>8. CASE r.ok
  <2>1. submitted[k] = 1
    BY <1>1, <1>8, <1>k DEF QueueInv, CommandInv, Reported
  <2>2. EntryService!Record(k)
    BY <1>1, <1>3, <1>4, <1>5, <1>8, <2>1 DEF EntryService!Record, EntryService!Success
  <2>3. QueueStep
    BY <2>2 DEF QueueStep, EntryService!Next
  <2> QED BY <1>6, <1>7, <2>3
<1>9. CASE ~r.ok
  <2>1. QueueStep
    BY <1>3, <1>4, <1>5, <1>9, NothingSent DEF QueueInv
  <2> QED BY <1>6, <1>7, <2>1
<1> QED BY <1>1, <1>8, <1>9

LEMMA NextQueue ==
    ASSUME OneAgent, QueueInv, [Mt5Next]_mt5Vars
    PROVE  QueueInv' /\ FinalStep /\ QueueStep
<1>1. CommandInv'
  BY Mt5NextInv DEF QueueInv
<1> DEFINE Goal == Unstored' /\ FinalStep /\ QueueStep
<1>2. ASSUME UNCHANGED <<commandRows, submitted>>, results' \subseteq results PROVE Goal
  BY <1>2, QueueKept DEF commandRows
<1>3. ASSUME NEW c \in Callers, RollbackEntry(c) \/ \E k \in EntryKeys : PlaceOrder(c, k)
      PROVE  Goal
  BY <1>2, <1>3 DEF RollbackEntry, PlaceOrder, terminal
<1>4. ASSUME NEW c \in Callers, CommitEntry(c) \/ CommitNoAgent(c) PROVE Goal
  BY <1>4, CommitQueue
<1>5. ASSUME NEW p \in Polls,
             PollSelect(p) \/ PollAnswer(p) \/ \E g \in Agents : AgentPolls(g, p)
      PROVE  Goal
  BY <1>2, <1>5 DEF PollSelect, PollAnswer, AgentPolls, commandRows, terminal
<1>6. ASSUME NEW p \in Polls, PollCommit(p) PROVE Goal
  BY <1>6, QueueKept DEF PollCommit, terminal
<1>7. ASSUME NEW g \in Agents, Execute(g) PROVE Goal
  BY <1>7, ExecuteQueue
<1>8. ASSUME NEW g \in Agents, AgentLoses(g) PROVE Goal
  BY <1>2, <1>8 DEF AgentLoses, terminal
<1>9. ASSUME NEW r \in Posts, StoreResult(r) PROVE Goal
  BY <1>9, StoreQueue
<1>10. ASSUME UNCHANGED mt5Vars PROVE Goal
  BY <1>2, <1>10 DEF mt5Vars, commandRows, terminal
<1>12. ASSUME NEW k \in EntryKeys, TerminalDecides(k) PROVE Goal
  BY <1>2, <1>12 DEF TerminalDecides
<1>11. Goal
  BY <1>3, <1>4, <1>5, <1>6, <1>7, <1>8, <1>9, <1>10, <1>12 DEF Mt5Next
<1> QED BY <1>1, <1>11 DEF QueueInv

LEMMA InitQueue == Mt5Init => QueueInv /\ EntryService!Init
<1> SUFFICES ASSUME Mt5Init PROVE QueueInv /\ EntryService!Init
  OBVIOUS
<1>1. QueueInv
  BY Mt5InitInv DEF Mt5Init, QueueInv, Unstored
<1>2. EntryService!Init
  BY DEF Mt5Init, EntryService!Init
<1> QED BY <1>1, <1>2

LEMMA OneAgentStays == OneAgent => []OneAgent
<1>1. OneAgent => OneAgent'
  BY DEF OneAgent
<1> QED BY <1>1, PTL

LEMMA QueueInvariant == OneAgent /\ Mt5Spec => []QueueInv
<1>1. OneAgent /\ QueueInv /\ [Mt5Next]_mt5Vars => QueueInv'
  BY NextQueue
<1> QED BY <1>1, InitQueue, OneAgentStays, PTL DEF Mt5Spec

\* With one agent on the account, the result that a late, repeated or abandoned
\* request stores is the only one its order ever gets.
THEOREM Mt5ResultIsFinal == OneAgent /\ Mt5Spec => EntryIsFinal
<1>1. OneAgent /\ QueueInv /\ [Mt5Next]_mt5Vars => [FinalStep]_mt5Vars
  BY NextQueue
<1>2. OneAgent /\ Mt5Spec => [][FinalStep]_mt5Vars
  BY <1>1, QueueInvariant, OneAgentStays, PTL DEF Mt5Spec
<1> QED BY <1>2 DEF FinalStep, EntryIsFinal

\* With one agent on the account, the command queue sends and records orders as
\* OrderService says, the service that the cTrader gateway implements too: each
\* order is given to the terminal once at most and its acceptance recorded once,
\* after it, and never on another order's answer.
THEOREM Mt5ImplementsService == OneAgent /\ Mt5Spec => EntryServiceSpec
<1>1. OneAgent /\ QueueInv /\ [Mt5Next]_mt5Vars =>
        [EntryService!Next]_(EntryService!serviceVars)
  BY NextQueue DEF QueueStep
<1> QED BY <1>1, InitQueue, QueueInvariant, OneAgentStays, PTL
        DEF Mt5Spec, EntryServiceSpec, EntryService!Spec
=============================================================================
