--------------------------- MODULE Credits_proofs ---------------------------
(***************************************************************************)
(* Proofs about a user's credits: CreditLedger, the two halves of the      *)
(* ledger that runs and refills write, and BillingPayments, the orders     *)
(* whose payment grants them.                                              *)
(***************************************************************************)
EXTENDS CreditLedger, BillingPayments, TLAPS

-----------------------------------------------------------------------------
(* CreditLedger, for any runs, workers, requests, cycles and amounts.  The *)
(* two row locks give each half of the ledger one owner: the holder of the *)
(* wallet has read the balance the row still has (WalletHeld) and the      *)
(* holder of the subscription carries a row that, with what it takes,      *)
(* makes up the quota (QuotaHeld).  A debit is decided before the locks,   *)
(* and is still right when it commits because only the worker whose fence  *)
(* is current may save a job, and it was unsaved then (Charging).          *)

\* The wallet is what its holder has read, and enough.
WalletHeld ==
    \A r \in Runners : walletLock = r =>
        step[r] = "compute" /\ row[r] = wallet /\ fromWallet[r] <= wallet

\* A run takes what it owes, from the plan and the wallet.
Amounts ==
    \A r \in Runners :
        /\ step[r] \in {"idle", "flush", "sum", "plan"} => fromPlan[r] = 0 /\ fromWallet[r] = 0
        /\ step[r] \in {"wallet", "compute"} => fromPlan[r] + fromWallet[r] = need[r]

\* A worker whose fence is current owes the whole cost of a job without result.
Charging ==
    \A r \in Runners :
        /\ step[r] = "idle" <=> run[r] = NoTx
        /\ run[r] \in Jobs /\ claimant[run[r]] = r =>
              /\ ~saved[run[r]]
              /\ step[r] \in {"plan", "wallet", "compute"} => need[r] = Cost

\* The row in the hands of the lock's holder, and a row computed without it.
QuotaHeld ==
    /\ \A r \in Runners :
          /\ subLock = r =>
                /\ step[r] \in {"sum", "plan", "wallet", "compute"}
                /\ step[r] \in {"sum", "plan"} => grant[r] # "none"
                /\ grant[r] = "none" => view[r].key = sub.key /\ view[r].next = sub.next
                /\ view[r].left + fromPlan[r] + (IF grant[r] = "none" THEN spent ELSE 0) = Quota
          /\ subLock # r => grant[r] = "none"
    /\ \A p \in Runners \cup Submitters : step[p] = "flush" =>
          view[p].left = Quota /\ view[p].key \in 0..MaxCycle

\* A cycle the row is due for has not been granted but by rewrites; this is so
\* of the cycle of a refill in a transaction's hands until it commits.
Owed(c) == refills[c] <= rewrites[c]

RefillCounts ==
    /\ \A c \in 0..MaxCycle : c > cycle => refills[c] = 0
    /\ Due(sub) => Owed(cycle)
    /\ \A r \in Runners : grant[r] = "refill" =>
          /\ view[r].key \in 0..cycle /\ Owed(view[r].key)
          /\ view[r].key # cycle => Owed(cycle)

CreditInv == /\ CreditTypeOK /\ WalletHeld /\ Amounts /\ Charging /\ QuotaHeld /\ RefillCounts
       /\ WalletMatchesLedger /\ NoOverdraft /\ JobChargedOnce /\ QuotaConserved
       /\ DueRefilledOnce

-----------------------------------------------------------------------------
(* The operators *)

LEMMA Constants ==
    /\ Quota \in Nat /\ Quota > 0 /\ Cost \in Nat /\ Cost > 0 /\ Opening \in Nat
    /\ Amount \in Nat /\ MaxCycle \in Nat /\ MaxClaims \in Nat /\ MaxTopUps \in Nat
    /\ NoTx \notin CreditRuns /\ NoTx \notin CreditTxs
    /\ \A r \in Runners : r \notin Submitters /\ r \notin Admins /\ r # NoTx
    /\ \A q \in Submitters : q \notin Admins
BY CreditAssumption DEF CreditAssumption, CreditTxs

\* A row is refilled, or it is not due.
LEMMA RefilledRow ==
    ASSUME cycle \in 0..MaxCycle, NEW s \in SubRows
    PROVE  /\ Refilled(s) \in SubRows
           /\ Due(s) => Refilled(s).left = Quota /\ Refilled(s).key = cycle
           /\ ~Due(s) => Refilled(s) = s
BY Constants DEF Refilled, SubRows

\* The plan pays no more than it has, and no more than is owed.
LEMMA IncludedPart ==
    ASSUME NEW s \in SubRows, NEW n \in Nat
    PROVE  /\ FromIncluded(s, n) \in Nat /\ FromIncluded(s, n) <= n
           /\ FromIncluded(s, n) <= s.left
BY DEF FromIncluded, SubRows

LEMMA CreditInitInv == CreditInit => CreditInv
<1> SUFFICES ASSUME CreditInit PROVE CreditInv
  OBVIOUS
<1>1. FreshRow \in SubRows /\ FreshRow.left = Quota /\ ~Due(FreshRow)
  BY Constants DEF CreditInit, FreshRow, SubRows, NullKey, Due
<1>2. CreditTypeOK
  <2>1. /\ step \in [CreditTxs -> Steps] /\ run \in [Runners -> CreditRuns \cup {NoTx}]
        /\ view \in [Runners \cup Submitters -> SubRows]
    BY <1>1 DEF CreditInit, Steps
  <2>2. /\ saved \in [CreditRuns -> BOOLEAN] /\ claimant \in [CreditRuns -> Runners \cup {NoTx}]
        /\ grant \in [Runners -> {"none", "refill", "rewrite"}]
    BY DEF CreditInit
  <2>3. /\ charged \in [CreditRuns -> Nat] /\ row \in [Runners \cup Admins -> Int]
        /\ need \in [Runners -> Nat] /\ fromPlan \in [Runners -> Nat]
        /\ fromWallet \in [Runners -> Nat]
        /\ refills \in [0..MaxCycle -> Nat] /\ rewrites \in [0..MaxCycle -> Nat]
    BY DEF CreditInit
  <2>4. /\ wallet \in Int /\ books \in Int /\ sub \in SubRows /\ spent \in Nat /\ lost \in Int
        /\ cycle \in 0..MaxCycle /\ topUps \in 0..MaxTopUps /\ claims \in 0..MaxClaims
        /\ subLock \in Runners \cup {NoTx} /\ walletLock \in Runners \cup {NoTx}
    BY <1>1, Constants DEF CreditInit
  <2> QED BY <2>1, <2>2, <2>3, <2>4 DEF CreditTypeOK
<1>3. WalletHeld /\ Amounts /\ Charging
  BY Constants, CreditAssumption DEF CreditInit, WalletHeld, Amounts, Charging, CreditRuns, CreditTxs
<1>4. QuotaHeld /\ RefillCounts
  BY <1>1, Constants DEF CreditInit, QuotaHeld, RefillCounts, CreditTxs
<1>5. WalletMatchesLedger /\ NoOverdraft /\ JobChargedOnce
  BY Constants DEF CreditInit, WalletMatchesLedger, NoOverdraft, JobChargedOnce, CreditRuns
<1>6. QuotaConserved /\ DueRefilledOnce
  BY <1>1, Constants DEF CreditInit, QuotaConserved, DueRefilledOnce
<1> QED BY <1>2, <1>3, <1>4, <1>5, <1>6 DEF CreditInv

-----------------------------------------------------------------------------
(* A run *)

\* A worker gives back what it has.
LEMMA Released ==
    ASSUME CreditInv, NEW r \in Runners, Release(r)
    PROVE  /\ step' \in [CreditTxs -> Steps] /\ run' \in [Runners -> CreditRuns \cup {NoTx}]
           /\ view' \in [Runners \cup Submitters -> SubRows]
           /\ row' \in [Runners \cup Admins -> Int]
           /\ need' \in [Runners -> Nat] /\ fromPlan' \in [Runners -> Nat]
           /\ fromWallet' \in [Runners -> Nat]
           /\ grant' \in [Runners -> {"none", "refill", "rewrite"}]
           /\ subLock' \in Runners \cup {NoTx} /\ walletLock' \in Runners \cup {NoTx}
           /\ subLock' # r /\ walletLock' # r
           /\ \A v \in Runners \ {r} : /\ subLock' = v <=> subLock = v
                                       /\ walletLock' = v <=> walletLock = v
           /\ step'[r] = "idle" /\ run'[r] = NoTx /\ grant'[r] = "none"
           /\ fromPlan'[r] = 0 /\ fromWallet'[r] = 0
           /\ \A v \in Runners \ {r} :
                 /\ step'[v] = step[v] /\ run'[v] = run[v] /\ view'[v] = view[v]
                 /\ row'[v] = row[v] /\ need'[v] = need[v] /\ fromPlan'[v] = fromPlan[v]
                 /\ fromWallet'[v] = fromWallet[v] /\ grant'[v] = grant[v]
           /\ \A q \in Submitters : step'[q] = step[q] /\ view'[q] = view[q]
<1> USE DEF Release, CreditInv, CreditTypeOK, CreditTxs
<1>1. FreshRow \in SubRows
  BY Constants DEF FreshRow, SubRows, NullKey
<1>2. /\ step' \in [CreditTxs -> Steps] /\ run' \in [Runners -> CreditRuns \cup {NoTx}]
      /\ view' \in [Runners \cup Submitters -> SubRows]
      /\ grant' \in [Runners -> {"none", "refill", "rewrite"}]
  BY <1>1 DEF Steps
<1>3. /\ row' \in [Runners \cup Admins -> Int]
      /\ need' \in [Runners -> Nat] /\ fromPlan' \in [Runners -> Nat]
      /\ fromWallet' \in [Runners -> Nat]
  OBVIOUS
<1>4. /\ subLock' \in Runners \cup {NoTx} /\ walletLock' \in Runners \cup {NoTx}
      /\ subLock' # r /\ walletLock' # r
      /\ \A v \in Runners \ {r} : /\ subLock' = v <=> subLock = v
                                  /\ walletLock' = v <=> walletLock = v
  BY Constants
<1>5. /\ step'[r] = "idle" /\ run'[r] = NoTx /\ grant'[r] = "none"
      /\ fromPlan'[r] = 0 /\ fromWallet'[r] = 0
  OBVIOUS
<1>6. \A v \in Runners \ {r} :
         /\ step'[v] = step[v] /\ run'[v] = run[v] /\ view'[v] = view[v]
         /\ row'[v] = row[v] /\ need'[v] = need[v] /\ fromPlan'[v] = fromPlan[v]
         /\ fromWallet'[v] = fromWallet[v] /\ grant'[v] = grant[v]
  OBVIOUS
<1>7. \A q \in Submitters : step'[q] = step[q] /\ view'[q] = view[q]
  BY Constants
<1> QED BY <1>2, <1>3, <1>4, <1>5, <1>6, <1>7

\* A transaction that is rolled back leaves the rows as they are.
LEMMA AbandonInv ==
    ASSUME CreditInv, NEW r \in Runners, Abandon(r)
    PROVE  CreditInv'
<1>1. Release(r) /\ UNCHANGED <<creditRows, cycle, topUps, creditHistory, creditRuns>>
  BY DEF Abandon
<1> USE DEF creditRows, creditHistory, creditRuns
<1>2. CreditTypeOK'
  BY <1>1, Released DEF CreditInv, CreditTypeOK
<1>3. WalletHeld' /\ Amounts'
  BY <1>1, Released DEF CreditInv, WalletHeld, Amounts
<1>4. Charging'
  <2>1. NoTx \notin Jobs
    BY Constants DEF CreditRuns
  <2> QED BY <1>1, <2>1, Released DEF CreditInv, Charging
<1>5. QuotaHeld'
  BY <1>1, Released DEF CreditInv, QuotaHeld
<1>6. RefillCounts'
  BY <1>1, Released DEF CreditInv, RefillCounts, Due, Owed
<1>7. /\ WalletMatchesLedger' /\ NoOverdraft' /\ JobChargedOnce' /\ QuotaConserved'
      /\ DueRefilledOnce'
  BY <1>1 DEF CreditInv, WalletMatchesLedger, NoOverdraft, JobChargedOnce, QuotaConserved,
       DueRefilledOnce
<1> QED BY <1>2, <1>3, <1>4, <1>5, <1>6, <1>7 DEF CreditInv

\* A worker's claim: its fence is the current one.
LEMMA BeginInv ==
    ASSUME CreditInv, NEW r \in Runners, NEW x \in CreditRuns, Begin(r, x)
    PROVE  CreditInv'
<1> USE DEF creditRows, creditLocks, creditHistory
<1>1. /\ step[r] = "idle" /\ claims < MaxClaims /\ claims' = claims + 1
      /\ claimant' = [claimant EXCEPT ![x] = r]
      /\ x \in Jobs => ~saved[x]
  BY DEF Begin, Claim
<1>2. sub \in SubRows /\ cycle \in 0..MaxCycle
  BY DEF CreditInv, CreditTypeOK
<1>3. \A v \in Runners :
        /\ step'[v] = IF v = r THEN IF Due(sub) THEN "flush" ELSE "sum" ELSE step[v]
        /\ run'[v] = IF v = r THEN x ELSE run[v]
        /\ view'[v] = IF v = r THEN Refilled(sub) ELSE view[v]
  BY DEF Begin, CreditInv, CreditTypeOK, CreditTxs
<1>4. \A q \in Submitters : step'[q] = step[q] /\ view'[q] = view[q]
  BY Constants DEF Begin, CreditInv, CreditTypeOK, CreditTxs
<1>5. CreditTypeOK'
  <2>1. claims' \in 0..MaxClaims
    BY <1>1, Constants DEF CreditInv, CreditTypeOK
  <2>2. step' \in [CreditTxs -> Steps] /\ view' \in [Runners \cup Submitters -> SubRows]
    BY <1>2, RefilledRow DEF Begin, CreditInv, CreditTypeOK, Steps
  <2>3. claimant' \in [CreditRuns -> Runners \cup {NoTx}] /\ run' \in [Runners -> CreditRuns \cup {NoTx}]
    BY <1>1 DEF Begin, CreditInv, CreditTypeOK
  <2> QED BY <2>1, <2>2, <2>3 DEF Begin, CreditInv, CreditTypeOK
<1>6. WalletHeld' /\ Amounts'
  BY <1>1, <1>3 DEF Begin, CreditInv, WalletHeld, Amounts
<1>7. Charging'
  <2> SUFFICES ASSUME NEW v \in Runners
               PROVE  /\ step'[v] = "idle" <=> run'[v] = NoTx
                      /\ run'[v] \in Jobs /\ claimant'[run'[v]] = v =>
                            /\ ~saved'[run'[v]]
                            /\ step'[v] \in {"plan", "wallet", "compute"} => need'[v] = Cost
    BY DEF Charging
  <2>1. CASE v = r
    BY <1>1, <1>3, <2>1, Constants DEF Begin
  <2>2. CASE v # r
    BY <1>1, <1>3, <2>2 DEF Begin, CreditInv, Charging, CreditTypeOK, CreditRuns
  <2> QED BY <2>1, <2>2
<1>8. QuotaHeld'
  BY <1>1, <1>2, <1>3, <1>4, RefilledRow DEF Begin, CreditInv, QuotaHeld
<1>9. RefillCounts'
  <2>1. grant[r] = "none"
    BY <1>1 DEF CreditInv, QuotaHeld
  <2> QED BY <1>3, <2>1 DEF Begin, CreditInv, RefillCounts, Due, Owed
<1>10. /\ WalletMatchesLedger' /\ NoOverdraft' /\ JobChargedOnce' /\ QuotaConserved'
       /\ DueRefilledOnce'
  BY DEF Begin, CreditInv, WalletMatchesLedger, NoOverdraft, JobChargedOnce, QuotaConserved,
       DueRefilledOnce
<1> QED BY <1>5, <1>6, <1>7, <1>8, <1>9, <1>10 DEF CreditInv

LEMMA RefuseEstimateInv ==
    ASSUME CreditInv, NEW r \in Runners, NEW x \in CreditRuns, RefuseEstimate(r, x)
    PROVE  CreditInv'
<1> USE DEF creditRows, creditLocks, creditHistory, creditTx
<1>1. /\ step[r] = "idle" /\ claims < MaxClaims /\ claims' = claims + 1
      /\ claimant' = [claimant EXCEPT ![x] = r]
  BY DEF RefuseEstimate, Claim
<1>2. UNCHANGED <<creditRows, cycle, topUps, creditLocks, creditHistory, creditTx>>
  BY DEF RefuseEstimate
<1>3. CreditTypeOK'
  <2>1. claims' \in 0..MaxClaims
    BY <1>1, Constants DEF CreditInv, CreditTypeOK
  <2>2. claimant' \in [CreditRuns -> Runners \cup {NoTx}]
    BY <1>1 DEF CreditInv, CreditTypeOK
  <2> QED BY <1>2, <2>1, <2>2 DEF CreditInv, CreditTypeOK
<1>4. Charging'
  <2>1. run[r] = NoTx /\ NoTx \notin Jobs
    BY <1>1, Constants DEF CreditInv, Charging, CreditRuns
  <2> QED BY <1>1, <1>2, <2>1 DEF CreditInv, Charging, CreditTypeOK, CreditRuns
<1>5. WalletHeld' /\ Amounts' /\ QuotaHeld'
  BY <1>2 DEF CreditInv, WalletHeld, Amounts, QuotaHeld
<1>6. RefillCounts'
  BY <1>2 DEF CreditInv, RefillCounts, Due, Owed
<1>7. /\ WalletMatchesLedger' /\ NoOverdraft' /\ JobChargedOnce' /\ QuotaConserved'
      /\ DueRefilledOnce'
  BY <1>2 DEF CreditInv, WalletMatchesLedger, NoOverdraft, JobChargedOnce, QuotaConserved,
       DueRefilledOnce
<1> QED BY <1>3, <1>4, <1>5, <1>6, <1>7 DEF CreditInv

-----------------------------------------------------------------------------
(* Grants *)

\* What a grant that is written at once does to the counts: a refill answers a
\* cycle that was owed, a rewrite pays for the one it may make due again.
LEMMA GrantCounts ==
    ASSUME CreditInv, NEW s \in SubRows, sub' = s, cycle' = cycle,
           NEW how \in {"refill", "rewrite"}, NEW key \in 0..MaxCycle, Granted(how, key),
           how = "refill" => /\ Owed(key)
                             /\ s.key = key
                             /\ key # cycle => Owed(cycle)
                             /\ key <= cycle
    PROVE  /\ refills' \in [0..MaxCycle -> Nat] /\ rewrites' \in [0..MaxCycle -> Nat]
           /\ DueRefilledOnce'
           /\ \A c \in 0..MaxCycle : c > cycle' => refills'[c] = 0
           /\ Due(sub)' => Owed(cycle)'
<1>1. /\ refills \in [0..MaxCycle -> Nat] /\ rewrites \in [0..MaxCycle -> Nat]
      /\ cycle \in 0..MaxCycle
  BY DEF CreditInv, CreditTypeOK
<1>2. \A c \in 0..MaxCycle : /\ refills[c] \in Nat /\ rewrites[c] \in Nat
                             /\ refills[c] <= 1 + rewrites[c]
                             /\ c > cycle => refills[c] = 0
  BY <1>1 DEF CreditInv, DueRefilledOnce, RefillCounts
<1>3. CASE how = "refill"
  <2>1. /\ refills' = [refills EXCEPT ![key] = refills[key] + 1] /\ rewrites' = rewrites
        /\ refills[key] <= rewrites[key] /\ key <= cycle
    BY <1>3 DEF Granted, Owed
  <2>2. \A c \in 0..MaxCycle : refills'[c] = IF c = key THEN refills[key] + 1 ELSE refills[c]
    BY <1>1, <2>1
  <2>3. refills' \in [0..MaxCycle -> Nat] /\ rewrites' \in [0..MaxCycle -> Nat]
    BY <1>1, <1>2, <2>1
  <2>4. DueRefilledOnce'
    BY <1>2, <2>1, <2>2 DEF DueRefilledOnce
  <2>5. \A c \in 0..MaxCycle : c > cycle' => refills'[c] = 0
    BY <1>1, <1>2, <2>1, <2>2
  <2>6. Due(sub)' => Owed(cycle)'
    <3>1. CASE key = cycle
      BY <1>3, <3>1 DEF Due
    <3>2. CASE key # cycle
      BY <1>1, <1>3, <2>1, <2>2, <3>2 DEF Owed
    <3> QED BY <3>1, <3>2
  <2> QED BY <2>3, <2>4, <2>5, <2>6
<1>4. CASE how = "rewrite"
  <2>1. refills' = refills /\ rewrites' = [rewrites EXCEPT ![cycle] = rewrites[cycle] + 1]
    BY <1>4 DEF Granted
  <2>2. \A c \in 0..MaxCycle :
          rewrites'[c] = IF c = cycle THEN rewrites[cycle] + 1 ELSE rewrites[c]
    BY <1>1, <2>1
  <2>3. refills' \in [0..MaxCycle -> Nat] /\ rewrites' \in [0..MaxCycle -> Nat]
    BY <1>1, <1>2, <2>1
  <2>4. DueRefilledOnce'
    BY <1>1, <1>2, <2>1, <2>2 DEF DueRefilledOnce
  <2>5. \A c \in 0..MaxCycle : c > cycle' => refills'[c] = 0
    BY <1>2, <2>1
  <2>6. Owed(cycle)'
    BY <1>1, <1>2, <2>1, <2>2 DEF Owed
  <2> QED BY <2>3, <2>4, <2>5, <2>6
<1> QED BY <1>3, <1>4

\* Nobody has the row: a whole quota is written.
LEMMA GrantInv ==
    ASSUME CreditInv, subLock = NoTx, NEW s \in SubRows, s.left = Quota, sub' = s, spent' = 0,
           NEW how \in {"refill", "rewrite"}, NEW key \in 0..MaxCycle, Granted(how, key),
           how = "refill" => Due(sub) /\ key = cycle /\ s.key = key,
           UNCHANGED <<wallet, books, charged, saved, cycle, topUps, creditLocks, lost, creditRuns,
                       run, row, need, fromPlan, fromWallet, grant>>,
           step' \in [CreditTxs -> Steps], view' \in [Runners \cup Submitters -> SubRows],
           \A r \in Runners : \/ step'[r] = step[r]
                              \/ step[r] = "flush" /\ step'[r] = "sum",
           \A p \in Runners \cup Submitters :
              step'[p] = "flush" => step[p] = "flush" /\ view'[p] = view[p]
    PROVE  CreditInv'
<1> USE DEF creditLocks, creditRuns
<1>1. \A r \in Runners : subLock # r /\ grant[r] = "none"
  BY Constants DEF CreditInv, QuotaHeld
<1>2. how = "refill" => Owed(key) /\ (key # cycle => Owed(cycle))
  BY DEF CreditInv, RefillCounts
<1>3. /\ refills' \in [0..MaxCycle -> Nat] /\ rewrites' \in [0..MaxCycle -> Nat]
      /\ DueRefilledOnce'
      /\ \A c \in 0..MaxCycle : c > cycle' => refills'[c] = 0
      /\ Due(sub)' => Owed(cycle)'
  BY <1>2, GrantCounts
<1>4. CreditTypeOK'
  BY <1>3 DEF CreditInv, CreditTypeOK
<1>5. WalletHeld' /\ Amounts' /\ Charging'
  BY DEF CreditInv, WalletHeld, Amounts, Charging
<1>6. QuotaHeld'
  BY <1>1 DEF CreditInv, QuotaHeld
<1>7. RefillCounts'
  BY <1>1, <1>3 DEF RefillCounts
<1>8. WalletMatchesLedger' /\ NoOverdraft' /\ JobChargedOnce' /\ QuotaConserved'
  BY Constants DEF CreditInv, WalletMatchesLedger, NoOverdraft, JobChargedOnce, QuotaConserved
<1> QED BY <1>3, <1>4, <1>5, <1>6, <1>7, <1>8 DEF CreditInv

\* A row computed without a lock.
LEMMA FlushedRow ==
    ASSUME CreditInv, NEW p \in Runners \cup Submitters, step[p] = "flush"
    PROVE  /\ view[p] \in SubRows /\ view[p].left = Quota /\ view[p].key \in 0..MaxCycle
           /\ FlushKind(view[p]) \in {"refill", "rewrite"}
           /\ FlushKind(view[p]) = "refill" => Due(sub) /\ view[p].key = cycle
BY DEF CreditInv, CreditTypeOK, QuotaHeld, FlushKind

\* A standard run commits its refill, a funded one keeps it with the lock.
LEMMA FlushInv ==
    ASSUME CreditInv, NEW r \in Runners, Flush(r)
    PROVE  CreditInv'
<1>1. step[r] = "flush" /\ subLock = NoTx /\ step' = [step EXCEPT ![r] = "sum"]
  BY DEF Flush
<1>2. /\ step' \in [CreditTxs -> Steps]
      /\ \A v \in Runners : step'[v] = IF v = r THEN "sum" ELSE step[v]
      /\ \A q \in Submitters : step'[q] = step[q]
  BY <1>1, Constants DEF CreditInv, CreditTypeOK, CreditTxs, Steps
<1>3. UNCHANGED <<wallet, books, charged, saved, cycle, topUps, walletLock, lost,
                  creditRuns, run, view, row, need, fromPlan, fromWallet>>
  BY DEF Flush
<1>4. CASE run[r] \in Jobs
  <2>1. /\ sub' = view[r] /\ spent' = 0 /\ Granted(FlushKind(view[r]), view[r].key)
        /\ UNCHANGED <<subLock, grant>>
    BY <1>4 DEF Flush
  <2>2. view' \in [Runners \cup Submitters -> SubRows]
    BY <1>3 DEF CreditInv, CreditTypeOK
  <2> QED BY <1>1, <1>2, <1>3, <2>1, <2>2, FlushedRow, GrantInv DEF creditLocks
<1>5. CASE run[r] \notin Jobs
  <2>1. /\ subLock' = r /\ grant' = [grant EXCEPT ![r] = FlushKind(view[r])]
        /\ UNCHANGED <<sub, spent, refills, rewrites>>
    BY <1>5 DEF Flush
  <2>2. \A v \in Runners : /\ grant[v] = "none"
                           /\ grant'[v] = IF v = r THEN FlushKind(view[r]) ELSE "none"
    BY <1>1, <2>1, Constants DEF CreditInv, QuotaHeld, CreditTypeOK
  <2>3. CreditTypeOK'
    <3>1. grant' \in [Runners -> {"none", "refill", "rewrite"}]
      BY <1>1, <2>1, FlushedRow DEF CreditInv, CreditTypeOK
    <3> QED BY <1>2, <1>3, <2>1, <3>1 DEF creditRuns, CreditInv, CreditTypeOK
  <2>4. WalletHeld' /\ Amounts' /\ Charging'
    BY <1>1, <1>2, <1>3 DEF creditRuns, CreditInv, WalletHeld, Amounts, Charging
  <2>5. QuotaHeld'
    <3>1. fromPlan[r] = 0 /\ view[r].left = Quota /\ FlushKind(view[r]) # "none"
      BY <1>1, FlushedRow DEF CreditInv, Amounts
    <3> QED BY <1>2, <1>3, <2>1, <2>2, <3>1, Constants DEF CreditInv, QuotaHeld
  <2>6. RefillCounts'
    <3>1. FlushKind(view[r]) = "refill" => view[r].key = cycle /\ Owed(cycle) /\ cycle \in 0..cycle
      BY <1>1, FlushedRow DEF CreditInv, RefillCounts, CreditTypeOK
    <3> QED BY <1>3, <2>1, <2>2, <3>1 DEF CreditInv, RefillCounts, Due, Owed
  <2>7. /\ WalletMatchesLedger' /\ NoOverdraft' /\ JobChargedOnce' /\ QuotaConserved'
        /\ DueRefilledOnce'
    BY <1>3, <2>1 DEF CreditInv, WalletMatchesLedger, NoOverdraft, JobChargedOnce, QuotaConserved,
         DueRefilledOnce
  <2> QED BY <2>3, <2>4, <2>5, <2>6, <2>7 DEF CreditInv
<1> QED BY <1>4, <1>5

\* What a worker without a lock reads of the ledger.
LEMMA SummariseInv ==
    ASSUME CreditInv, NEW r \in Runners, Summarise(r)
    PROVE  CreditInv'
<1> USE DEF creditRows, creditLocks, creditHistory, creditRuns
<1> DEFINE owed == Outstanding(run[r])
<1>1. /\ step[r] = "sum" /\ need' = [need EXCEPT ![r] = owed]
      /\ step' = [step EXCEPT ![r] = IF owed = 0 THEN "compute" ELSE "plan"]
      /\ UNCHANGED <<creditRows, cycle, topUps, creditLocks, creditHistory, creditRuns,
                     run, view, row, fromPlan, fromWallet, grant>>
  BY DEF Summarise
<1>2. run[r] \in CreditRuns /\ Charging
  BY <1>1 DEF CreditInv, Charging, CreditTypeOK
<1>3. owed \in Nat
  BY <1>2, Constants DEF Outstanding, CreditInv, CreditTypeOK
<1>4. run[r] \in Jobs /\ claimant[run[r]] = r => owed = Cost /\ ~saved[run[r]]
  <2> SUFFICES ASSUME run[r] \in Jobs, claimant[run[r]] = r PROVE owed = Cost /\ ~saved[run[r]]
    OBVIOUS
  <2>1. ~saved[run[r]] /\ charged[run[r]] = 0
    BY <1>2 DEF CreditInv, Charging, JobChargedOnce
  <2> QED BY <2>1 DEF Outstanding
<1> HIDE DEF owed
<1>5. /\ \A v \in Runners :
            /\ step'[v] = IF v = r THEN IF owed = 0 THEN "compute" ELSE "plan" ELSE step[v]
            /\ need'[v] = IF v = r THEN owed ELSE need[v]
      /\ \A q \in Submitters : step'[q] = step[q]
  BY <1>1, Constants DEF CreditInv, CreditTypeOK, CreditTxs
<1>6. CreditTypeOK'
  <2>1. step' \in [CreditTxs -> Steps] /\ need' \in [Runners -> Nat]
    BY <1>1, <1>3 DEF CreditInv, CreditTypeOK, Steps
  <2> QED BY <1>1, <2>1 DEF CreditInv, CreditTypeOK
<1>7. WalletHeld' /\ Amounts'
  BY <1>1, <1>5 DEF CreditInv, WalletHeld, Amounts
<1>8. Charging'
  BY <1>1, <1>4, <1>5 DEF CreditInv, Charging
<1>9. QuotaHeld'
  BY <1>1, <1>5 DEF CreditInv, QuotaHeld
<1>10. RefillCounts'
  BY <1>1 DEF CreditInv, RefillCounts, Due, Owed
<1>11. /\ WalletMatchesLedger' /\ NoOverdraft' /\ JobChargedOnce' /\ QuotaConserved'
       /\ DueRefilledOnce'
  BY <1>1 DEF CreditInv, WalletMatchesLedger, NoOverdraft, JobChargedOnce, QuotaConserved,
       DueRefilledOnce
<1> QED BY <1>6, <1>7, <1>8, <1>9, <1>10, <1>11 DEF CreditInv

\* The plan's part is taken from the row under its lock, refilled if it is due.
LEMMA DebitPlanInv ==
    ASSUME CreditInv, NEW r \in Runners, DebitPlan(r)
    PROVE  CreditInv'
<1> USE DEF creditRows, creditHistory, creditRuns
<1> DEFINE old  == RowFor(r)
           s    == Refilled(old)
           take == FromIncluded(s, need[r])
           left == [s EXCEPT !.left = s.left - take]
<1>1. /\ step[r] = "plan" /\ subLock \in {NoTx, r} /\ subLock' = r
      /\ view' = [view EXCEPT ![r] = left]
      /\ fromPlan' = [fromPlan EXCEPT ![r] = take]
      /\ fromWallet' = [fromWallet EXCEPT ![r] = need[r] - take]
      /\ grant' = [grant EXCEPT ![r] =
                      IF Due(old) /\ grant[r] # "rewrite" THEN "refill" ELSE grant[r]]
      /\ step' = [step EXCEPT ![r] = "wallet"]
      /\ UNCHANGED <<creditRows, cycle, topUps, walletLock, creditHistory, creditRuns,
                     run, row, need>>
  BY DEF DebitPlan
<1>2. /\ old \in SubRows /\ cycle \in 0..MaxCycle /\ need[r] \in Nat /\ fromPlan[r] = 0
      /\ spent \in Nat
  BY <1>1 DEF RowFor, CreditInv, CreditTypeOK, Amounts
<1>3. /\ s \in SubRows
      /\ Due(old) => s.left = Quota /\ s.key = cycle
      /\ ~Due(old) => s = old
  BY <1>2, RefilledRow
<1>4. take \in Nat /\ take <= need[r] /\ take <= s.left
  BY <1>2, <1>3, IncludedPart
\* The row and what was taken from it since the last grant make up the quota.
<1>5. \/ grant[r] # "none" /\ subLock = r /\ old = view[r] /\ old.left = Quota
      \/ grant[r] = "none" /\ subLock = NoTx /\ old = sub /\ old.left + spent = Quota
  <2>1. CASE subLock = r
    BY <1>1, <1>2, <2>1 DEF RowFor, CreditInv, QuotaHeld, SubRows
  <2>2. CASE subLock # r
    BY <1>1, <2>2 DEF RowFor, CreditInv, QuotaHeld, QuotaConserved
  <2> QED BY <2>1, <2>2
<1>6. Due(old) /\ grant[r] # "rewrite" => Owed(cycle)
  <2>1. CASE grant[r] = "none"
    BY <1>5, <2>1 DEF CreditInv, RefillCounts
  <2>2. CASE grant[r] = "refill"
    BY <1>5, <2>2 DEF CreditInv, RefillCounts, Due
  <2> QED BY <2>1, <2>2 DEF CreditInv, CreditTypeOK
<1>7. left \in SubRows /\ left.left = s.left - take /\ left.key = s.key /\ left.next = s.next
  BY <1>3, <1>4 DEF SubRows
<1>8. /\ \A v \in Runners :
            /\ step'[v] = IF v = r THEN "wallet" ELSE step[v]
            /\ view'[v] = IF v = r THEN left ELSE view[v]
            /\ fromPlan'[v] = IF v = r THEN take ELSE fromPlan[v]
            /\ fromWallet'[v] = IF v = r THEN need[r] - take ELSE fromWallet[v]
            /\ v # r => grant'[v] = grant[v]
      /\ grant'[r] = IF Due(old) /\ grant[r] # "rewrite" THEN "refill" ELSE grant[r]
      /\ \A q \in Submitters : step'[q] = step[q] /\ view'[q] = view[q]
  BY <1>1, Constants DEF CreditInv, CreditTypeOK, CreditTxs
<1> HIDE DEF left, take, s, old
<1>9. CreditTypeOK'
  <2>1. /\ step' \in [CreditTxs -> Steps] /\ view' \in [Runners \cup Submitters -> SubRows]
        /\ subLock' \in Runners \cup {NoTx}
    BY <1>1, <1>7 DEF CreditInv, CreditTypeOK, Steps
  <2>2. fromPlan' \in [Runners -> Nat] /\ fromWallet' \in [Runners -> Nat]
    BY <1>1, <1>2, <1>4 DEF CreditInv, CreditTypeOK
  <2>3. grant' \in [Runners -> {"none", "refill", "rewrite"}]
    BY <1>1 DEF CreditInv, CreditTypeOK
  <2> QED BY <1>1, <2>1, <2>2, <2>3 DEF CreditInv, CreditTypeOK
<1>10. WalletHeld'
  BY <1>1, <1>8 DEF CreditInv, WalletHeld
<1>11. Amounts'
  BY <1>1, <1>2, <1>4, <1>8 DEF CreditInv, Amounts
<1>12. Charging'
  BY <1>1, <1>8 DEF CreditInv, Charging
<1>13. QuotaHeld'
  <2>1. /\ left.left + take + (IF grant'[r] = "none" THEN spent ELSE 0) = Quota
        /\ grant'[r] = "none" => left.key = sub.key /\ left.next = sub.next
    BY <1>2, <1>3, <1>4, <1>5, <1>7, <1>8, Constants DEF SubRows
  <2>2. \A v \in Runners \ {r} : subLock # v /\ subLock' # v /\ grant'[v] = "none"
    BY <1>1, <1>8, Constants DEF CreditInv, QuotaHeld
  <2>3. \A p \in Runners \cup Submitters : step'[p] = "flush" =>
          view'[p].left = Quota /\ view'[p].key \in 0..MaxCycle
    BY <1>1, <1>8, Constants DEF CreditInv, QuotaHeld
  <2>4. /\ step'[r] = "wallet" /\ view'[r] = left /\ fromPlan'[r] = take
        /\ spent' = spent /\ sub' = sub /\ subLock' = r
    BY <1>1, <1>8
  <2> QED BY <2>1, <2>2, <2>3, <2>4 DEF QuotaHeld
<1>14. RefillCounts'
  <2>1. grant'[r] = "refill" => /\ left.key \in 0..cycle /\ Owed(left.key)
                                /\ left.key # cycle => Owed(cycle)
    <3>1. CASE Due(old) /\ grant[r] # "rewrite"
      BY <1>2, <1>3, <1>6, <1>7, <3>1
    <3>2. CASE ~(Due(old) /\ grant[r] # "rewrite") /\ grant'[r] = "refill"
      <4>1. grant[r] = "refill" /\ ~Due(old)
        BY <1>8, <3>2
      <4> QED BY <1>3, <1>5, <1>7, <4>1 DEF CreditInv, RefillCounts
    <3> QED BY <3>1, <3>2
  <2>2. \A v \in Runners \ {r} : grant'[v] = "none"
    BY <1>1, <1>8, Constants DEF CreditInv, QuotaHeld
  <2>3. /\ view'[r] = left /\ cycle' = cycle /\ sub' = sub
        /\ refills' = refills /\ rewrites' = rewrites
    BY <1>1, <1>8
  <2>4. /\ \A c \in 0..MaxCycle : c > cycle' => refills'[c] = 0
        /\ Due(sub)' => Owed(cycle)'
    BY <2>3 DEF CreditInv, RefillCounts, Due, Owed
  <2>5. grant'[r] = "refill" => /\ view'[r].key \in 0..cycle' /\ Owed(view[r].key)'
                                /\ view'[r].key # cycle' => Owed(cycle)'
    BY <2>1, <2>3 DEF Owed
  <2> QED BY <2>2, <2>4, <2>5 DEF RefillCounts
<1>15. /\ WalletMatchesLedger' /\ NoOverdraft' /\ JobChargedOnce' /\ QuotaConserved'
       /\ DueRefilledOnce'
  BY <1>1 DEF CreditInv, WalletMatchesLedger, NoOverdraft, JobChargedOnce, QuotaConserved,
       DueRefilledOnce
<1> QED BY <1>9, <1>10, <1>11, <1>12, <1>13, <1>14, <1>15 DEF CreditInv

LEMMA DebitWalletInv ==
    ASSUME CreditInv, NEW r \in Runners, DebitWallet(r)
    PROVE  CreditInv'
<1> USE DEF creditRows, creditHistory, creditRuns
<1>1. /\ step[r] = "wallet" /\ walletLock = NoTx /\ wallet >= fromWallet[r] /\ walletLock' = r
      /\ row' = [row EXCEPT ![r] = wallet] /\ step' = [step EXCEPT ![r] = "compute"]
      /\ UNCHANGED <<creditRows, cycle, topUps, subLock, creditHistory, creditRuns,
                     run, view, need, fromPlan, fromWallet, grant>>
  BY DEF DebitWallet
<1>2. /\ \A v \in Runners : step'[v] = IF v = r THEN "compute" ELSE step[v]
      /\ \A q \in Submitters : step'[q] = step[q]
      /\ row'[r] = wallet
  BY <1>1, Constants DEF CreditInv, CreditTypeOK, CreditTxs
<1>3. CreditTypeOK'
  <2>1. step' \in [CreditTxs -> Steps] /\ row' \in [Runners \cup Admins -> Int]
    BY <1>1 DEF CreditInv, CreditTypeOK, Steps
  <2> QED BY <1>1, <2>1 DEF CreditInv, CreditTypeOK
<1>4. WalletHeld' /\ Amounts'
  BY <1>1, <1>2 DEF CreditInv, WalletHeld, Amounts, CreditTypeOK
<1>5. Charging' /\ QuotaHeld'
  BY <1>1, <1>2 DEF CreditInv, Charging, QuotaHeld
<1>6. RefillCounts'
  BY <1>1 DEF CreditInv, RefillCounts, Due, Owed
<1>7. /\ WalletMatchesLedger' /\ NoOverdraft' /\ JobChargedOnce' /\ QuotaConserved'
      /\ DueRefilledOnce'
  BY <1>1 DEF CreditInv, WalletMatchesLedger, NoOverdraft, JobChargedOnce, QuotaConserved,
       DueRefilledOnce
<1> QED BY <1>3, <1>4, <1>5, <1>6, <1>7 DEF CreditInv

\* The lock's holder writes its row.
LEMMA CommitCounts ==
    ASSUME CreditInv, NEW r \in Runners, Commit(r)
    PROVE  /\ refills' \in [0..MaxCycle -> Nat] /\ rewrites' \in [0..MaxCycle -> Nat]
           /\ DueRefilledOnce'
           /\ \A c \in 0..MaxCycle : c > cycle' => refills'[c] = 0
           /\ Due(sub)' => Owed(cycle)'
           /\ subLock # r => refills' = refills /\ rewrites' = rewrites
<1>1. cycle' = cycle
  BY DEF Commit
<1>2. CASE subLock = r
  <2>1. /\ sub' = view[r] /\ Granted(grant[r], view[r].key)
        /\ view[r] \in SubRows /\ grant[r] \in {"none", "refill", "rewrite"}
    BY <1>2 DEF Commit, CreditInv, CreditTypeOK
  <2>2. CASE grant[r] = "none"
    <3>1. refills' = refills /\ rewrites' = rewrites
      BY <2>1, <2>2 DEF Granted
    <3>2. sub'.key = sub.key /\ sub'.next = sub.next
      BY <1>2, <2>1, <2>2 DEF CreditInv, QuotaHeld
    <3> QED BY <1>1, <1>2, <3>1, <3>2
            DEF CreditInv, CreditTypeOK, DueRefilledOnce, RefillCounts, Due, Owed
  <2>3. CASE grant[r] = "refill"
    <3>1. view[r].key \in 0..cycle /\ Owed(view[r].key) /\ (view[r].key # cycle => Owed(cycle))
      BY <2>3 DEF CreditInv, RefillCounts
    <3>2. view[r].key \in 0..MaxCycle /\ view[r].key <= cycle
      BY <3>1, Constants DEF CreditInv, CreditTypeOK
    <3> QED BY <1>1, <1>2, <2>1, <2>3, <3>1, <3>2, GrantCounts
  <2>4. CASE grant[r] = "rewrite"
    <3>1. Granted("rewrite", 0) /\ 0 \in 0..MaxCycle
      BY <2>1, <2>4, Constants DEF Granted
    <3> QED BY <1>1, <1>2, <2>1, <3>1, GrantCounts
  <2> QED BY <2>1, <2>2, <2>3, <2>4
<1>3. CASE subLock # r
  <2>1. UNCHANGED <<sub, refills, rewrites>>
    BY <1>3 DEF Commit
  <2> QED BY <1>1, <2>1 DEF CreditInv, CreditTypeOK, DueRefilledOnce, RefillCounts, Due, Owed
<1> QED BY <1>2, <1>3

LEMMA CommitInv ==
    ASSUME CreditInv, NEW r \in Runners, Commit(r)
    PROVE  CreditInv'
<1> DEFINE x == run[r]
<1>1. /\ step[r] = "compute" /\ MayCommit(r) /\ Release(r)
      /\ saved' = [saved EXCEPT ![x] = TRUE]
      /\ charged' = [charged EXCEPT ![x] = charged[x] + fromPlan[r] + fromWallet[r]]
      /\ UNCHANGED <<cycle, topUps, lost, creditRuns>>
  BY DEF Commit
<1>2. /\ subLock = r => /\ sub' = view[r]
                        /\ spent' = (IF grant[r] = "none" THEN spent ELSE 0) + fromPlan[r]
      /\ subLock # r => sub' = sub /\ spent' = spent
      /\ walletLock = r => wallet' = row[r] - fromWallet[r] /\ books' = books - fromWallet[r]
      /\ walletLock # r => wallet' = wallet /\ books' = books
  BY DEF Commit
<1>3. /\ x \in CreditRuns /\ charged \in [CreditRuns -> Nat] /\ saved \in [CreditRuns -> BOOLEAN]
      /\ fromPlan[r] \in Nat /\ fromWallet[r] \in Nat /\ spent \in Nat /\ row[r] \in Int
      /\ wallet \in Int /\ books \in Int /\ lost \in Int /\ view[r] \in SubRows
  BY <1>1 DEF CreditInv, CreditTypeOK, Charging
<1>4. x \in Jobs => /\ claimant[x] = r /\ ~saved[x] /\ charged[x] = 0
                    /\ fromPlan[r] + fromWallet[r] = Cost
  BY <1>1 DEF MayCommit, CreditInv, Charging, Amounts, JobChargedOnce
<1>5. charged' \in [CreditRuns -> Nat] /\ saved' \in [CreditRuns -> BOOLEAN]
  BY <1>1, <1>3
<1>6. \A y \in CreditRuns :
        /\ charged'[y] = IF y = x THEN charged[x] + fromPlan[r] + fromWallet[r] ELSE charged[y]
        /\ saved'[y] = IF y = x THEN TRUE ELSE saved[y]
  BY <1>1, <1>3
<1> HIDE DEF x
<1>7. CreditTypeOK'
  <2>1. wallet' \in Int /\ books' \in Int /\ sub' \in SubRows /\ spent' \in Nat
    <3>1. sub \in SubRows
      BY DEF CreditInv, CreditTypeOK
    <3>2. walletLock = r => wallet' \in Int /\ books' \in Int
      BY <1>2, <1>3
    <3>3. wallet' \in Int /\ books' \in Int
      BY <1>2, <1>3, <3>2
    <3>4. CASE subLock = r
      BY <1>2, <1>3, <3>3, <3>4
    <3>5. CASE subLock # r
      BY <1>2, <1>3, <3>1, <3>3, <3>5
    <3> QED BY <3>4, <3>5
  <2>2. /\ step' \in [CreditTxs -> Steps] /\ run' \in [Runners -> CreditRuns \cup {NoTx}]
        /\ view' \in [Runners \cup Submitters -> SubRows]
        /\ row' \in [Runners \cup Admins -> Int]
        /\ need' \in [Runners -> Nat] /\ fromPlan' \in [Runners -> Nat]
        /\ fromWallet' \in [Runners -> Nat]
        /\ grant' \in [Runners -> {"none", "refill", "rewrite"}]
        /\ subLock' \in Runners \cup {NoTx} /\ walletLock' \in Runners \cup {NoTx}
    BY <1>1, Released
  <2>3. /\ refills' \in [0..MaxCycle -> Nat] /\ rewrites' \in [0..MaxCycle -> Nat]
    BY CommitCounts
  <2>4. /\ cycle' \in 0..MaxCycle /\ topUps' \in 0..MaxTopUps /\ lost' \in Int
        /\ claimant' \in [CreditRuns -> Runners \cup {NoTx}] /\ claims' \in 0..MaxClaims
    BY <1>1 DEF creditRuns, CreditInv, CreditTypeOK
  <2> QED BY <1>5, <2>1, <2>2, <2>3, <2>4 DEF CreditTypeOK
<1>8. WalletHeld'
  <2> SUFFICES ASSUME NEW v \in Runners, walletLock' = v
               PROVE  step'[v] = "compute" /\ row'[v] = wallet' /\ fromWallet'[v] <= wallet'
    BY DEF WalletHeld
  <2>1. v # r /\ walletLock = v
    BY <1>1, Released
  <2> QED BY <1>1, <1>2, <2>1, Released DEF CreditInv, WalletHeld
<1>9. Amounts'
  BY <1>1, Released DEF CreditInv, Amounts
<1>10. Charging'
  <2> SUFFICES ASSUME NEW v \in Runners
               PROVE  /\ step'[v] = "idle" <=> run'[v] = NoTx
                      /\ run'[v] \in Jobs /\ claimant'[run'[v]] = v =>
                            /\ ~saved'[run'[v]]
                            /\ step'[v] \in {"plan", "wallet", "compute"} => need'[v] = Cost
    BY DEF Charging
  <2>1. CASE v = r
    BY <1>1, <2>1, Released, Constants DEF CreditRuns
  <2>2. CASE v # r
    <3>1. step'[v] = step[v] /\ run'[v] = run[v] /\ need'[v] = need[v] /\ claimant' = claimant
      BY <1>1, <2>2, Released DEF creditRuns
    <3>2. run[v] \in Jobs /\ claimant[run[v]] = v => run[v] # x
      BY <1>4, <2>2
    <3> QED BY <1>6, <3>1, <3>2 DEF CreditInv, Charging, CreditRuns
  <2> QED BY <2>1, <2>2
<1>11. QuotaHeld'
  <2>1. \A v \in Runners : subLock' = v =>
          /\ v # r /\ subLock = v /\ sub' = sub /\ spent' = spent
          /\ step'[v] = step[v] /\ view'[v] = view[v] /\ grant'[v] = grant[v]
          /\ fromPlan'[v] = fromPlan[v]
    BY <1>1, <1>2, Released
  <2>2. \A v \in Runners : subLock' # v => grant'[v] = "none"
    BY <1>1, Released DEF CreditInv, QuotaHeld
  <2>3. \A p \in Runners \cup Submitters : step'[p] = "flush" =>
          view'[p].left = Quota /\ view'[p].key \in 0..MaxCycle
    BY <1>1, Released DEF CreditInv, QuotaHeld
  <2> QED BY <2>1, <2>2, <2>3 DEF CreditInv, QuotaHeld
<1>12. RefillCounts'
  <2>1. ASSUME NEW v \in Runners, grant'[v] = "refill"
        PROVE  /\ view'[v].key \in 0..cycle' /\ Owed(view[v].key)'
               /\ view'[v].key # cycle' => Owed(cycle)'
    <3>1. v # r /\ subLock = v /\ view'[v] = view[v] /\ grant[v] = "refill"
      BY <1>1, <2>1, Released DEF CreditInv, QuotaHeld
    <3>2. cycle' = cycle /\ refills' = refills /\ rewrites' = rewrites
      BY <1>1, <3>1, CommitCounts
    <3> QED BY <3>1, <3>2 DEF CreditInv, RefillCounts, Owed
  <2> QED BY <2>1, CommitCounts DEF RefillCounts
<1>13. WalletMatchesLedger' /\ NoOverdraft'
  <2>1. lost' = lost /\ wallet + lost = books /\ wallet >= 0
    BY <1>1 DEF CreditInv, WalletMatchesLedger, NoOverdraft
  <2>2. walletLock = r => row[r] = wallet /\ fromWallet[r] <= wallet
    BY DEF CreditInv, WalletHeld
  <2>3. CASE walletLock = r
    <3>1. wallet' = wallet - fromWallet[r] /\ books' = books - fromWallet[r]
      BY <1>2, <2>2, <2>3
    <3> QED BY <1>3, <2>1, <2>2, <2>3, <3>1 DEF WalletMatchesLedger, NoOverdraft
  <2>4. CASE walletLock # r
    BY <1>2, <2>1, <2>4 DEF WalletMatchesLedger, NoOverdraft
  <2> QED BY <2>3, <2>4
<1>14. JobChargedOnce'
  <2> SUFFICES ASSUME NEW y \in Jobs
               PROVE  charged'[y] = IF saved'[y] THEN Cost ELSE 0
    BY DEF JobChargedOnce
  <2>1. CASE y = x
    <3>1. charged'[y] = charged[x] + fromPlan[r] + fromWallet[r] /\ saved'[y]
      BY <1>3, <1>6, <2>1
    <3>2. charged[x] = 0 /\ fromPlan[r] + fromWallet[r] = Cost
      BY <1>4, <2>1
    <3>3. charged'[y] = Cost
      BY <1>3, <3>1, <3>2
    <3> QED BY <3>1, <3>3
  <2>2. CASE y # x
    <3>1. charged'[y] = charged[y] /\ saved'[y] = saved[y]
      BY <1>6, <2>2 DEF CreditRuns
    <3> QED BY <3>1 DEF CreditInv, JobChargedOnce
  <2> QED BY <2>1, <2>2
<1>15. QuotaConserved'
  BY <1>2, <1>3 DEF CreditInv, QuotaConserved, QuotaHeld, SubRows
<1>16. DueRefilledOnce'
  BY CommitCounts
<1> QED BY <1>7, <1>8, <1>9, <1>10, <1>11, <1>12, <1>13, <1>14, <1>15, <1>16 DEF CreditInv

LEMMA RunStepInv ==
    ASSUME CreditInv, NEW r \in Runners, RunStep(r) \/ Fail(r)
    PROVE  CreditInv'
<1>1. CASE Flush(r)
  BY <1>1, FlushInv
<1>2. CASE Summarise(r)
  BY <1>2, SummariseInv
<1>3. CASE DebitPlan(r)
  BY <1>3, DebitPlanInv
<1>4. CASE DebitWallet(r)
  BY <1>4, DebitWalletInv
<1>5. CASE Commit(r)
  BY <1>5, CommitInv
<1>6. CASE Abandon(r)
  BY <1>6, AbandonInv
<1> QED BY <1>1, <1>2, <1>3, <1>4, <1>5, <1>6 DEF RunStep, Fail, Fenced, RefusePlan, RefuseWallet

-----------------------------------------------------------------------------
(* Requests *)

\* A submit request computes its refill from what it read.
LEMMA SubmitReadInv ==
    ASSUME CreditInv, NEW q \in Submitters, SubmitRead(q)
    PROVE  CreditInv'
<1> USE DEF creditRows, creditLocks, creditHistory, creditRuns
<1>1. /\ Due(sub) /\ view' = [view EXCEPT ![q] = Refilled(sub)]
      /\ step' = [step EXCEPT ![q] = "flush"]
      /\ UNCHANGED <<creditRows, cycle, topUps, creditLocks, creditHistory, creditRuns,
                     run, row, need, fromPlan, fromWallet, grant>>
  BY DEF SubmitRead
<1>2. /\ Refilled(sub) \in SubRows /\ Refilled(sub).left = Quota
      /\ Refilled(sub).key \in 0..MaxCycle
  BY <1>1, RefilledRow DEF CreditInv, CreditTypeOK
<1>3. /\ \A r \in Runners : step'[r] = step[r] /\ view'[r] = view[r]
      /\ \A p \in Submitters : /\ step'[p] = IF p = q THEN "flush" ELSE step[p]
                               /\ view'[p] = IF p = q THEN Refilled(sub) ELSE view[p]
  BY <1>1, Constants DEF CreditInv, CreditTypeOK, CreditTxs
<1>4. CreditTypeOK'
  <2>1. step' \in [CreditTxs -> Steps] /\ view' \in [Runners \cup Submitters -> SubRows]
    BY <1>1, <1>2 DEF CreditInv, CreditTypeOK, Steps
  <2> QED BY <1>1, <2>1 DEF CreditInv, CreditTypeOK
<1>5. WalletHeld' /\ Amounts' /\ Charging'
  BY <1>1, <1>3 DEF CreditInv, WalletHeld, Amounts, Charging
<1>6. QuotaHeld'
  BY <1>1, <1>2, <1>3 DEF CreditInv, QuotaHeld
<1>7. RefillCounts'
  BY <1>1, <1>3 DEF CreditInv, RefillCounts, Due, Owed
<1>8. /\ WalletMatchesLedger' /\ NoOverdraft' /\ JobChargedOnce' /\ QuotaConserved'
      /\ DueRefilledOnce'
  BY <1>1 DEF CreditInv, WalletMatchesLedger, NoOverdraft, JobChargedOnce, QuotaConserved,
       DueRefilledOnce
<1> QED BY <1>4, <1>5, <1>6, <1>7, <1>8 DEF CreditInv

LEMMA SubmitCommitInv ==
    ASSUME CreditInv, NEW q \in Submitters, SubmitCommit(q)
    PROVE  CreditInv'
<1>1. /\ step[q] = "flush" /\ subLock = NoTx /\ sub' = view[q] /\ spent' = 0
      /\ Granted(FlushKind(view[q]), view[q].key)
      /\ step' = [step EXCEPT ![q] = "done"] /\ view' = [view EXCEPT ![q] = FreshRow]
      /\ UNCHANGED <<wallet, books, charged, saved, cycle, topUps, creditLocks, lost, creditRuns,
                     run, row, need, fromPlan, fromWallet, grant>>
  BY DEF SubmitCommit
<1>2. FreshRow \in SubRows
  BY Constants DEF FreshRow, SubRows, NullKey
<1>3. step' \in [CreditTxs -> Steps] /\ view' \in [Runners \cup Submitters -> SubRows]
  BY <1>1, <1>2 DEF CreditInv, CreditTypeOK, Steps
<1>4. /\ \A r \in Runners : step'[r] = step[r]
      /\ \A p \in Runners \cup Submitters :
            step'[p] = "flush" => step[p] = "flush" /\ view'[p] = view[p]
  BY <1>1, Constants DEF CreditInv, CreditTypeOK, CreditTxs
<1> QED BY <1>1, <1>3, <1>4, FlushedRow, GrantInv

LEMMA ReadSubscriptionInv ==
    ASSUME CreditInv, ReadSubscription
    PROVE  CreditInv'
<1>1. /\ Due(sub) /\ subLock = NoTx /\ sub' = Refilled(sub) /\ spent' = 0
      /\ Granted("refill", cycle)
      /\ UNCHANGED <<wallet, books, charged, saved, cycle, topUps, creditLocks, lost,
                     creditRuns, creditTx>>
  BY DEF ReadSubscription
<1>2. /\ Refilled(sub) \in SubRows /\ Refilled(sub).left = Quota /\ Refilled(sub).key = cycle
      /\ cycle \in 0..MaxCycle
  BY <1>1, RefilledRow DEF CreditInv, CreditTypeOK
<1>3. step' \in [CreditTxs -> Steps] /\ view' \in [Runners \cup Submitters -> SubRows]
  BY <1>1 DEF creditTx, CreditInv, CreditTypeOK
<1> QED BY <1>1, <1>2, <1>3, GrantInv DEF creditTx

\* A renewal makes no cycle due.
LEMMA RenewInv ==
    ASSUME CreditInv, Renew
    PROVE  CreditInv'
<1> USE DEF creditLocks, creditRuns, creditTx
<1> DEFINE s == [left |-> Quota, key |-> NullKey, next |-> cycle + 1]
<1>1. /\ subLock = NoTx /\ sub' = s /\ spent' = 0
      /\ UNCHANGED <<wallet, books, charged, saved, cycle, topUps, creditLocks, refills,
                     rewrites, lost, creditRuns, creditTx>>
  BY DEF Renew
<1>2. s \in SubRows /\ s.left = Quota /\ ~(cycle >= s.next)
  BY Constants DEF CreditInv, CreditTypeOK, SubRows, NullKey
<1> HIDE DEF s
<1>3. \A r \in Runners : subLock # r /\ grant[r] = "none"
  BY <1>1, Constants DEF CreditInv, QuotaHeld
<1>4. CreditTypeOK'
  BY <1>1, <1>2 DEF CreditInv, CreditTypeOK
<1>5. WalletHeld' /\ Amounts' /\ Charging'
  BY <1>1 DEF CreditInv, WalletHeld, Amounts, Charging
<1>6. QuotaHeld'
  BY <1>1, <1>3 DEF CreditInv, QuotaHeld
<1>7. RefillCounts'
  BY <1>1, <1>2, <1>3 DEF CreditInv, RefillCounts, Due
<1>8. WalletMatchesLedger' /\ NoOverdraft' /\ JobChargedOnce' /\ DueRefilledOnce'
  BY <1>1 DEF CreditInv, WalletMatchesLedger, NoOverdraft, JobChargedOnce, DueRefilledOnce
<1>9. QuotaConserved'
  BY <1>1, <1>2, Constants DEF QuotaConserved
<1> QED BY <1>4, <1>5, <1>6, <1>7, <1>8, <1>9 DEF CreditInv

LEMMA TopUpInv ==
    ASSUME CreditInv, TopUp
    PROVE  CreditInv'
<1> USE DEF creditLocks, creditHistory, creditRuns, creditTx
<1>1. /\ walletLock = NoTx /\ topUps < MaxTopUps /\ topUps' = topUps + 1
      /\ wallet' = wallet + Amount /\ books' = books + Amount
      /\ UNCHANGED <<sub, charged, saved, cycle, creditLocks, creditHistory, creditRuns, creditTx>>
  BY DEF TopUp
<1>2. /\ wallet' \in Int /\ books' \in Int /\ topUps' \in 0..MaxTopUps
      /\ WalletMatchesLedger' /\ NoOverdraft'
  BY <1>1, Constants DEF CreditInv, CreditTypeOK, WalletMatchesLedger, NoOverdraft
<1>3. CreditTypeOK'
  BY <1>1, <1>2 DEF CreditInv, CreditTypeOK
<1>4. WalletHeld' /\ Amounts' /\ Charging' /\ QuotaHeld'
  BY <1>1, Constants DEF CreditInv, WalletHeld, Amounts, Charging, QuotaHeld
<1>5. RefillCounts'
  BY <1>1 DEF CreditInv, RefillCounts, Due, Owed
<1>6. JobChargedOnce' /\ QuotaConserved' /\ DueRefilledOnce'
  BY <1>1 DEF CreditInv, JobChargedOnce, QuotaConserved, DueRefilledOnce
<1> QED BY <1>2, <1>3, <1>4, <1>5, <1>6 DEF CreditInv

\* An adjustment's step leaves the transactions of runs and requests alone.
LEMMA AdjustedTx ==
    ASSUME CreditInv, NEW a \in Admins, NEW st \in Steps, step' = [step EXCEPT ![a] = st],
           UNCHANGED <<sub, charged, saved, cycle, topUps, creditLocks, spent, refills, rewrites,
                       creditRuns, run, view, need, fromPlan, fromWallet, grant>>
    PROVE  /\ step' \in [CreditTxs -> Steps]
           /\ \A p \in Runners \cup Submitters : step'[p] = step[p]
           /\ Amounts' /\ Charging' /\ QuotaHeld' /\ RefillCounts'
           /\ JobChargedOnce' /\ QuotaConserved' /\ DueRefilledOnce'
<1> USE DEF creditLocks, creditRuns
<1>1. /\ step' \in [CreditTxs -> Steps]
      /\ \A p \in Runners \cup Submitters : step'[p] = step[p]
  BY Constants DEF CreditInv, CreditTypeOK, CreditTxs
<1>2. Amounts' /\ Charging' /\ QuotaHeld'
  BY <1>1 DEF CreditInv, Amounts, Charging, QuotaHeld
<1>3. RefillCounts'
  BY DEF CreditInv, RefillCounts, Due, Owed
<1>4. JobChargedOnce' /\ QuotaConserved' /\ DueRefilledOnce'
  BY DEF CreditInv, JobChargedOnce, QuotaConserved, DueRefilledOnce
<1> QED BY <1>1, <1>2, <1>3, <1>4

LEMMA AdjustInv ==
    ASSUME CreditInv, NEW a \in Admins,
           AdjustRead(a) \/ AdjustRefused(a) \/ \E d \in {Amount, -Amount} : AdjustWrite(a, d)
    PROVE  CreditInv'
<1> USE DEF creditRows, creditLocks, creditHistory, creditRuns
<1>1. CASE AdjustRead(a)
  <2>1. /\ row' = [row EXCEPT ![a] = wallet] /\ step' = [step EXCEPT ![a] = "write"]
        /\ "write" \in Steps
        /\ UNCHANGED <<creditRows, cycle, topUps, creditLocks, creditHistory, creditRuns,
                       run, view, need, fromPlan, fromWallet, grant>>
    BY <1>1 DEF AdjustRead, Steps
  <2>2. /\ row' \in [Runners \cup Admins -> Int]
        /\ \A r \in Runners : row'[r] = row[r]
    BY <2>1, Constants DEF CreditInv, CreditTypeOK
  <2>3. CreditTypeOK'
    BY <2>1, <2>2, AdjustedTx DEF CreditInv, CreditTypeOK
  <2>4. WalletHeld' /\ WalletMatchesLedger' /\ NoOverdraft'
    BY <2>1, <2>2, AdjustedTx DEF CreditInv, WalletHeld, WalletMatchesLedger, NoOverdraft
  <2> QED BY <2>1, <2>3, <2>4, AdjustedTx DEF CreditInv
<1>2. CASE AdjustRefused(a)
  <2>1. /\ step' = [step EXCEPT ![a] = "done"] /\ "done" \in Steps
        /\ UNCHANGED <<creditRows, cycle, topUps, creditLocks, creditHistory, creditRuns,
                       run, view, row, need, fromPlan, fromWallet, grant>>
    BY <1>2 DEF AdjustRefused, Steps
  <2>2. CreditTypeOK'
    BY <2>1, AdjustedTx DEF CreditInv, CreditTypeOK
  <2>3. WalletHeld' /\ WalletMatchesLedger' /\ NoOverdraft'
    BY <2>1, AdjustedTx DEF CreditInv, WalletHeld, WalletMatchesLedger, NoOverdraft
  <2> QED BY <2>1, <2>2, <2>3, AdjustedTx DEF CreditInv
<1>3. ASSUME NEW d \in {Amount, -Amount}, AdjustWrite(a, d) PROVE CreditInv'
  <2>1. /\ walletLock = NoTx /\ row[a] + d >= 0
        /\ wallet' = row[a] + d /\ books' = books + d
        /\ lost' = lost + (wallet - row[a])
        /\ step' = [step EXCEPT ![a] = "done"] /\ "done" \in Steps
        /\ UNCHANGED <<sub, charged, saved, cycle, topUps, creditLocks, spent, refills, rewrites,
                       creditRuns, run, view, row, need, fromPlan, fromWallet, grant>>
    BY <1>3 DEF AdjustWrite, Steps
  <2>2. /\ wallet' \in Int /\ books' \in Int /\ lost' \in Int
        /\ WalletMatchesLedger' /\ NoOverdraft'
    <3>1. d \in Int
      BY Constants
    <3>2. /\ wallet \in Int /\ books \in Int /\ lost \in Int /\ row[a] \in Int
          /\ wallet + lost = books
      BY DEF CreditInv, CreditTypeOK, WalletMatchesLedger
    <3> QED BY <2>1, <3>1, <3>2 DEF WalletMatchesLedger, NoOverdraft
  <2>3. CreditTypeOK'
    BY <2>1, <2>2, AdjustedTx DEF CreditInv, CreditTypeOK
  <2>4. WalletHeld'
    BY <2>1, Constants DEF WalletHeld
  <2> QED BY <2>1, <2>2, <2>3, <2>4, AdjustedTx DEF CreditInv
<1> QED BY <1>1, <1>2, <1>3

\* A new cycle is owed: nothing was granted in it.
LEMMA NextCycleInv ==
    ASSUME CreditInv, NextCycle
    PROVE  CreditInv'
<1> USE DEF creditRows, creditLocks, creditHistory, creditRuns, creditTx
<1>1. /\ cycle < MaxCycle /\ cycle' = cycle + 1
      /\ UNCHANGED <<creditRows, topUps, creditLocks, creditHistory, creditRuns, creditTx>>
  BY DEF NextCycle
<1>2. cycle \in 0..MaxCycle /\ cycle' \in 0..MaxCycle /\ cycle' > cycle
  BY <1>1, Constants DEF CreditInv, CreditTypeOK
<1>3. CreditTypeOK'
  BY <1>1, <1>2 DEF CreditInv, CreditTypeOK
<1>4. WalletHeld' /\ Amounts' /\ Charging' /\ QuotaHeld'
  BY <1>1 DEF CreditInv, WalletHeld, Amounts, Charging, QuotaHeld
<1>5. RefillCounts'
  <2>1. refills[cycle'] = 0 /\ rewrites[cycle'] \in Nat
    BY <1>2 DEF CreditInv, RefillCounts, CreditTypeOK
  <2>2. Owed(cycle)'
    BY <1>1, <2>1 DEF Owed
  <2>3. \A c \in 0..MaxCycle : c > cycle' => refills'[c] = 0
    BY <1>1, <1>2 DEF CreditInv, RefillCounts
  <2>4. ASSUME NEW r \in Runners, grant'[r] = "refill"
        PROVE  view'[r].key \in 0..cycle' /\ Owed(view[r].key)'
    <3>1. view[r].key \in 0..cycle /\ Owed(view[r].key)
      BY <1>1, <2>4 DEF CreditInv, RefillCounts
    <3> QED BY <1>1, <1>2, <3>1 DEF Owed
  <2> QED BY <2>2, <2>3, <2>4 DEF RefillCounts
<1>6. /\ WalletMatchesLedger' /\ NoOverdraft' /\ JobChargedOnce' /\ QuotaConserved'
      /\ DueRefilledOnce'
  BY <1>1 DEF CreditInv, WalletMatchesLedger, NoOverdraft, JobChargedOnce, QuotaConserved,
       DueRefilledOnce
<1> QED BY <1>3, <1>4, <1>5, <1>6 DEF CreditInv

-----------------------------------------------------------------------------
(* The specification *)

LEMMA CreditStutterInv == ASSUME CreditInv, UNCHANGED creditVars PROVE CreditInv'
<1>1. UNCHANGED <<creditRows, cycle, topUps, creditLocks, creditHistory, creditRuns, creditTx>>
  BY DEF creditVars
<1> USE <1>1 DEF creditRows, creditLocks, creditHistory, creditRuns, creditTx
<1>2. CreditTypeOK'
  BY DEF CreditInv, CreditTypeOK
<1>3. WalletHeld' /\ Amounts' /\ Charging' /\ QuotaHeld'
  BY DEF CreditInv, WalletHeld, Amounts, Charging, QuotaHeld
<1>4. RefillCounts'
  BY DEF CreditInv, RefillCounts, Due, Owed
<1>5. /\ WalletMatchesLedger' /\ NoOverdraft' /\ JobChargedOnce' /\ QuotaConserved'
      /\ DueRefilledOnce'
  BY DEF CreditInv, WalletMatchesLedger, NoOverdraft, JobChargedOnce, QuotaConserved, DueRefilledOnce
<1> QED BY <1>2, <1>3, <1>4, <1>5 DEF CreditInv

LEMMA CreditNextInv == CreditInv /\ [CreditNext]_creditVars => CreditInv'
<1> SUFFICES ASSUME CreditInv, [CreditNext]_creditVars PROVE CreditInv'
  OBVIOUS
<1>1. ASSUME NEW r \in Runners, NEW x \in CreditRuns, Begin(r, x) \/ RefuseEstimate(r, x)
      PROVE  CreditInv'
  BY <1>1, BeginInv, RefuseEstimateInv
<1>2. ASSUME NEW r \in Runners, RunStep(r) \/ Fail(r) PROVE CreditInv'
  BY <1>2, RunStepInv
<1>3. ASSUME NEW q \in Submitters, SubmitRead(q) \/ SubmitCommit(q) PROVE CreditInv'
  BY <1>3, SubmitReadInv, SubmitCommitInv
<1>4. ASSUME NEW a \in Admins,
             AdjustRead(a) \/ AdjustRefused(a) \/ \E d \in {Amount, -Amount} : AdjustWrite(a, d)
      PROVE  CreditInv'
  BY <1>4, AdjustInv
<1>5. CASE ReadSubscription \/ Renew \/ TopUp \/ NextCycle
  BY <1>5, ReadSubscriptionInv, RenewInv, TopUpInv, NextCycleInv
<1>6. CASE UNCHANGED creditVars
  BY <1>6, CreditStutterInv
<1> QED BY <1>1, <1>2, <1>3, <1>4, <1>5, <1>6 DEF CreditNext

LEMMA CreditInvariant == CreditSpec => []CreditInv
BY CreditInitInv, CreditNextInv, PTL DEF CreditSpec

\* Every row and every transaction in progress keeps its form, whatever the
\* number of workers, requests, runs and cycles.
THEOREM CreditTypeCorrect == CreditSpec => []CreditTypeOK
<1>1. CreditInv => CreditTypeOK
  BY DEF CreditInv
<1> QED BY <1>1, CreditInvariant, PTL

\* The wallet row and its ledger differ by what adjustments overwrote and by
\* nothing else.
THEOREM CreditWalletMatches == CreditSpec => []WalletMatchesLedger
<1>1. CreditInv => WalletMatchesLedger
  BY DEF CreditInv
<1> QED BY <1>1, CreditInvariant, PTL

\* No interleaving of runs, top-ups and adjustments overdraws the wallet.
THEOREM CreditNoOverdraft == CreditSpec => []NoOverdraft
<1>1. CreditInv => NoOverdraft
  BY DEF CreditInv
<1> QED BY <1>1, CreditInvariant, PTL

\* A standard job with a result is charged its cost, and any other nothing.
THEOREM CreditJobChargedOnce == CreditSpec => []JobChargedOnce
<1>1. CreditInv => JobChargedOnce
  BY DEF CreditInv
<1> QED BY <1>1, CreditInvariant, PTL

\* The included credits that are left and those taken make up the quota.
THEOREM CreditQuotaConserved == CreditSpec => []QuotaConserved
<1>1. CreditInv => QuotaConserved
  BY DEF CreditInv
<1> QED BY <1>1, CreditInvariant, PTL

\* A due cycle is granted once, and again only over a row written later.
THEOREM CreditDueRefilledOnce == CreditSpec => []DueRefilledOnce
<1>1. CreditInv => DueRefilledOnce
  BY DEF CreditInv
<1> QED BY <1>1, CreditInvariant, PTL

-----------------------------------------------------------------------------
(* What a charge takes.  A run that owes something has both rows when it   *)
(* can commit, and a worker that may commit owes the cost of its run.      *)

Owing ==
    \A r \in Runners :
        /\ step[r] = "wallet" => subLock = r
        /\ step[r] = "compute" /\ need[r] # 0 => subLock = r /\ walletLock = r
        /\ run[r] \in Funded /\ step[r] \in {"plan", "wallet", "compute"} => need[r] = Cost

\* A step as ChargeTakesCost wants it.
ChargeStep ==
    /\ \A x \in CreditRuns : Charges(x) =>
          /\ charged' = [charged EXCEPT ![x] = @ + Cost]
          /\ Credits' = (IF Grants THEN wallet + Quota ELSE Credits) - Cost
    /\ Credits' < Credits => Adjusts \/ \E x \in CreditRuns : Charges(x)

\* A step that charges nobody and leaves the user no less.
LEMMA NothingTaken ==
    ASSUME charged' = charged, ~(Credits' < Credits)
    PROVE  ChargeStep
BY DEF ChargeStep, Charges

\* The rows keep what they hold, or the plan's is filled up.
LEMMA NoLess ==
    ASSUME CreditInv, charged' = charged, wallet' = wallet,
           sub' = sub \/ sub'.left = Quota
    PROVE  ChargeStep
<1>1. /\ wallet \in Int /\ sub.left \in Nat /\ spent \in Nat /\ sub.left + spent = Quota
      /\ Quota \in Nat
  BY Constants DEF CreditInv, CreditTypeOK, SubRows, QuotaConserved
<1>2. ~(Credits' < Credits)
  BY <1>1 DEF Credits
<1> QED BY <1>2, NothingTaken

\* A transaction that ends gives up its own locks only, and owes nothing more.
LEMMA ReleasedOwing ==
    ASSUME CreditInv, Owing, NEW r \in Runners, Release(r)
    PROVE  Owing'
<1> SUFFICES ASSUME NEW v \in Runners
             PROVE  /\ step'[v] = "wallet" => subLock' = v
                    /\ step'[v] = "compute" /\ need'[v] # 0 => subLock' = v /\ walletLock' = v
                    /\ run'[v] \in Funded /\ step'[v] \in {"plan", "wallet", "compute"} =>
                          need'[v] = Cost
  BY DEF Owing
<1>1. CASE v = r
  BY <1>1, Released
<1>2. CASE v # r
  BY <1>2, Released DEF Owing
<1> QED BY <1>1, <1>2

\* A worker that does not end its transaction touches nobody else's.
LEMMA StepOwing ==
    ASSUME CreditInv, Owing, NEW r \in Runners,
           Begin(r, run'[r]) \/ Flush(r) \/ Summarise(r) \/ DebitPlan(r) \/ DebitWallet(r)
    PROVE  Owing'
<1>1. ASSUME NEW v \in Runners, v # r
      PROVE  /\ step'[v] = step[v] /\ run'[v] = run[v] /\ need'[v] = need[v]
             /\ subLock = v => subLock' = v
             /\ walletLock = v => walletLock' = v
  BY <1>1, Constants DEF Begin, Flush, Summarise, DebitPlan, DebitWallet, creditLocks,
       CreditInv, CreditTypeOK, CreditTxs
<1>2. /\ step'[r] = "wallet" => subLock' = r
      /\ step'[r] = "compute" /\ need'[r] # 0 => subLock' = r /\ walletLock' = r
      /\ run'[r] \in Funded /\ step'[r] \in {"plan", "wallet", "compute"} => need'[r] = Cost
  <2>1. step \in [CreditTxs -> Steps] /\ r \in CreditTxs /\ need \in [Runners -> Nat]
    BY DEF CreditInv, CreditTypeOK, CreditTxs
  <2>2. CASE Begin(r, run'[r])
    BY <2>1, <2>2 DEF Begin
  <2>3. CASE Flush(r)
    BY <2>1, <2>3 DEF Flush
  <2>4. CASE Summarise(r)
    <3>1. /\ need'[r] = Outstanding(run[r]) /\ run'[r] = run[r]
          /\ step'[r] = IF Outstanding(run[r]) = 0 THEN "compute" ELSE "plan"
      BY <2>1, <2>4 DEF Summarise
    <3>2. run[r] \in Funded => Outstanding(run[r]) = Cost
      BY DEF Outstanding
    <3> QED BY <3>1, <3>2
  <2>5. CASE DebitPlan(r)
    <3>1. /\ step[r] = "plan" /\ step'[r] = "wallet" /\ subLock' = r
          /\ run' = run /\ need' = need
      BY <2>1, <2>5 DEF DebitPlan
    <3> QED BY <3>1 DEF Owing
  <2>6. CASE DebitWallet(r)
    <3>1. /\ step[r] = "wallet" /\ step'[r] = "compute" /\ subLock' = subLock
          /\ walletLock' = r /\ run' = run /\ need' = need
      BY <2>1, <2>6 DEF DebitWallet
    <3> QED BY <3>1 DEF Owing
  <2> QED BY <2>2, <2>3, <2>4, <2>5, <2>6
<1>3. ASSUME NEW v \in Runners
      PROVE  /\ step'[v] = "wallet" => subLock' = v
             /\ step'[v] = "compute" /\ need'[v] # 0 => subLock' = v /\ walletLock' = v
             /\ run'[v] \in Funded /\ step'[v] \in {"plan", "wallet", "compute"} =>
                   need'[v] = Cost
  BY <1>1, <1>2 DEF Owing
<1> QED BY <1>3 DEF Owing

\* A request moves no worker's transaction, and no lock.
LEMMA RequestOwing ==
    ASSUME Owing, UNCHANGED <<creditLocks, run, need>>,
           \A r \in Runners : step'[r] = step[r]
    PROVE  Owing'
BY DEF Owing, creditLocks

\* Who may commit owes the cost, has both rows, and takes it from them.
LEMMA CommitCharges ==
    ASSUME CreditInv, Owing, NEW r \in Runners, Commit(r)
    PROVE  ChargeStep
<1> DEFINE x == run[r]
<1>1. /\ step[r] = "compute" /\ MayCommit(r)
      /\ charged' = [charged EXCEPT ![x] = charged[x] + fromPlan[r] + fromWallet[r]]
  BY DEF Commit
<1>2. x \in CreditRuns /\ charged \in [CreditRuns -> Nat]
  BY <1>1 DEF CreditInv, CreditTypeOK, Charging
<1>3. need[r] = Cost
  BY <1>1, <1>2 DEF MayCommit, CreditInv, Charging, Owing, CreditRuns
<1>4. subLock = r /\ walletLock = r
  BY <1>1, <1>3, Constants DEF Owing
<1>5. fromPlan[r] \in Nat /\ fromWallet[r] \in Nat /\ fromPlan[r] + fromWallet[r] = Cost
  BY <1>1, <1>3 DEF CreditInv, CreditTypeOK, Amounts
<1>6. row[r] = wallet /\ wallet \in Int
  BY <1>4 DEF CreditInv, CreditTypeOK, WalletHeld
<1>7. wallet' = wallet - fromWallet[r] /\ sub' = view[r] /\ Granted(grant[r], view[r].key)
  BY <1>4, <1>6 DEF Commit
<1>8. /\ view[r].left \in Nat /\ sub.left \in Nat /\ spent \in Nat
      /\ view[r].left + fromPlan[r] + (IF grant[r] = "none" THEN spent ELSE 0) = Quota
      /\ sub.left + spent = Quota /\ Quota \in Nat /\ Cost \in Nat /\ Cost > 0
  BY <1>4, Constants DEF CreditInv, CreditTypeOK, QuotaHeld, QuotaConserved, SubRows
<1>9. grant[r] = "none" <=> ~Grants
  <2>1. /\ refills \in [0..MaxCycle -> Nat] /\ rewrites \in [0..MaxCycle -> Nat]
        /\ cycle \in 0..MaxCycle /\ grant[r] \in {"none", "refill", "rewrite"}
    BY DEF CreditInv, CreditTypeOK
  <2>2. CASE grant[r] = "none"
    BY <1>7, <2>2 DEF Granted, Grants
  <2>3. CASE grant[r] = "refill"
    <3>1. view[r].key \in 0..MaxCycle
      BY <2>1, <2>3, Constants DEF CreditInv, RefillCounts
    <3>2. refills'[view[r].key] = refills[view[r].key] + 1 /\ refills[view[r].key] \in Nat
      BY <1>7, <2>1, <2>3, <3>1 DEF Granted
    <3>3. refills' # refills
      BY <3>2
    <3> QED BY <2>3, <3>3 DEF Grants
  <2>4. CASE grant[r] = "rewrite"
    <3>1. rewrites'[cycle] = rewrites[cycle] + 1 /\ rewrites[cycle] \in Nat
      BY <1>7, <2>1, <2>4 DEF Granted
    <3>2. rewrites' # rewrites
      BY <3>1
    <3> QED BY <2>4, <3>2 DEF Grants
  <2> QED BY <2>1, <2>2, <2>3, <2>4
<1>10. \A y \in CreditRuns : charged'[y] = IF y = x THEN charged[x] + Cost ELSE charged[y]
  BY <1>1, <1>2, <1>5
<1>11. charged' = [charged EXCEPT ![x] = charged[x] + Cost]
  <2>1. charged[x] + fromPlan[r] + fromWallet[r] = charged[x] + Cost
    BY <1>2, <1>5
  <2> QED BY <1>1, <2>1
<1>12. Credits' = (IF Grants THEN wallet + Quota ELSE Credits) - Cost
  <2>1. CASE Grants
    <3>1. view[r].left + fromPlan[r] = Quota
      BY <1>5, <1>8, <1>9, <2>1
    <3>2. wallet - fromWallet[r] + view[r].left = wallet + Quota - Cost
      BY <1>5, <1>6, <1>8, <3>1
    <3>3. Credits' = wallet + Quota - Cost
      BY <1>7, <3>2 DEF Credits
    <3> QED BY <1>6, <1>8, <2>1, <3>3 DEF Credits, Grants
  <2>2. CASE ~Grants
    <3>1. view[r].left + fromPlan[r] = sub.left
      BY <1>5, <1>8, <1>9, <2>2
    <3>2. wallet - fromWallet[r] + view[r].left = wallet + sub.left - Cost
      BY <1>5, <1>6, <1>8, <3>1
    <3>3. Credits' = wallet + sub.left - Cost
      BY <1>7, <3>2 DEF Credits
    <3> QED BY <1>6, <1>8, <2>2, <3>3 DEF Credits, Grants
  <2> QED BY <2>1, <2>2
<1>13. Charges(x)
  BY <1>2, <1>8, <1>10 DEF Charges
<1>14. \A y \in CreditRuns : Charges(y) => y = x
  BY <1>10 DEF Charges
<1> HIDE DEF x
<1> QED BY <1>2, <1>11, <1>12, <1>13, <1>14 DEF ChargeStep

LEMMA RunStepCharges ==
    ASSUME CreditInv, Owing, NEW r \in Runners, RunStep(r) \/ Fail(r)
    PROVE  Owing' /\ ChargeStep
<1>1. ASSUME Abandon(r) PROVE Owing' /\ ChargeStep
  BY <1>1, ReleasedOwing, NoLess DEF Abandon, creditRows
<1>2. CASE Flush(r)
  <2>1. view[r].left = Quota
    BY <1>2 DEF Flush, CreditInv, QuotaHeld
  <2>2. charged' = charged /\ wallet' = wallet /\ (sub' = sub \/ sub' = view[r])
    BY <1>2 DEF Flush
  <2> QED BY <1>2, <2>1, <2>2, StepOwing, NoLess
<1>3. CASE Summarise(r) \/ DebitPlan(r) \/ DebitWallet(r)
  <2>1. charged' = charged /\ wallet' = wallet /\ sub' = sub
    BY <1>3 DEF Summarise, DebitPlan, DebitWallet, creditRows
  <2> QED BY <1>3, <2>1, StepOwing, NoLess
<1>4. CASE Commit(r)
  BY <1>4, CommitCharges, ReleasedOwing DEF Commit
<1> QED BY <1>1, <1>2, <1>3, <1>4 DEF RunStep, Fail, Fenced, RefusePlan, RefuseWallet

LEMMA RequestCharges ==
    ASSUME CreditInv, Owing,
           \/ \E q \in Submitters : SubmitRead(q) \/ SubmitCommit(q)
           \/ \E a \in Admins : \/ AdjustRead(a) \/ AdjustRefused(a)
                                \/ \E d \in {Amount, -Amount} : AdjustWrite(a, d)
    PROVE  Owing' /\ ChargeStep
<1> USE DEF creditRows
<1>1. ASSUME NEW p \in Submitters \cup Admins, NEW t, step' = [step EXCEPT ![p] = t],
             UNCHANGED <<creditLocks, run, need>>
      PROVE  Owing'
  <2>1. \A r \in Runners : step'[r] = step[r]
    BY <1>1, Constants DEF CreditInv, CreditTypeOK, CreditTxs
  <2> QED BY <1>1, <2>1, RequestOwing
<1>2. ASSUME NEW q \in Submitters, SubmitRead(q) PROVE Owing' /\ ChargeStep
  BY <1>1, <1>2, NoLess DEF SubmitRead
<1>3. ASSUME NEW q \in Submitters, SubmitCommit(q) PROVE Owing' /\ ChargeStep
  <2>1. view[q].left = Quota
    BY <1>3 DEF SubmitCommit, CreditInv, QuotaHeld
  <2> QED BY <1>1, <1>3, <2>1, NoLess DEF SubmitCommit
<1>4. ASSUME NEW a \in Admins, AdjustRead(a) \/ AdjustRefused(a) PROVE Owing' /\ ChargeStep
  BY <1>1, <1>4, NoLess DEF AdjustRead, AdjustRefused
<1>5. ASSUME NEW a \in Admins, NEW d \in {Amount, -Amount}, AdjustWrite(a, d)
      PROVE  Owing' /\ ChargeStep
  <2>1. step[a] = "write" /\ step'[a] = "done" /\ charged' = charged
    BY <1>5 DEF AdjustWrite, CreditInv, CreditTypeOK, CreditTxs
  <2>2. ChargeStep
    BY <2>1 DEF ChargeStep, Charges, Adjusts
  <2> QED BY <1>1, <1>5, <2>2 DEF AdjustWrite
<1> QED BY <1>2, <1>3, <1>4, <1>5

LEMMA CreditNextCharges ==
    ASSUME CreditInv, Owing, [CreditNext]_creditVars
    PROVE  Owing' /\ ChargeStep
<1> USE DEF creditRows
<1>1. ASSUME NEW r \in Runners, NEW x \in CreditRuns, Begin(r, x) PROVE Owing' /\ ChargeStep
  <2>1. run'[r] = x
    BY <1>1 DEF Begin, CreditInv, CreditTypeOK
  <2> QED BY <1>1, <2>1, StepOwing, NoLess DEF Begin
<1>2. ASSUME NEW r \in Runners, NEW x \in CreditRuns, RefuseEstimate(r, x)
      PROVE  Owing' /\ ChargeStep
  BY <1>2, RequestOwing, NoLess DEF RefuseEstimate, creditTx
<1>3. ASSUME NEW r \in Runners, RunStep(r) \/ Fail(r) PROVE Owing' /\ ChargeStep
  BY <1>3, RunStepCharges
<1>4. CASE ReadSubscription
  <2>1. sub'.left = Quota
    BY <1>4, RefilledRow DEF ReadSubscription, CreditInv, CreditTypeOK
  <2> QED BY <1>4, <2>1, RequestOwing, NoLess DEF ReadSubscription, creditTx
<1>5. CASE Renew
  <2>1. sub'.left = Quota
    BY <1>5 DEF Renew
  <2> QED BY <1>5, <2>1, RequestOwing, NoLess DEF Renew, creditTx
<1>6. CASE TopUp
  <2>1. ~(Credits' < Credits)
    BY <1>6, Constants DEF TopUp, Credits, CreditInv, CreditTypeOK, SubRows
  <2> QED BY <1>6, <2>1, RequestOwing, NothingTaken DEF TopUp, creditTx
<1>7. CASE NextCycle \/ UNCHANGED creditVars
  BY <1>7, RequestOwing, NoLess DEF NextCycle, creditVars, creditTx
<1> QED BY <1>1, <1>2, <1>3, <1>4, <1>5, <1>6, <1>7, RequestCharges DEF CreditNext

LEMMA OwingInvariant == CreditSpec => []Owing
<1>1. CreditInit => Owing
  BY DEF CreditInit, Owing, CreditTxs
<1> QED BY <1>1, CreditInvariant, CreditNextCharges, PTL DEF CreditSpec

\* Whatever is in progress beside it, a charge takes one run's cost from the
\* wallet and the plan together, and nothing but a charge and the
\* administrator takes credits.
THEOREM CreditChargeTakesCost == CreditSpec => ChargeTakesCost
<1>1. CreditInv /\ Owing /\ [CreditNext]_creditVars => [ChargeStep]_creditVars
  BY CreditNextCharges
<1>2. CreditSpec => [][ChargeStep]_creditVars
  BY <1>1, CreditInvariant, OwingInvariant, PTL DEF CreditSpec
<1> QED BY <1>2 DEF ChargeStep, ChargeTakesCost

-----------------------------------------------------------------------------
(* BillingPayments, for any number of orders, payments and concurrent      *)
(* requests and any configuration of the webhooks.                         *)
(*                                                                         *)
(* Most actions end a request.  Ends gives what they have in common, and   *)
(* Outcome says that such a step writes nothing, pays the order or fails   *)
(* it.  The safety argument is then about these three effects, not about   *)
(* fourteen actions: a request that decides under the row lock decides on  *)
(* the status the row has (Locked), so PAID is never overwritten under the *)
(* lock, and the one write that ignores the lock touches top-ups only,     *)
(* where the ledger is asked again before a grant (Granting).              *)

\* A decision under the lock is taken on the row as it is.
Locked ==
    \A p \in Requests : pc[p] = "locked" =>
        lock[Order(p)] = p /\ seen[p] = status[Order(p)]

\* Only a webhook waits for the row unasked, and only the failure call of a
\* top-up writes without the lock.
Unlocked ==
    \A p \in Requests :
        /\ pc[p] = "wait" => req[p].to \in Hooks
        /\ pc[p] = "failing" => Order(p) \in TopUps

\* PAID and the grant are one commit; only a top-up may lose its PAID again.
Granting ==
    \A o \in Orders :
        /\ grants[o] <= 1
        /\ status[o] = "PAID" => grants[o] = 1
        /\ o \in Subscriptions /\ grants[o] > 0 => status[o] = "PAID"

\* Razorpay reports a capture only after it, and it stays captured.
Heard ==
    /\ \A d \in due : d.event = "payment.captured" => rz[d.pay] = "captured"
    /\ \A p \in Requests : pc[p] # "idle" /\ req[p].event = "payment.captured"
           => rz[req[p].pay] = "captured"

BillingInv == TypeOK /\ Locked /\ Unlocked /\ Granting /\ Heard /\ GrantWasPaid /\ LoggedIsGranted

-----------------------------------------------------------------------------
(* What the actions have in common *)

Ends(p) ==
    /\ pc[p] # "idle"
    /\ Close(p)
    /\ due' \subseteq due

\* The log tells of captures by the top-up webhook only when they were granted.
Logs(p) ==
    \/ UNCHANGED logged
    \/ /\ Log(p) /\ req[p].to \in Hooks
       /\ req[p].to = "topupWebhook" /\ req[p].event = "payment.captured" /\ Order(p) \in TopUps
              => grants'[Order(p)] > 0

WritesNothing == UNCHANGED <<status, grants>>

Pays(p) ==
    /\ pc[p] = "locked" /\ ~Paid(p)
    /\ \/ rz[req[p].pay] = "captured"
       \/ rz[req[p].pay] = "authorized" /\ Order(p) \in TopUps
    /\ SetStatus(p, "PAID")
    /\ IF AlreadyGranted(Order(p)) THEN UNCHANGED grants ELSE Grant(p)

Fails(p) ==
    /\ \/ pc[p] = "locked" /\ ~Paid(p)
       \/ pc[p] = "failing" /\ lock[Order(p)] = None
    /\ SetStatus(p, "FAILED")
    /\ UNCHANGED grants

\* A busy request asks about some payment of some order.
LEMMA RequestType ==
    ASSUME TypeOK, NEW p \in Requests, pc[p] # "idle"
    PROVE  /\ req[p] \in Deliveries \cup Calls
           /\ req[p].pay \in Attempts
           /\ Order(p) \in Orders
<1>1. req[p] \in Deliveries \cup Calls
  BY BillingAssumption DEF TypeOK
<1>2. req[p].pay \in Attempts
  BY <1>1 DEF Deliveries, Calls
<1> QED BY <1>1, <1>2, BillingAssumption DEF Order

\* The actions that end a request.
Ending(p) ==
    \/ WebhookDuplicate(p) \/ WebhookUnsupported(p) \/ WebhookNotFound(p)
    \/ WebhookPaid(p) \/ WebhookCaptured(p) \/ WebhookMismatch(p)
    \/ WebhookRaises(p) \/ WebhookFailed(p)
    \/ VerifyPaid(p) \/ VerifyRefused(p) \/ VerifyPays(p)
    \/ FailureWrites(p) \/ FailureLocked(p)
    \/ Lost(p)

\* A request that ends writes nothing, pays its order or fails it.
LEMMA Outcome ==
    ASSUME BillingInv, NEW p \in Requests, Ending(p)
    PROVE  /\ Ends(p)
           /\ Logs(p)
           /\ WritesNothing \/ Pays(p) \/ Fails(p)
<1> USE DEF Ends, Answer, Respond
<1>1. CASE WebhookDuplicate(p)
  BY <1>1 DEF WebhookDuplicate, rowVars, Logs, WritesNothing
<1>2. CASE WebhookUnsupported(p)
  BY <1>2 DEF WebhookUnsupported, Supported, Logs, WritesNothing
<1>3. CASE WebhookNotFound(p)
  BY <1>3 DEF WebhookNotFound, Own, Logs, WritesNothing, BillingInv, Unlocked
<1>4. CASE WebhookPaid(p)
  <2>1. pc[p] = "locked" /\ Paid(p)
    BY <1>4 DEF WebhookPaid, Hearing
  <2>2. Order(p) \in Orders
    BY <2>1, RequestType DEF BillingInv
  <2>3. grants[Order(p)] > 0
    BY <2>1, <2>2 DEF BillingInv, Locked, Granting, Paid
  <2> QED BY <1>4, <2>3 DEF WebhookPaid, Hearing, Logs, WritesNothing
<1>5. CASE WebhookCaptured(p)
  <2>1. pc[p] = "locked" /\ req[p].event = "payment.captured"
    BY <1>5 DEF WebhookCaptured, Hearing
  <2>2. Order(p) \in Orders
    BY <2>1, RequestType DEF BillingInv
  <2>3. Pays(p)
    BY <1>5, <2>1 DEF WebhookCaptured, Pays, BillingInv, Heard
  <2>4. grants[Order(p)] \in Nat
    BY <2>2 DEF BillingInv, TypeOK
  <2>5. grants'[Order(p)] > 0
    BY <2>2, <2>3, <2>4 DEF Pays, AlreadyGranted, Grant, BillingInv, TypeOK
  <2>6. req[p].to \in Hooks
    BY <1>5 DEF WebhookCaptured, Hearing
  <2> QED BY <1>5, <2>1, <2>3, <2>5, <2>6 DEF WebhookCaptured, Logs
<1>6. CASE WebhookMismatch(p)
  BY <1>6 DEF WebhookMismatch, Hearing, Logs, Fails
<1>7. CASE WebhookRaises(p)
  BY <1>7 DEF WebhookRaises, Hearing, rowVars, Logs, WritesNothing
<1>8. CASE WebhookFailed(p)
  BY <1>8 DEF WebhookFailed, Hearing, Logs, WritesNothing, Fails
<1>9. CASE VerifyPaid(p)
  BY <1>9 DEF VerifyPaid, Verifying, rowVars, Logs, WritesNothing
<1>10. CASE VerifyRefused(p)
  BY <1>10 DEF VerifyRefused, Verifying, Logs, Fails
<1>11. CASE VerifyPays(p)
  BY <1>11 DEF VerifyPays, Verifying, Accepted, Logs, Pays
<1>12. CASE FailureWrites(p)
  BY <1>12 DEF FailureWrites, Logs, WritesNothing, Fails
<1>13. CASE FailureLocked(p)
  BY <1>13 DEF FailureLocked, Logs, WritesNothing, Fails
<1>14. CASE Lost(p)
  BY <1>14 DEF Lost, rowVars, Logs, WritesNothing
<1> QED
  BY <1>1, <1>2, <1>3, <1>4, <1>5, <1>6, <1>7, <1>8, <1>9, <1>10, <1>11, <1>12,
     <1>13, <1>14 DEF Ending

\* Every step ends a request or is one of a few others.
LEMMA Kinds ==
    ASSUME Next
    PROVE  \/ \E a \in Attempts :
                 \/ Moves(a, "authorized", "payment.authorized") /\ rz[a] = "created"
                 \/ Moves(a, "failed", "payment.failed") /\ rz[a] = "created"
                 \/ Moves(a, "captured", "payment.captured")
           \/ \E p \in Requests :
                 \/ \E a \in Attempts : Verify(p, a) \/ Failure(p, a)
                 \/ \E d \in Deliveries : Deliver(p, d)
                 \/ Lock(p) \/ WebhookPasses(p) \/ FailureReads(p)
                 \/ Ending(p)
<1>1. CASE Razorpay
  BY <1>1 DEF Razorpay, Authorize, Decline, Capture
<1>2. CASE \E p \in Requests : Customer(p)
  BY <1>2 DEF Customer
<1>3. ASSUME NEW p \in Requests, Step(p) \/ Lost(p)
      PROVE  Lock(p) \/ WebhookPasses(p) \/ FailureReads(p) \/ Ending(p)
  BY <1>3 DEF Step, WebhookStep, CallStep, Ending
<1>4. CASE \E p \in Requests : Step(p) \/ Lost(p)
  BY <1>3, <1>4
<1>5. CASE \E p \in Requests : \E d \in Deliveries : Deliver(p, d)
  BY <1>5
<1> QED BY <1>1, <1>2, <1>4, <1>5 DEF Next, NoneLost

-----------------------------------------------------------------------------
(* Types *)

LEMMA InitType == Init => TypeOK
BY BillingAssumption DEF Init, TypeOK

LEMMA NextType == BillingInv /\ Next => TypeOK'
<1> SUFFICES ASSUME BillingInv, Next PROVE TypeOK'
  OBVIOUS
<1> TypeOK
  BY DEF BillingInv
<1>1. ASSUME NEW a \in Attempts, NEW state \in {"authorized", "failed", "captured"},
             NEW event \in Events, Moves(a, state, event)
      PROVE  TypeOK'
  BY <1>1 DEF Moves, TypeOK, rowVars, reqVars
<1>2. ASSUME NEW p \in Requests, NEW r \in Deliveries \cup Calls, Open(p, r)
      PROVE  TypeOK'
  BY <1>2, BillingAssumption DEF Open, TypeOK, rowVars
<1>3. ASSUME NEW p \in Requests, NEW a \in Attempts, Verify(p, a) \/ Failure(p, a)
      PROVE  TypeOK'
  <2> DEFINE r(to) == [to |-> to, event |-> "none", pay |-> a]
  <2>1. r("verify") \in Calls /\ r("failure") \in Calls
    BY DEF Calls
  <2> QED BY <1>2, <1>3, <2>1 DEF Verify, Failure
<1>4. ASSUME NEW p \in Requests, Lock(p) PROVE TypeOK'
  <2>1. pc[p] # "idle"
    BY <1>4 DEF Lock, LocksRow
  <2>2. Order(p) \in Orders /\ req[p] # None
    BY <2>1, RequestType DEF TypeOK
  <2> QED BY <1>4, <2>2 DEF Lock, Goto, TypeOK, rowVars
<1>5. ASSUME NEW p \in Requests, WebhookPasses(p) \/ FailureReads(p) PROVE TypeOK'
  <2>1. pc[p] # "idle"
    BY <1>5 DEF WebhookPasses, FailureReads
  <2>2. Order(p) \in Orders /\ req[p] # None
    BY <2>1, RequestType DEF TypeOK
  <2> QED BY <1>5, <2>2 DEF WebhookPasses, FailureReads, Goto, TypeOK, rowVars
<1>6. ASSUME NEW p \in Requests, Close(p), due' \subseteq due, logged' \subseteq Deliveries,
             status' \in [Orders -> {"CREATED", "PAID", "FAILED"}],
             grants' \in [Orders -> Nat]
      PROVE  TypeOK'
  BY <1>6 DEF Close, TypeOK
<1>7. ASSUME NEW p \in Requests, Ending(p) PROVE TypeOK'
  <2>1. Ends(p) /\ Logs(p) /\ (WritesNothing \/ Pays(p) \/ Fails(p))
    BY <1>7, Outcome
  <2>2. Order(p) \in Orders /\ req[p] \in Deliveries \cup Calls
    BY <2>1, RequestType DEF Ends
  <2>3. logged' \subseteq Deliveries
    <3>1. CASE UNCHANGED logged
      BY <3>1 DEF TypeOK
    <3>2. CASE Log(p) /\ req[p].to \in Hooks
      <4>1. req[p] \in Deliveries
        BY <2>2, <3>2 DEF Calls, Hooks
      <4> QED BY <3>2, <4>1 DEF Log, TypeOK
    <3> QED BY <2>1, <3>1, <3>2 DEF Logs
  <2>4. /\ status' \in [Orders -> {"CREATED", "PAID", "FAILED"}]
        /\ grants' \in [Orders -> Nat]
    BY <2>1, <2>2 DEF WritesNothing, Pays, Fails, SetStatus, Grant, TypeOK
  <2> QED BY <1>6, <2>1, <2>3, <2>4 DEF Ends
<1>8. Deliveries \subseteq Deliveries \cup Calls /\ due \subseteq Deliveries
  BY DEF TypeOK
<1> QED
  BY <1>1, <1>2, <1>3, <1>4, <1>5, <1>7, <1>8, Kinds DEF Deliver, Events

-----------------------------------------------------------------------------
(* The safety argument *)

Safe == Locked /\ Unlocked /\ Granting /\ Heard /\ GrantWasPaid /\ LoggedIsGranted

LEMMA InitSafe == Init => Safe
BY DEF Init, Safe, Locked, Unlocked, Granting, Heard, GrantWasPaid, LoggedIsGranted

\* Razorpay's side: a payment only moves towards captured.
LEMMA MovesSafe ==
    ASSUME BillingInv, NEW a \in Attempts,
           \/ Moves(a, "authorized", "payment.authorized") /\ rz[a] = "created"
           \/ Moves(a, "failed", "payment.failed") /\ rz[a] = "created"
           \/ Moves(a, "captured", "payment.captured")
    PROVE  Safe'
<1>1. UNCHANGED <<status, grants, logged, lock, req, pc, seen>>
  BY DEF Moves, rowVars, reqVars
<1>2. (Locked /\ Unlocked /\ Granting /\ LoggedIsGranted)'
  BY <1>1 DEF BillingInv, Locked, Unlocked, Granting, LoggedIsGranted, Order
<1>3. \A b \in Attempts :
        /\ rz[b] = "captured" => rz'[b] = "captured"
        /\ rz[b] = "authorized" => rz'[b] \in {"authorized", "captured"}
  BY DEF Moves, BillingInv, TypeOK
<1>4. \A d \in due' : d \in due \/ (d.event = "payment.captured" => rz'[d.pay] = "captured")
  BY DEF Moves, BillingInv, TypeOK, Deliveries
<1>5. \A d \in due : d.pay \in Attempts
  BY DEF BillingInv, TypeOK, Deliveries
<1>6. Heard'
  <2>1. \A p \in Requests : pc[p] # "idle" => req[p].pay \in Attempts
    BY RequestType DEF BillingInv
  <2> QED BY <1>1, <1>3, <1>4, <1>5, <2>1 DEF BillingInv, Heard
<1>7. GrantWasPaid'
  BY <1>1, <1>3 DEF BillingInv, GrantWasPaid, HasMoney
<1> QED BY <1>2, <1>6, <1>7 DEF Safe

\* A request that starts has decided nothing.
LEMMA OpenSafe ==
    ASSUME BillingInv, NEW p \in Requests, NEW r \in Deliveries \cup Calls, Open(p, r),
           r.event = "payment.captured" => rz[r.pay] = "captured"
    PROVE  Safe'
<1>1. /\ UNCHANGED <<status, grants, logged, lock, rz, due, seen>>
      /\ pc[p] = "idle" /\ pc'[p] = "start" /\ req'[p] = r
      /\ \A q \in Requests \ {p} : pc'[q] = pc[q] /\ req'[q] = req[q]
  BY DEF Open, rowVars, BillingInv, TypeOK
<1>2. (Locked /\ Unlocked)'
  BY <1>1 DEF BillingInv, Locked, Unlocked, Order
<1>3. (Granting /\ GrantWasPaid /\ LoggedIsGranted)'
  BY <1>1 DEF BillingInv, Granting, GrantWasPaid, HasMoney, LoggedIsGranted
<1>4. Heard'
  BY <1>1 DEF BillingInv, Heard
<1> QED BY <1>2, <1>3, <1>4 DEF Safe

\* Nor has one that moves on: it takes a free lock, or reads the status.
LEMMA MovesOnSafe ==
    ASSUME BillingInv, NEW p \in Requests, Lock(p) \/ WebhookPasses(p) \/ FailureReads(p)
    PROVE  Safe'
<1>1. /\ UNCHANGED <<status, grants, logged, rz, due, req>>
      /\ pc[p] \in {"start", "wait"}
      /\ \A q \in Requests \ {p} : pc'[q] = pc[q] /\ seen'[q] = seen[q]
  BY DEF Lock, LocksRow, WebhookPasses, FailureReads, Goto, rowVars, BillingInv, TypeOK
<1>2. (Granting /\ GrantWasPaid /\ LoggedIsGranted /\ Heard)'
  BY <1>1 DEF BillingInv, Granting, GrantWasPaid, HasMoney, LoggedIsGranted, Heard
<1>3. (Locked /\ Unlocked)'
  <2>1. Order(p) \in Orders
    BY <1>1, RequestType DEF BillingInv
  <2>2. CASE Lock(p)
    <3>1. /\ pc'[p] = "locked" /\ seen'[p] = status[Order(p)]
          /\ lock[Order(p)] = None /\ lock' = [lock EXCEPT ![Order(p)] = p]
      BY <2>2 DEF Lock, Goto, BillingInv, TypeOK
    <3>2. lock'[Order(p)] = p
      BY <2>1, <3>1 DEF BillingInv, TypeOK
    <3>3. \A q \in Requests \ {p} : pc[q] = "locked" => Order(q) # Order(p)
      BY <3>1, BillingAssumption DEF BillingInv, Locked
    <3>4. \A q \in Requests \ {p} : pc[q] = "locked" => lock'[Order(q)] = lock[Order(q)]
      <4> SUFFICES ASSUME NEW q \in Requests \ {p}, pc[q] = "locked"
                   PROVE  lock'[Order(q)] = lock[Order(q)]
        OBVIOUS
      <4>1. Order(q) \in Orders
        BY RequestType DEF BillingInv
      <4> QED BY <3>1, <3>3, <4>1 DEF BillingInv, TypeOK
    <3> QED BY <1>1, <3>1, <3>2, <3>4 DEF BillingInv, Locked, Unlocked, Order
  <2>3. CASE WebhookPasses(p) \/ FailureReads(p)
    <3>1. UNCHANGED lock /\ pc'[p] \in {"wait", "failing"}
      BY <2>3 DEF WebhookPasses, FailureReads, Goto, BillingInv, TypeOK
    <3>2. /\ pc'[p] = "wait" => req[p].to \in Hooks
          /\ pc'[p] = "failing" => Order(p) \in TopUps
      BY <2>3 DEF WebhookPasses, FailureReads, Goto, BillingInv, TypeOK
    <3> QED BY <1>1, <3>1, <3>2 DEF BillingInv, Locked, Unlocked, Order
  <2> QED BY <2>2, <2>3
<1> QED BY <1>2, <1>3 DEF Safe

\* A step that ends a request: nobody else decides on the row it writes.
LEMMA EndSafe ==
    ASSUME BillingInv, NEW p \in Requests, Ending(p)
    PROVE  Safe'
<1>1. Ends(p) /\ Logs(p) /\ (WritesNothing \/ Pays(p) \/ Fails(p))
  BY Outcome
<1>2. Order(p) \in Orders /\ req[p].pay \in Attempts
  BY <1>1, RequestType DEF Ends, BillingInv
<1>3. /\ UNCHANGED <<rounded, rz>> /\ due' \subseteq due
      /\ pc'[p] = "idle"
      /\ \A q \in Requests \ {p} : pc'[q] = pc[q] /\ req'[q] = req[q] /\ seen'[q] = seen[q]
      /\ \A o \in Orders : lock[o] # p => lock'[o] = lock[o]
  BY <1>1 DEF Ends, Close, BillingInv, TypeOK
<1>4. \A o \in Orders : o # Order(p) => status'[o] = status[o] /\ grants'[o] = grants[o]
  BY <1>1 DEF WritesNothing, Pays, Fails, SetStatus, Grant, BillingInv, TypeOK
\* Only the holder of the lock writes, or nobody holds it.
<1>5. status'[Order(p)] = status[Order(p)] \/ lock[Order(p)] \in {p, None}
  BY <1>1 DEF WritesNothing, Pays, Fails, BillingInv, Locked
<1>6. Locked'
  <2> SUFFICES ASSUME NEW q \in Requests, pc'[q] = "locked"
               PROVE  lock'[Order(q)'] = q /\ seen'[q] = status'[Order(q)']
    BY DEF Locked
  <2>1. q # p /\ pc[q] = "locked" /\ Order(q)' = Order(q) /\ seen'[q] = seen[q]
    BY <1>3 DEF Order
  <2>2. Order(q) \in Orders
    BY <2>1, RequestType DEF BillingInv
  <2>3. lock[Order(q)] = q /\ seen[q] = status[Order(q)]
    BY <2>1 DEF BillingInv, Locked
  <2>4. lock'[Order(q)] = q
    BY <1>3, <2>1, <2>2, <2>3
  <2>5. status'[Order(q)] = status[Order(q)]
    BY <1>4, <1>5, <2>1, <2>2, <2>3, BillingAssumption
  <2> QED BY <2>1, <2>3, <2>4, <2>5
<1>7. Unlocked'
  BY <1>3 DEF BillingInv, Unlocked, Order
<1>8. Granting'
  <2>1. grants[Order(p)] \in Nat /\ grants[Order(p)] <= 1
    BY <1>2 DEF BillingInv, TypeOK, Granting
  <2>2. CASE WritesNothing
    BY <2>2 DEF WritesNothing, BillingInv, Granting
  <2>3. CASE Pays(p)
    \* An order that is not PAID has no grant, or is a top-up and asked about.
    <3>1. status[Order(p)] # "PAID"
      BY <2>3 DEF Pays, Paid, BillingInv, Locked
    <3>2. grants'[Order(p)] = 1 /\ status'[Order(p)] = "PAID"
      <4>1. CASE AlreadyGranted(Order(p))
        BY <1>2, <2>1, <2>3, <4>1 DEF Pays, AlreadyGranted, SetStatus, BillingInv, TypeOK
      <4>2. CASE ~AlreadyGranted(Order(p))
        <5>1. grants[Order(p)] = 0
          BY <1>2, <2>1, <3>1, <4>2 DEF AlreadyGranted, Orders, BillingInv, Granting
        <5> QED BY <1>2, <2>3, <4>2, <5>1 DEF Pays, SetStatus, Grant, BillingInv, TypeOK
      <4> QED BY <4>1, <4>2
    <3> QED BY <1>4, <3>2 DEF BillingInv, Granting
  <2>4. CASE Fails(p)
    <3>1. status'[Order(p)] = "FAILED" /\ grants'[Order(p)] = grants[Order(p)]
      BY <1>2, <2>4 DEF Fails, SetStatus, BillingInv, TypeOK
    <3>2. Order(p) \in Subscriptions => status[Order(p)] # "PAID"
      BY <2>4, BillingAssumption DEF Fails, Paid, BillingInv, Locked, Unlocked
    <3>3. Order(p) \in Subscriptions => ~(grants[Order(p)] > 0)
      BY <1>2, <3>2 DEF BillingInv, Granting
    <3> QED BY <1>2, <1>4, <3>1, <3>3, <2>1 DEF BillingInv, Granting
  <2> QED BY <1>1, <2>2, <2>3, <2>4
<1>9. Heard'
  BY <1>3 DEF BillingInv, Heard
\* Grants are never taken back.
<1>10. \A o \in Orders : grants[o] > 0 => grants'[o] > 0
  <2>1. grants[Order(p)] \in Nat
    BY <1>2 DEF BillingInv, TypeOK
  <2>2. grants[Order(p)] > 0 => grants'[Order(p)] > 0
    BY <1>1, <1>2, <2>1 DEF WritesNothing, Pays, Fails, Grant, BillingInv, TypeOK
  <2> QED BY <1>4, <2>2
<1>11. GrantWasPaid'
  <2>1. CASE WritesNothing \/ Fails(p)
    BY <1>3, <2>1 DEF WritesNothing, Fails, BillingInv, GrantWasPaid, HasMoney
  <2>2. CASE Pays(p)
    <3>1. OrderOf[req[p].pay] = Order(p)
      BY DEF Order
    <3>2. rz[req[p].pay] = "captured" \/ (rz[req[p].pay] = "authorized" /\ Order(p) \in TopUps)
      BY <2>2 DEF Pays
    <3> QED BY <1>2, <1>3, <1>4, <3>1, <3>2 DEF BillingInv, GrantWasPaid, HasMoney
  <2> QED BY <1>1, <2>1, <2>2
<1>12. LoggedIsGranted'
  <2> SUFFICES ASSUME NEW d \in logged', d.to = "topupWebhook",
                      d.event = "payment.captured", OrderOf[d.pay] \in TopUps
               PROVE  grants'[OrderOf[d.pay]] > 0
    BY DEF LoggedIsGranted
  <2>1. CASE d \in logged
    BY <1>10, <2>1 DEF BillingInv, LoggedIsGranted, Orders
  <2>2. CASE d \notin logged
    BY <1>1, <2>2 DEF Logs, Log, Order
  <2> QED BY <2>1, <2>2
<1> QED BY <1>6, <1>7, <1>8, <1>9, <1>11, <1>12 DEF Safe

LEMMA NextSafe == BillingInv /\ Next => Safe'
<1> SUFFICES ASSUME BillingInv, Next PROVE Safe'
  OBVIOUS
<1>1. ASSUME NEW p \in Requests, NEW a \in Attempts, Verify(p, a) \/ Failure(p, a)
      PROVE  Safe'
  <2> DEFINE r(to) == [to |-> to, event |-> "none", pay |-> a]
  <2>1. r("verify") \in Calls /\ r("failure") \in Calls
    BY DEF Calls
  <2>2. Open(p, r("verify")) \/ Open(p, r("failure"))
    BY <1>1 DEF Verify, Failure
  <2> QED BY <2>1, <2>2, OpenSafe
<1>2. ASSUME NEW p \in Requests, NEW d \in Deliveries, Deliver(p, d) PROVE Safe'
  BY <1>2, OpenSafe DEF Deliver, BillingInv, Heard
<1> QED BY <1>1, <1>2, Kinds, MovesSafe, MovesOnSafe, EndSafe

-----------------------------------------------------------------------------
(* The theorems *)

THEOREM Invariance == Spec => []BillingInv
<1>1. Init => BillingInv
  BY InitType, InitSafe DEF BillingInv, Safe
<1>2. BillingInv /\ [Next]_vars => BillingInv'
  <2>1. BillingInv /\ Next => BillingInv'
    BY NextType, NextSafe DEF BillingInv, Safe
  <2>2. BillingInv /\ UNCHANGED vars => BillingInv'
    BY DEF vars, rowVars, reqVars, BillingInv, TypeOK, Locked, Unlocked, Granting, Heard,
           GrantWasPaid, HasMoney, LoggedIsGranted, Order
  <2> QED BY <2>1, <2>2
<1> QED BY <1>1, <1>2, PTL DEF Spec

\* The state is always well typed: a request at work has a body.
THEOREM TypeCorrect == Spec => []TypeOK
BY Invariance, PTL DEF BillingInv

\* No interleaving of the browser's calls and the webhooks, repeated or lost,
\* grants an order twice (payments.py _has_credit_grant_for_payment and the
\* row locks).
THEOREM GrantingOnce == Spec => []GrantedOnce
<1>1. BillingInv => GrantedOnce
  BY DEF BillingInv, Granting, GrantedOnce
<1> QED BY <1>1, Invariance, PTL

\* A PAID order got its credits or its subscription.
THEOREM PayingGrants == Spec => []PaidIsGranted
<1>1. BillingInv => PaidIsGranted
  BY DEF BillingInv, TypeOK, Granting, PaidIsGranted
<1> QED BY <1>1, Invariance, PTL

\* Nothing is granted before Razorpay accepted the money.
THEOREM GrantingPaid == Spec => []GrantWasPaid
BY Invariance, PTL DEF BillingInv

\* The webhook's log never hides a capture that the webhook itself took in
\* but did not pay out.
THEOREM LoggingGrants == Spec => []LoggedIsGranted
BY Invariance, PTL DEF BillingInv

-----------------------------------------------------------------------------
(* BillingPayments implements PaymentService.  Razorpay's steps collect     *)
(* money, at most for the order of the payment that moves.  A request that  *)
(* ends gives the order, or shows it as paid or as failed: Outcome again.   *)

PaymentStep == [Payments!Next]_(Payments!paymentVars)

\* A payment that moves brings the money of its order, or of none.
LEMMA MovesCollect ==
    ASSUME BillingInv, NEW a \in Attempts,
           \/ Moves(a, "authorized", "payment.authorized") /\ rz[a] = "created"
           \/ Moves(a, "failed", "payment.failed") /\ rz[a] = "created"
           \/ Moves(a, "captured", "payment.captured")
    PROVE  PaymentStep
<1>1. UNCHANGED <<status, grants>>
  BY DEF Moves, rowVars
<1>2. OrderOf[a] \in Orders
  BY BillingAssumption
<1>3. \A b \in Attempts \ {a} : rz'[b] = rz[b]
  BY DEF Moves, BillingInv, TypeOK
<1>4. /\ rz[a] = "captured" => rz'[a] = "captured"
      /\ rz[a] = "authorized" => rz'[a] \in {"authorized", "captured"}
  BY DEF Moves, BillingInv, TypeOK
<1>5. \A o \in Orders : HasMoney(o) => HasMoney(o)'
  BY <1>3, <1>4 DEF HasMoney
<1>6. \A o \in Orders : HasMoney(o)' => HasMoney(o) \/ o = OrderOf[a]
  BY <1>3 DEF HasMoney
<1> DEFINE money == {o \in Orders : HasMoney(o)}
<1>7. CASE HasMoney(OrderOf[a])'
  <2>1. money' = money \cup {OrderOf[a]}
    BY <1>2, <1>5, <1>6, <1>7 DEF Orders
  <2>2. Payments!Collect(OrderOf[a])
    BY <1>1, <2>1 DEF Payments!Collect
  <2> QED BY <1>2, <2>2 DEF PaymentStep, Payments!Next, Payments!Orders, Orders
<1>8. CASE ~HasMoney(OrderOf[a])'
  <2>1. money' = money
    BY <1>5, <1>6, <1>8 DEF Orders
  <2> QED BY <1>1, <2>1 DEF PaymentStep, Payments!paymentVars
<1> QED BY <1>7, <1>8

\* What an order shows and was given only changes when a request ends.
LEMMA RestCollects ==
    ASSUME UNCHANGED <<rz, status, grants>>
    PROVE  PaymentStep
BY DEF PaymentStep, Payments!paymentVars, HasMoney

\* The order is not PAID when it is paid: it gets its grant, or is a top-up that
\* has it already.
LEMMA PaysOnce ==
    ASSUME BillingInv, NEW p \in Requests, Order(p) \in Orders, Pays(p)
    PROVE  \/ grants[Order(p)] = 0 /\ Grant(p)
           \/ grants[Order(p)] = 1 /\ UNCHANGED grants
<1>1. grants[Order(p)] \in Nat /\ grants[Order(p)] <= 1
  BY DEF BillingInv, TypeOK, Granting
<1>2. status[Order(p)] # "PAID"
  BY DEF Pays, Paid, BillingInv, Locked
<1>3. CASE AlreadyGranted(Order(p))
  BY <1>1, <1>3 DEF Pays, AlreadyGranted
<1>4. CASE ~AlreadyGranted(Order(p))
  <2>1. grants[Order(p)] = 0
    BY <1>1, <1>2, <1>4 DEF AlreadyGranted, Orders, BillingInv, Granting
  <2> QED BY <1>4, <2>1 DEF Pays
<1> QED BY <1>3, <1>4

LEMMA EndImplements ==
    ASSUME BillingInv, NEW p \in Requests, Ending(p)
    PROVE  PaymentStep
<1>1. Ends(p) /\ (WritesNothing \/ Pays(p) \/ Fails(p))
  BY Outcome
<1>2. Order(p) \in Orders /\ req[p].pay \in Attempts
  BY <1>1, RequestType DEF Ends, BillingInv
<1>3. UNCHANGED rz
  BY <1>1 DEF Ends, Close
<1> DEFINE money == {o \in Orders : HasMoney(o)}
<1>4. money' = money
  BY <1>3 DEF HasMoney
<1>5. CASE WritesNothing
  BY <1>3, <1>5, RestCollects DEF WritesNothing
<1>6. CASE Pays(p)
  <2>1. status' = [status EXCEPT ![Order(p)] = "PAID"]
    BY <1>6 DEF Pays, SetStatus
  <2>2. Order(p) \in money
    BY <1>2, <1>6 DEF Pays, HasMoney, Order
  <2>3. CASE grants[Order(p)] = 0 /\ Grant(p)
    <3>1. grants' = [grants EXCEPT ![Order(p)] = 1]
      BY <2>3 DEF Grant
    <3>2. Payments!Give(Order(p))
      BY <1>4, <2>1, <2>2, <2>3, <3>1 DEF Payments!Give
    <3> QED BY <1>2, <3>2 DEF PaymentStep, Payments!Next, Payments!Orders, Orders
  <2>4. CASE grants[Order(p)] = 1 /\ UNCHANGED grants
    <3>1. Payments!ShowPaid(Order(p))
      BY <1>4, <2>1, <2>4 DEF Payments!ShowPaid
    <3> QED BY <1>2, <3>1 DEF PaymentStep, Payments!Next, Payments!Orders, Orders
  <2> QED BY <1>2, <1>6, <2>3, <2>4, PaysOnce
<1>7. CASE Fails(p)
  \* PAID is overwritten behind the lock only, and so of a top-up.
  <2>1. status[Order(p)] = "PAID" => Order(p) \in TopUps
    BY <1>7 DEF Fails, Paid, BillingInv, Locked, Unlocked
  <2>2. Payments!ShowFailed(Order(p))
    BY <1>4, <1>7, <2>1 DEF Fails, SetStatus, Payments!ShowFailed
  <2> QED BY <1>2, <2>2 DEF PaymentStep, Payments!Next, Payments!Orders, Orders
<1> QED BY <1>1, <1>5, <1>6, <1>7

LEMMA NextImplements == BillingInv /\ [Next]_vars => PaymentStep
<1> SUFFICES ASSUME BillingInv, [Next]_vars PROVE PaymentStep
  OBVIOUS
<1>1. ASSUME NEW p \in Requests,
             \/ \E a \in Attempts : Verify(p, a) \/ Failure(p, a)
             \/ \E d \in Deliveries : Deliver(p, d)
             \/ Lock(p) \/ WebhookPasses(p) \/ FailureReads(p)
      PROVE  PaymentStep
  <2>1. UNCHANGED <<rz, status, grants>>
    BY <1>1 DEF Verify, Failure, Deliver, Open, Lock, WebhookPasses, FailureReads, Goto, rowVars
  <2> QED BY <2>1, RestCollects
<1>2. CASE UNCHANGED vars
  BY <1>2, RestCollects DEF vars, rowVars
<1>3. CASE Next
  BY <1>1, <1>3, Kinds, MovesCollect, EndImplements
<1> QED BY <1>2, <1>3

\* The checkout keeps the promises of PaymentService, whatever the browser,
\* Razorpay and the two webhooks do and in whatever order: an order is granted
\* once and for its money, shown as PAID from its grant on, and a subscription
\* shown as PAID never loses it (payments.py and subscriptions.py).
THEOREM BillingImplementsService == Spec => PaymentServiceSpec
<1>1. Init => Payments!Init
  BY DEF Init, Payments!Init, Payments!Orders, Orders, HasMoney
<1> QED BY <1>1, NextImplements, Invariance, PTL
        DEF Spec, PaymentServiceSpec, Payments!Spec, PaymentStep
=============================================================================
