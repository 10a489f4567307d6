----------------------------- MODULE MCServices -----------------------------
(* Eight components that share no state, side by side: in a behaviour one   *)
(* of them moves and the others stay where they start, so that the states   *)
(* of the instance are the sum of theirs.                                   *)
EXTENDS CreditLedger, CopyDispatch, PartialExit, AlertDelivery, PriceAlerts, CandleRuns,
        FeedSync, DailyDispatch, TLC, FiniteSets

VARIABLE part   \* the component that moves

\* Two workers of a kind are interchangeable; one part moves, so that all pairs
\* are exchanged at once.
Pairs == {Runners, StreamWorkers, Senders, DailyDispatchers}

Symmetry == {f \in Permutations(UNION Pairs) :
                 \/ \A w \in UNION Pairs : f[w] = w
                 \/ \A S \in Pairs : \A w \in S : f[w] \in S \ {w}}

\* Bounds of the instance: at most two transactions of a user's credits, and at
\* most two runs of a deployment, at a time.
AtOnce == 2
FewTxs  == Cardinality({p \in CreditTxs : step'[p] # "idle"}) <= AtOnce
FewRuns == Cardinality({p \in EngineRunners : engineRun'[p].pc # "idle"}) <= AtOnce

\* A range of candles that an administrator asks for.
AskedRanges == {<<2, 3>>}

Parts == {"credit", "copy", "exit", "delivery", "alert", "candles", "feeds", "daily"}

\* The components that do not move.
OthersStay ==
    /\ part # "credit"   => UNCHANGED creditVars
    /\ part # "copy"     => UNCHANGED copyVars
    /\ part # "exit"     => UNCHANGED partialVars
    /\ part # "delivery" => UNCHANGED deliveryVars
    /\ part # "alert"    => UNCHANGED alertVars
    /\ part # "candles"  => UNCHANGED candleVars
    /\ part # "feeds"    => UNCHANGED feedSyncVars
    /\ part # "daily"    => UNCHANGED dailyVars

ServicesInit ==
    /\ part \in Parts
    /\ CreditInit /\ CopyInit /\ PartialInit /\ DeliveryInit /\ AlertInit
    /\ CandleInit /\ FeedInit /\ DailyInit
    \* the one start of the parts that stay
    /\ part # "candles" => route = "GATEWAY"
    /\ part # "feeds" => \A t \in Times : canonical[t] = NoSource
    /\ part # "exit" => provider = CHOOSE p \in Providers : TRUE
    /\ part # "alert" => rule = CHOOSE r \in [kind: Kinds, once: BOOLEAN, approach: BOOLEAN] : TRUE
    \* an edit leads to the lower targets
    /\ \A t \in Targets0 : t <= alert.target

ServicesNext ==
    /\ \/ part = "credit" /\ CreditNext /\ FewTxs
       \/ part = "copy" /\ CopyNext
       \/ part = "exit" /\ PartialNext
       \/ part = "delivery" /\ DeliveryNext
       \/ part = "alert" /\ AlertNext
       \/ part = "candles" /\ CandleNext /\ FewRuns
       \/ part = "feeds" /\ FeedNext
       \/ part = "daily" /\ DailyNext
    /\ OthersStay
    /\ UNCHANGED part

ServicesSpec ==
    ServicesInit /\ [][ServicesNext]_<<creditVars, copyVars, partialVars, deliveryVars,
                                       alertVars, candleVars, feedSyncVars, dailyVars, part>>

\* The types of the component that moves; those of the others are in their own
\* behaviours.
ServicesTypeOK ==
    /\ part = "credit"   => CreditTypeOK
    /\ part = "copy"     => CopyTypeOK
    /\ part = "exit"     => PartialTypeOK
    /\ part = "delivery" => DeliveryTypeOK
    /\ part = "alert"    => AlertTypeOK
    /\ part = "candles"  => CandleTypeOK
    /\ part = "feeds"    => FeedTypeOK
    /\ part = "daily"    => DailyTypeOK

\* What tells two states apart: the others have one start, and stay there.
Moving ==
    CASE part = "credit"   -> <<part, creditVars>>
      [] part = "copy"     -> <<part, copyVars>>
      [] part = "exit"     -> <<part, partialVars>>
      [] part = "delivery" -> <<part, deliveryVars>>
      [] part = "alert"    -> <<part, alertVars>>
      [] part = "candles"  -> <<part, candleVars>>
      [] part = "feeds"    -> <<part, feedSyncVars>>
      [] part = "daily"    -> <<part, dailyVars>>
=============================================================================
