--------------------------------- MODULE Funder ---------------------------------
(***************************************************************************)
(* The funder of the keeper (keeper/internal/funder): a loop that asks for *)
(* apply_funding once per tick of its own clock, whatever became of the    *)
(* last request, beside other keepers that may do the same at any time.    *)
(*                                                                         *)
(* The funding contract is the module FundingRate.  The wrapper that would *)
(* build, sign and send the transaction is a stub in the repository; here  *)
(* it is an external part that fails, or sends a transaction the network   *)
(* executes within MaxDelay or drops.                                      *)
(***************************************************************************)
EXTENDS FundingRate

CONSTANTS
    FunderInterval,     \* the period of the loop, configured apart from the contract's
    MaxDelay            \* the longest a transaction waits for its ledger

ASSUME FunderAssumption ==
    /\ FunderInterval \in Nat \ {0}
    /\ MaxDelay \in Nat
    /\ MaxDelay < FunderInterval

VARIABLES
    nextTick,           \* the time of the next tick
    sentAt,             \* when the transaction that is under way was sent, or -1
    lostRequests        \* history: requests since the last funding that never
                        \* reached the contract

funderVars == <<nextTick, sentAt, lostRequests>>

\* The ticker fires for the first time one period after the start.
FunderInit ==
    /\ nextTick = FunderInterval
    /\ sentAt = -1
    /\ lostRequests = 0

UnderWay == sentAt >= 0

\* The wrapper returned an error, or a hash: the funder counts the two apart and
\* does the same after both, wait for the next tick.
TriggerFunding ==
    /\ now = nextTick
    /\ ~UnderWay
    /\ nextTick' = now + FunderInterval
    /\ \/ sentAt' = now /\ UNCHANGED lostRequests
       \/ lostRequests' = lostRequests + 1 /\ UNCHANGED sentAt
    /\ UNCHANGED <<frVars, openInterest, now>>

\* The transaction reaches the contract, which may find it too early.
Executed ==
    /\ UnderWay
    /\ sentAt' = -1
    /\ \/ ApplyFunding /\ lostRequests' = 0
       \/ ~FundingDue /\ UNCHANGED <<frVars, lostRequests>>
    /\ UNCHANGED <<nextTick, openInterest, now>>

\* The network drops the transaction.
Dropped ==
    /\ UnderWay
    /\ sentAt' = -1
    /\ lostRequests' = lostRequests + 1
    /\ UNCHANGED <<nextTick, frVars, openInterest, now>>

\* An administrator's call, or another keeper's apply_funding.
OtherCall ==
    /\ FrStep
    /\ lostRequests' = IF lastFundingTime' = lastFundingTime THEN lostRequests ELSE 0
    /\ UNCHANGED <<nextTick, sentAt, openInterest, now>>

\* The tick is served, and the transaction executed or dropped, in time.
TimePasses ==
    /\ LedgerStep
    /\ now' <= nextTick
    /\ UnderWay => now' <= sentAt + MaxDelay
    /\ UNCHANGED funderVars

FunderNext ==
    \/ TriggerFunding
    \/ Executed
    \/ Dropped
    \/ OtherCall
    \/ TimePasses
    \/ OpenInterestStep /\ UNCHANGED funderVars

FunderSpecInit == FrSpecInit /\ FunderInit

FunderSpec == FunderSpecInit /\ [][FunderNext]_<<frVars, openInterest, now, funderVars>>

-------------------------------------------------------------------------------
\* Properties.

\* Funding is never overdue by more than one tick of the funder, the time its
\* transaction waits, and one tick for each request that was lost: a tick that
\* comes too early (the funder's period is configured apart from the contract's
\* interval and starts at another moment) costs a whole period, but only once,
\* whatever other keepers and the administrator do in between.
FundingLag ==
    FrInitialized =>
        \E interval \in FundingIntervals :
            now - lastFundingTime
                < interval + FunderInterval * (1 + lostRequests) + MaxDelay
===============================================================================
