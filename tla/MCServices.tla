----------------------------- MODULE MCServices -----------------------------
(***************************************************************************)
(* Instances for TLC of ten parts of the system that share no row, no lock *)
(* and no message: the accounts and the KYC profile of a user, the rate of *)
(* a currency pair, the webhooks of a merchant, the mails about a          *)
(* transfer, the requests for transfers, the refunds of one, the custody   *)
(* and the placement of a wallet, and the access of the user to the        *)
(* services.  A behaviour is one of a single part, chosen in the initial   *)
(* state, so that the state spaces add up and do not multiply.             *)
(***************************************************************************)
EXTENDS Accounts, Kyc, RateCache, Notifications, Mails, Requests, Refunds,
        Custody, Placement, Access, Combinatorics

VARIABLE part   \* the part that is at work

services == <<part, accountsVars, kycVars, rateVars, hookVars, mailVars,
              requestVars, refundVars, custodyVars, placementVars, accessVars>>

Parts == {"accounts", "kyc", "rates", "webhooks", "mails", "requests",
          "refunds", "custody", "placement", "access"}

\* A form whose columns contradict each other.
MCForms == {[status |-> "rejected", verified |-> TRUE, tier |-> DefaultTier, expires |-> 1]}

\* A part that is not at work has one initial state.
ServicesInit ==
    /\ part \in Parts
    /\ AccountsInit
    /\ KycInit
    /\ RateCacheInit
    /\ NotificationsInit
    /\ MailsInit
    /\ RequestsInit
    /\ RefundsInit
    /\ CustodyInit
    /\ PlacementInit
    /\ AccessInit
    /\ part # "refunds" => tables = Months
    /\ part # "placement" => \A s \in Servers : home[s] = "shard_1"

ServicesNext ==
    /\ UNCHANGED part
    /\ \/ /\ part = "accounts"
          /\ AccountsNext
          /\ UNCHANGED <<kycVars, rateVars, hookVars, mailVars,
                         requestVars, refundVars, custodyVars,
                         placementVars, accessVars>>
       \/ /\ part = "kyc"
          /\ KycNext
          /\ UNCHANGED <<accountsVars, rateVars, hookVars, mailVars,
                         requestVars, refundVars, custodyVars,
                         placementVars, accessVars>>
       \/ /\ part = "rates"
          /\ RateCacheNext
          /\ UNCHANGED <<accountsVars, kycVars, hookVars, mailVars,
                         requestVars, refundVars, custodyVars,
                         placementVars, accessVars>>
       \/ /\ part = "webhooks"
          /\ NotificationsNext
          /\ UNCHANGED <<accountsVars, kycVars, rateVars, mailVars,
                         requestVars, refundVars, custodyVars,
                         placementVars, accessVars>>
       \/ /\ part = "mails"
          /\ MailsNext
          /\ UNCHANGED <<accountsVars, kycVars, rateVars, hookVars,
                         requestVars, refundVars, custodyVars,
                         placementVars, accessVars>>
       \/ /\ part = "requests"
          /\ RequestsNext
          /\ UNCHANGED <<accountsVars, kycVars, rateVars, hookVars,
                         mailVars, refundVars, custodyVars, placementVars,
                         accessVars>>
       \/ /\ part = "refunds"
          /\ ~muddled   \* RefundedOnce says nothing of what comes after
          /\ RefundsNext
          /\ UNCHANGED <<accountsVars, kycVars, rateVars, hookVars,
                         mailVars, requestVars, custodyVars, placementVars,
                         accessVars>>
       \/ /\ part = "custody"
          /\ CustodyNext
          /\ UNCHANGED <<accountsVars, kycVars, rateVars, hookVars,
                         mailVars, requestVars, refundVars, placementVars,
                         accessVars>>
       \/ /\ part = "placement"
          /\ PlacementNext
          /\ UNCHANGED <<accountsVars, kycVars, rateVars, hookVars,
                         mailVars, requestVars, refundVars, custodyVars,
                         accessVars>>
       \/ /\ part = "access"
          /\ AccessNext
          /\ UNCHANGED <<accountsVars, kycVars, rateVars, hookVars,
                         mailVars, requestVars, refundVars, custodyVars,
                         placementVars>>

\* The fairness of the parts: a part that is not at work has none to offer.
ServicesSpec ==
    /\ ServicesInit
    /\ [][ServicesNext]_services
    /\ KycFairness
    /\ RateCacheFairness

\* The bound of MissesAreBounded in numbers.
ASSUME TalliesCounted ==
    \A n, limit \in 1..4 : Cardinality(Tallies(n, limit)) = choose(n + limit - 1, n)

\* Every variable has its type.
ServicesTypeOK ==
    /\ AccountsTypeOK
    /\ KycTypeOK
    /\ RateCacheTypeOK
    /\ NotificationsTypeOK
    /\ MailsTypeOK
    /\ RequestsTypeOK
    /\ RefundsTypeOK
    /\ CustodyTypeOK
    /\ PlacementTypeOK
    /\ AccessTypeOK
=============================================================================
