------------------------------ MODULE Credits ------------------------------
(***************************************************************************)
(* The credit ledger of the realm registry (api/credits.py).  A user's     *)
(* account carries a spendable balance and two running totals; the cost of *)
(* a deployment or of an upgrade leaves the balance when its hold is       *)
(* created and is spent, or given back, when the hold is settled.          *)
(*                                                                         *)
(* Every operation runs inside one canister message without an await, so   *)
(* it is one atomic action; a refused operation changes nothing.  The two  *)
(* prices of the code (DEPLOYMENT_COST_CREDITS, UPGRADE_COST_CREDITS) are  *)
(* equal, and Cost stands for both.                                        *)
(***************************************************************************)
EXTENDS Integers, FiniteSets, JobIds

CONSTANTS
    Users,          \* principals that own credits
    NoUser,         \* the holder of a hold that was never created
    Cost,           \* credits taken by one hold
    TopUps,         \* amounts the billing service asks to add or to deduct
    Gifts,          \* credits that a voucher or an invitation carries
    MaxTopUp,       \* largest top-up the ledger accepts
    MaxPurchased    \* bound on a user's lifetime purchases

ASSUME CreditsAssumption ==
    /\ NoUser \notin Users
    /\ Cost \in Nat \ {0}
    /\ TopUps \subseteq Int
    /\ Gifts \subseteq Nat \ {0}
    /\ MaxTopUp \in Nat
    /\ MaxPurchased \in Nat

VARIABLES
    balance,        \* UserCredits.balance
    purchased,      \* UserCredits.total_purchased
    spent,          \* UserCredits.total_spent
    holdStatus,     \* DeploymentCreditHold.status, "none" when no hold exists
    holder          \* DeploymentCreditHold.principal_id

accounts == <<balance, purchased, spent>>
holds == <<holdStatus, holder>>
ledger == <<balance, purchased, spent, holdStatus, holder>>

HoldStatuses == {"none", "held", "captured", "released"}

LedgerTypeOK ==
    /\ balance \in [Users -> Int]
    /\ purchased \in [Users -> Nat]
    /\ spent \in [Users -> Int]
    /\ holdStatus \in [Jobs -> HoldStatuses]
    /\ holder \in [Jobs -> Users \union {NoUser}]

(* A missing account reads as zero in all three fields, and the first      *)
(* operation that needs one creates it with those values.                  *)
LedgerInit ==
    /\ balance = [u \in Users |-> 0]
    /\ purchased = [u \in Users |-> 0]
    /\ spent = [u \in Users |-> 0]
    /\ holdStatus = [j \in Jobs |-> "none"]
    /\ holder = [j \in Jobs |-> NoUser]

----------------------------------------------------------------------------
(* Credits that enter or leave without a hold.                             *)

Deposit(u, a) ==
    /\ purchased[u] + a <= MaxPurchased
    /\ balance' = [balance EXCEPT ![u] = @ + a]
    /\ purchased' = [purchased EXCEPT ![u] = @ + a]
    /\ UNCHANGED <<spent, holds>>

(* The billing service reports a payment.                                  *)
AddUserCredits(u, a) ==
    /\ a > 0
    /\ a <= MaxTopUp
    /\ Deposit(u, a)

(* A voucher or an invitation is redeemed: no upper limit here.            *)
CreditCaller(u, a) == Deposit(u, a)

(* Mutant of DeductUserCredits: the balance is not looked at.              *)
DeductsUnchecked(u, a) ==
    /\ a > 0
    /\ balance' = [balance EXCEPT ![u] = @ - a]
    /\ spent' = [spent EXCEPT ![u] = @ + a]
    /\ UNCHANGED <<purchased, holds>>

DeductUserCredits(u, a) ==
    /\ a > 0
    /\ balance[u] >= a
    /\ balance' = [balance EXCEPT ![u] = @ - a]
    /\ spent' = [spent EXCEPT ![u] = @ + a]
    /\ UNCHANGED <<purchased, holds>>

----------------------------------------------------------------------------
(* Holds.                                                                  *)

(* The result of create_deployment_hold: a second request for a job that   *)
(* already has a hold is answered from that hold, whoever owns it.         *)
HoldGranted(u, j) ==
    IF holdStatus[j] = "none"
    THEN balance[u] >= Cost
    ELSE holdStatus[j] \in {"held", "captured"}

CreateDeploymentHold(u, j) ==
    /\ holdStatus[j] = "none"
    /\ balance[u] >= Cost
    /\ balance' = [balance EXCEPT ![u] = @ - Cost]
    /\ holdStatus' = [holdStatus EXCEPT ![j] = "held"]
    /\ holder' = [holder EXCEPT ![j] = u]
    /\ UNCHANGED <<purchased, spent>>

(* Mutant of CaptureDeploymentHold: a released hold can be captured.       *)
CapturesReleased(j) ==
    /\ holdStatus[j] \in {"held", "released"}
    /\ spent' = [spent EXCEPT ![holder[j]] = @ + Cost]
    /\ holdStatus' = [holdStatus EXCEPT ![j] = "captured"]
    /\ UNCHANGED <<balance, purchased, holder>>

CaptureDeploymentHold(j) ==
    /\ holdStatus[j] = "held"
    /\ spent' = [spent EXCEPT ![holder[j]] = @ + Cost]
    /\ holdStatus' = [holdStatus EXCEPT ![j] = "captured"]
    /\ UNCHANGED <<balance, purchased, holder>>

(* Mutant of ReleaseDeploymentHold: a hold can be released again.          *)
ReleasesAgain(j) ==
    /\ holdStatus[j] \in {"held", "released"}
    /\ balance' = [balance EXCEPT ![holder[j]] = @ + Cost]
    /\ holdStatus' = [holdStatus EXCEPT ![j] = "released"]
    /\ UNCHANGED <<purchased, spent, holder>>

ReleaseDeploymentHold(j) ==
    /\ holdStatus[j] = "held"
    /\ balance' = [balance EXCEPT ![holder[j]] = @ + Cost]
    /\ holdStatus' = [holdStatus EXCEPT ![j] = "released"]
    /\ UNCHANGED <<purchased, spent, holder>>

----------------------------------------------------------------------------
LedgerNext ==
    \/ \E u \in Users, a \in TopUps : AddUserCredits(u, a) \/ DeductUserCredits(u, a)
    \/ \E u \in Users, a \in Gifts : CreditCaller(u, a)
    \/ \E u \in Users, j \in Jobs : CreateDeploymentHold(u, j)
    \/ \E j \in Jobs : CaptureDeploymentHold(j) \/ ReleaseDeploymentHold(j)

LedgerSpec == LedgerInit /\ [][LedgerNext]_ledger

----------------------------------------------------------------------------
(* The jobs whose cost is out of u's balance but not yet spent.            *)
HeldJobs(u) == {j \in Jobs : holdStatus[j] = "held" /\ holder[j] = u}

(* Every credit a user ever obtained is in exactly one place: spendable,   *)
(* held for an unsettled job, or spent.  A release after a capture, a      *)
(* second capture or a hold that forgets the balance would create or       *)
(* destroy credits.                                                        *)
Conservation ==
    \A u \in Users :
        balance[u] + Cost * Cardinality(HeldJobs(u)) + spent[u] = purchased[u]

(* No order of holds, deductions and settlements drives an account below   *)
(* zero, so a user never spends more than was ever purchased.              *)
Solvency == \A u \in Users : balance[u] >= 0 /\ spent[u] >= 0

(* A settlement is final: once captured or released a hold never changes   *)
(* status or holder again, whatever reports and retries arrive later.      *)
SettlementIsFinal ==
    [][\A j \in Jobs : holdStatus[j] \in {"captured", "released"} =>
         holdStatus'[j] = holdStatus[j] /\ holder'[j] = holder[j]]_ledger
=============================================================================
