--------------------------- MODULE Credits_proofs ---------------------------
(***************************************************************************)
(* Theorems about the credit ledger, for any number of users and jobs and  *)
(* any price.  The inductive invariant is LedgerInv: Conservation counts   *)
(* the held jobs of each user, so a settlement must know that a held job   *)
(* has a holder, which is what HeldHasHolder adds.                         *)
(***************************************************************************)
EXTENDS Credits, FiniteSetTheorems, TLAPS

HeldHasHolder == \A j \in Jobs : holdStatus[j] = "held" => holder[j] \in Users

LedgerInv ==
    /\ LedgerTypeOK
    /\ HeldHasHolder
    /\ Conservation
    /\ Solvency

(* What the ledger relies on about its holds, in one place: the held jobs  *)
(* of a user are finitely many, and their number is a natural.             *)
LEMMA HeldJobsFinite ==
    ASSUME NEW u
    PROVE  IsFiniteSet(HeldJobs(u)) /\ Cardinality(HeldJobs(u)) \in Nat
<1>1. HeldJobs(u) \subseteq Jobs
  BY DEF HeldJobs
<1>2. IsFiniteSet(HeldJobs(u))
  BY <1>1, JobsAssumption, FS_Subset
<1>3. QED
  BY <1>2, FS_CardinalityType

(* Creating a hold adds one held job to its holder's and to nobody else's. *)
LEMMA HoldAddsOne ==
    ASSUME LedgerTypeOK,
           NEW u \in Users, NEW j \in Jobs, CreateDeploymentHold(u, j),
           NEW v \in Users
    PROVE  Cardinality(HeldJobs(v)') =
             IF v = u THEN Cardinality(HeldJobs(v)) + 1 ELSE Cardinality(HeldJobs(v))
<1>1. CASE v = u
  <2>1. HeldJobs(v)' = HeldJobs(v) \union {j} /\ j \notin HeldJobs(v)
    BY <1>1 DEF CreateDeploymentHold, HeldJobs, LedgerTypeOK
  <2>2. QED
    BY <1>1, <2>1, HeldJobsFinite, FS_AddElement
<1>2. CASE v # u
  <2>1. HeldJobs(v)' = HeldJobs(v)
    BY <1>2 DEF CreateDeploymentHold, HeldJobs, LedgerTypeOK
  <2>2. QED
    BY <1>2, <2>1
<1>3. QED
  BY <1>1, <1>2

(* Settling a held job removes it from its holder's held jobs and leaves   *)
(* every other user's untouched.                                           *)
LEMMA SettlementRemovesOne ==
    ASSUME LedgerTypeOK, HeldHasHolder,
           NEW j \in Jobs, holdStatus[j] = "held", holder' = holder,
           NEW s \in {"captured", "released"},
           holdStatus' = [holdStatus EXCEPT ![j] = s],
           NEW v \in Users
    PROVE  Cardinality(HeldJobs(v)') =
             IF v = holder[j] THEN Cardinality(HeldJobs(v)) - 1 ELSE Cardinality(HeldJobs(v))
<1>1. CASE v = holder[j]
  <2>1. HeldJobs(v)' = HeldJobs(v) \ {j} /\ j \in HeldJobs(v)
    BY <1>1 DEF HeldJobs, LedgerTypeOK
  <2>2. QED
    BY <1>1, <2>1, HeldJobsFinite, FS_RemoveElement
<1>2. CASE v # holder[j]
  <2>1. HeldJobs(v)' = HeldJobs(v)
    BY <1>2 DEF HeldJobs, LedgerTypeOK
  <2>2. QED
    BY <1>2, <2>1
<1>3. QED
  BY <1>1, <1>2

(* An empty ledger satisfies the invariant.                                *)
LEMMA LedgerInitInv == LedgerInit => LedgerInv
<1> SUFFICES ASSUME LedgerInit PROVE LedgerInv
  OBVIOUS
<1>1. LedgerTypeOK
  BY DEF LedgerInit, LedgerTypeOK, HoldStatuses
<1>2. HeldHasHolder /\ Solvency
  BY DEF LedgerInit, HeldHasHolder, Solvency
<1>3. Conservation
  <2>1. ASSUME NEW u \in Users
        PROVE  balance[u] + Cost * Cardinality(HeldJobs(u)) + spent[u] = purchased[u]
    <3>1. HeldJobs(u) = {}
      BY DEF LedgerInit, HeldJobs
    <3>2. Cardinality(HeldJobs(u)) = 0
      BY <3>1, FS_EmptySet
    <3>3. QED
      BY <3>2, CreditsAssumption DEF LedgerInit, CreditsAssumption
  <2>2. QED
    BY <2>1 DEF Conservation
<1>4. QED
  BY <1>1, <1>2, <1>3 DEF LedgerInv

(* An operation that leaves the holds alone keeps the held jobs.           *)
LEMMA HoldsKeepHeldJobs ==
    ASSUME UNCHANGED holds, NEW u
    PROVE  HeldJobs(u)' = HeldJobs(u)
BY DEF holds, HeldJobs

(* A deposit, whether a top-up, a voucher or an invitation.                *)
LEMMA DepositInv ==
    ASSUME LedgerInv, NEW u \in Users, NEW a \in Nat \ {0}, Deposit(u, a)
    PROVE  LedgerInv'
<1>1. LedgerTypeOK'
  BY DEF LedgerInv, LedgerTypeOK, Deposit, holds
<1>2. HeldHasHolder'
  BY DEF LedgerInv, HeldHasHolder, Deposit, holds
<1>3. Solvency'
  BY DEF LedgerInv, Solvency, LedgerTypeOK, Deposit
<1>4. Conservation'
  <2>1. ASSUME NEW v \in Users
        PROVE  (balance[v] + Cost * Cardinality(HeldJobs(v)) + spent[v] = purchased[v])'
    <3>1. HeldJobs(v)' = HeldJobs(v)
      BY HoldsKeepHeldJobs DEF Deposit
    <3> DEFINE h == Cost * Cardinality(HeldJobs(v))
    <3>2. h \in Int /\ h' = h
      BY <3>1, HeldJobsFinite, CreditsAssumption DEF CreditsAssumption
    <3>3. balance[v] + h + spent[v] = purchased[v]
      BY DEF LedgerInv, Conservation
    <3> HIDE DEF h
    <3>4. (balance[v] + h + spent[v] = purchased[v])'
      BY <3>2, <3>3 DEF LedgerInv, LedgerTypeOK, Deposit
    <3>5. QED
      BY <3>4 DEF h
  <2>2. QED
    BY <2>1 DEF Conservation
<1>5. QED
  BY <1>1, <1>2, <1>3, <1>4 DEF LedgerInv

(* A deduction moves credits from the balance to the spent total.          *)
LEMMA DeductInv ==
    ASSUME LedgerInv, NEW u \in Users, NEW a \in Int, DeductUserCredits(u, a)
    PROVE  LedgerInv'
<1>1. LedgerTypeOK'
  BY DEF LedgerInv, LedgerTypeOK, DeductUserCredits, holds
<1>2. HeldHasHolder'
  BY DEF LedgerInv, HeldHasHolder, DeductUserCredits, holds
<1>3. Solvency'
  BY DEF LedgerInv, Solvency, LedgerTypeOK, DeductUserCredits
<1>4. Conservation'
  <2>1. ASSUME NEW v \in Users
        PROVE  (balance[v] + Cost * Cardinality(HeldJobs(v)) + spent[v] = purchased[v])'
    <3>1. HeldJobs(v)' = HeldJobs(v)
      BY HoldsKeepHeldJobs DEF DeductUserCredits
    <3> DEFINE h == Cost * Cardinality(HeldJobs(v))
    <3>2. h \in Int /\ h' = h
      BY <3>1, HeldJobsFinite, CreditsAssumption DEF CreditsAssumption
    <3>3. balance[v] + h + spent[v] = purchased[v]
      BY DEF LedgerInv, Conservation
    <3> HIDE DEF h
    <3>4. (balance[v] + h + spent[v] = purchased[v])'
      BY <3>2, <3>3 DEF LedgerInv, LedgerTypeOK, DeductUserCredits
    <3>5. QED
      BY <3>4 DEF h
  <2>2. QED
    BY <2>1 DEF Conservation
<1>5. QED
  BY <1>1, <1>2, <1>3, <1>4 DEF LedgerInv

(* A new hold moves its cost from the balance to the held jobs.            *)
LEMMA CreateHoldInv ==
    ASSUME LedgerInv, NEW u \in Users, NEW j \in Jobs, CreateDeploymentHold(u, j)
    PROVE  LedgerInv'
<1>1. LedgerTypeOK'
  BY CreditsAssumption
  DEF CreditsAssumption, LedgerInv, LedgerTypeOK, HoldStatuses, CreateDeploymentHold
<1>2. HeldHasHolder'
  BY DEF LedgerInv, LedgerTypeOK, HeldHasHolder, CreateDeploymentHold
<1>3. Solvency'
  BY CreditsAssumption
  DEF CreditsAssumption, LedgerInv, LedgerTypeOK, Solvency, CreateDeploymentHold
<1>4. Conservation'
  <2>1. ASSUME NEW v \in Users
        PROVE  (balance[v] + Cost * Cardinality(HeldJobs(v)) + spent[v] = purchased[v])'
    <3> DEFINE n == Cardinality(HeldJobs(v))
    <3>1. n \in Nat /\ n' = IF v = u THEN n + 1 ELSE n
      BY HoldAddsOne, HeldJobsFinite DEF LedgerInv
    <3>2. balance[v] + Cost * n + spent[v] = purchased[v]
      BY DEF LedgerInv, Conservation
    <3> HIDE DEF n
    <3>3. Cost * n \in Int /\ Cost * (n + 1) = Cost * n + Cost
      BY <3>1, CreditsAssumption DEF CreditsAssumption
    <3>4. balance'[v] = (IF v = u THEN balance[v] - Cost ELSE balance[v])
          /\ spent' = spent /\ purchased' = purchased
      BY DEF LedgerInv, LedgerTypeOK, CreateDeploymentHold
    <3>5. balance[v] \in Int /\ spent[v] \in Int /\ purchased[v] \in Int /\ Cost \in Int
      BY CreditsAssumption DEF CreditsAssumption, LedgerInv, LedgerTypeOK
    <3>6. balance'[v] + Cost * n' + spent'[v] = purchased'[v]
      BY <3>1, <3>2, <3>3, <3>4, <3>5
    <3>7. QED
      BY <3>6 DEF n
  <2>2. QED
    BY <2>1 DEF Conservation
<1>5. QED
  BY <1>1, <1>2, <1>3, <1>4 DEF LedgerInv

(* A capture moves the cost of the hold from the held jobs to spent.       *)
LEMMA CaptureInv ==
    ASSUME LedgerInv, NEW j \in Jobs, CaptureDeploymentHold(j)
    PROVE  LedgerInv'
<1>1. holder[j] \in Users
  BY DEF LedgerInv, HeldHasHolder, CaptureDeploymentHold
<1>2. LedgerTypeOK'
  BY <1>1, CreditsAssumption
  DEF CreditsAssumption, LedgerInv, LedgerTypeOK, HoldStatuses, CaptureDeploymentHold
<1>3. HeldHasHolder'
  BY DEF LedgerInv, LedgerTypeOK, HeldHasHolder, CaptureDeploymentHold
<1>4. Solvency'
  BY <1>1, CreditsAssumption
  DEF CreditsAssumption, LedgerInv, LedgerTypeOK, Solvency, CaptureDeploymentHold
<1>5. Conservation'
  <2>1. ASSUME NEW v \in Users
        PROVE  (balance[v] + Cost * Cardinality(HeldJobs(v)) + spent[v] = purchased[v])'
    <3> DEFINE n == Cardinality(HeldJobs(v))
    <3>1. n \in Nat /\ n' = IF v = holder[j] THEN n - 1 ELSE n
      BY SettlementRemovesOne, HeldJobsFinite DEF LedgerInv, CaptureDeploymentHold
    <3>2. balance[v] + Cost * n + spent[v] = purchased[v]
      BY DEF LedgerInv, Conservation
    <3> HIDE DEF n
    <3>3. Cost * n \in Int /\ Cost * (n - 1) = Cost * n - Cost
      BY <3>1, CreditsAssumption DEF CreditsAssumption
    <3>4. spent'[v] = (IF v = holder[j] THEN spent[v] + Cost ELSE spent[v])
          /\ balance' = balance /\ purchased' = purchased
      BY DEF LedgerInv, LedgerTypeOK, CaptureDeploymentHold
    <3>5. balance[v] \in Int /\ spent[v] \in Int /\ purchased[v] \in Int /\ Cost \in Int
      BY CreditsAssumption DEF CreditsAssumption, LedgerInv, LedgerTypeOK
    <3>6. balance'[v] + Cost * n' + spent'[v] = purchased'[v]
      BY <3>1, <3>2, <3>3, <3>4, <3>5
    <3>7. QED
      BY <3>6 DEF n
  <2>2. QED
    BY <2>1 DEF Conservation
<1>6. QED
  BY <1>2, <1>3, <1>4, <1>5 DEF LedgerInv

(* A release moves the cost of the hold back to the balance.               *)
LEMMA ReleaseInv ==
    ASSUME LedgerInv, NEW j \in Jobs, ReleaseDeploymentHold(j)
    PROVE  LedgerInv'
<1>1. holder[j] \in Users
  BY DEF LedgerInv, HeldHasHolder, ReleaseDeploymentHold
<1>2. LedgerTypeOK'
  BY <1>1, CreditsAssumption
  DEF CreditsAssumption, LedgerInv, LedgerTypeOK, HoldStatuses, ReleaseDeploymentHold
<1>3. HeldHasHolder'
  BY DEF LedgerInv, LedgerTypeOK, HeldHasHolder, ReleaseDeploymentHold
<1>4. Solvency'
  BY <1>1, CreditsAssumption
  DEF CreditsAssumption, LedgerInv, LedgerTypeOK, Solvency, ReleaseDeploymentHold
<1>5. Conservation'
  <2>1. ASSUME NEW v \in Users
        PROVE  (balance[v] + Cost * Cardinality(HeldJobs(v)) + spent[v] = purchased[v])'
    <3> DEFINE n == Cardinality(HeldJobs(v))
    <3>1. n \in Nat /\ n' = IF v = holder[j] THEN n - 1 ELSE n
      BY SettlementRemovesOne, HeldJobsFinite DEF LedgerInv, ReleaseDeploymentHold
    <3>2. balance[v] + Cost * n + spent[v] = purchased[v]
      BY DEF LedgerInv, Conservation
    <3> HIDE DEF n
    <3>3. Cost * n \in Int /\ Cost * (n - 1) = Cost * n - Cost
      BY <3>1, CreditsAssumption DEF CreditsAssumption
    <3>4. balance'[v] = (IF v = holder[j] THEN balance[v] + Cost ELSE balance[v])
          /\ spent' = spent /\ purchased' = purchased
      BY DEF LedgerInv, LedgerTypeOK, ReleaseDeploymentHold
    <3>5. balance[v] \in Int /\ spent[v] \in Int /\ purchased[v] \in Int /\ Cost \in Int
      BY CreditsAssumption DEF CreditsAssumption, LedgerInv, LedgerTypeOK
    <3>6. balance'[v] + Cost * n' + spent'[v] = purchased'[v]
      BY <3>1, <3>2, <3>3, <3>4, <3>5
    <3>7. QED
      BY <3>6 DEF n
  <2>2. QED
    BY <2>1 DEF Conservation
<1>6. QED
  BY <1>2, <1>3, <1>4, <1>5 DEF LedgerInv

(* A step that does not touch the ledger keeps its invariant.              *)
LEMMA LedgerStutterInv ==
    ASSUME LedgerInv, UNCHANGED ledger
    PROVE  LedgerInv'
<1>1. \A u \in Users : HeldJobs(u)' = HeldJobs(u)
  BY DEF ledger, HeldJobs
<1>2. LedgerTypeOK' /\ HeldHasHolder' /\ Solvency'
  BY DEF LedgerInv, LedgerTypeOK, HeldHasHolder, Solvency, ledger
<1>3. Conservation'
  BY <1>1 DEF LedgerInv, Conservation, ledger
<1>4. QED
  BY <1>2, <1>3 DEF LedgerInv

(* Every operation of the ledger keeps the invariant.                      *)
LEMMA LedgerNextInv == LedgerInv /\ [LedgerNext]_ledger => LedgerInv'
<1> SUFFICES ASSUME LedgerInv, [LedgerNext]_ledger PROVE LedgerInv'
  OBVIOUS
<1>1. ASSUME NEW u \in Users, NEW a \in TopUps, AddUserCredits(u, a)
      PROVE  LedgerInv'
  BY <1>1, DepositInv, CreditsAssumption DEF AddUserCredits, CreditsAssumption
<1>2. ASSUME NEW u \in Users, NEW a \in TopUps, DeductUserCredits(u, a)
      PROVE  LedgerInv'
  BY <1>2, DeductInv, CreditsAssumption DEF CreditsAssumption
<1>3. ASSUME NEW u \in Users, NEW a \in Gifts, CreditCaller(u, a)
      PROVE  LedgerInv'
  BY <1>3, DepositInv, CreditsAssumption DEF CreditCaller, CreditsAssumption
<1>4. ASSUME NEW u \in Users, NEW j \in Jobs, CreateDeploymentHold(u, j)
      PROVE  LedgerInv'
  BY <1>4, CreateHoldInv
<1>5. ASSUME NEW j \in Jobs, CaptureDeploymentHold(j)
      PROVE  LedgerInv'
  BY <1>5, CaptureInv
<1>6. ASSUME NEW j \in Jobs, ReleaseDeploymentHold(j)
      PROVE  LedgerInv'
  BY <1>6, ReleaseInv
<1>7. CASE UNCHANGED ledger
  BY <1>7, LedgerStutterInv
<1>8. QED
  BY <1>1, <1>2, <1>3, <1>4, <1>5, <1>6, <1>7 DEF LedgerNext

(* The ledger's fields keep the types the code gives them.                 *)
THEOREM LedgerTyping == LedgerSpec => []LedgerTypeOK
<1>1. LedgerInv => LedgerTypeOK
  BY DEF LedgerInv
<1>2. QED
  BY <1>1, LedgerInitInv, LedgerNextInv, PTL DEF LedgerSpec

(* Every credit ever obtained is spendable, held or spent, at all times,   *)
(* whatever operations the registry runs and in whatever order.            *)
THEOREM LedgerConservation == LedgerSpec => []Conservation
<1>1. LedgerInv => Conservation
  BY DEF LedgerInv
<1>2. QED
  BY <1>1, LedgerInitInv, LedgerNextInv, PTL DEF LedgerSpec

(* No account ever goes below zero.                                        *)
THEOREM LedgerSolvency == LedgerSpec => []Solvency
<1>1. LedgerInv => Solvency
  BY DEF LedgerInv
<1>2. QED
  BY <1>1, LedgerInitInv, LedgerNextInv, PTL DEF LedgerSpec

(* A settled hold keeps its status and its holder for ever.                *)
THEOREM LedgerSettlementFinal == LedgerSpec => SettlementIsFinal
<1> DEFINE Final == \A j \in Jobs : holdStatus[j] \in {"captured", "released"} =>
                      holdStatus'[j] = holdStatus[j] /\ holder'[j] = holder[j]
<1>1. ASSUME LedgerTypeOK, LedgerNext PROVE Final
  <2>1. ASSUME NEW u \in Users, NEW a, Deposit(u, a) \/ DeductUserCredits(u, a)
        PROVE  Final
    BY <2>1 DEF Deposit, DeductUserCredits, holds
  <2>2. ASSUME NEW u \in Users, NEW j \in Jobs, CreateDeploymentHold(u, j)
        PROVE  Final
    BY <2>2, <1>1 DEF CreateDeploymentHold, LedgerTypeOK
  <2>3. ASSUME NEW j \in Jobs, CaptureDeploymentHold(j) \/ ReleaseDeploymentHold(j)
        PROVE  Final
    BY <2>3, <1>1 DEF CaptureDeploymentHold, ReleaseDeploymentHold, LedgerTypeOK
  <2>4. QED
    BY <1>1, <2>1, <2>2, <2>3 DEF LedgerNext, AddUserCredits, CreditCaller
<1>2. LedgerTypeOK /\ [LedgerNext]_ledger => [Final]_ledger
  BY <1>1
<1>3. QED
  BY <1>2, LedgerTyping, PTL DEF LedgerSpec, SettlementIsFinal
=============================================================================
