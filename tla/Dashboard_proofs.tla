-------------------------- MODULE Dashboard_proofs --------------------------
(***************************************************************************)
(* What the page that lists one owner's deployments keeps true for any     *)
(* jobs and realms, and any number of loads in flight at once.             *)
(***************************************************************************)
EXTENDS Dashboard, FiniteSetTheorems, WellFoundedInduction, TLAPS

(* A teardown that has ended well, and a card that is kept, are of a job   *)
(* that is gone for good.                                                  *)
GoneFirst == \A j \in Jobs : teardown[j] = "destroyed" \/ j \in records => life[j] = "gone"

DashInv == DashboardTypeOK /\ GoneFirst

----------------------------------------------------------------------------
(* The life of a job.                                                      *)

LEMMA LifeStepKeepsGone ==
    ASSUME life \in [Jobs -> LifeStatuses], NEW j \in Jobs, NEW s \in LifeStatuses,
           LifeStep(j, s)
    PROVE  /\ life' \in [Jobs -> LifeStatuses]
           /\ \A i \in Jobs : life[i] = "gone" => life'[i] = "gone"
<1>1. "gone" \notin Before(s)
  BY DEF Before, LifeStatuses, LiveStatuses, EndedStatuses
<1> QED
  BY <1>1 DEF LifeStep

(* The endpoints that the owner calls, and the destruction of a realm.     *)
LEMMA RequestsAreLifeSteps ==
    ASSUME NEW j \in Jobs, \/ Retried(j) \/ Deleted(j) \/ JobMoves(j) \/ InstallerDestroys(j)
    PROVE  \E s \in LifeStatuses : LifeStep(j, s)
BY DashboardAssumption
DEF Retried, Deleted, JobMoves, InstallerDestroys, LifeStatuses, LiveStatuses, EndedStatuses

----------------------------------------------------------------------------
(* Loads.                                                                  *)

Loads == [Slots -> {Idle} \union
                    [why : Reasons, list : {Unread} \union Rows, known : SUBSET Jobs]]

LEMMA AsksTyped ==
    ASSUME loads \in Loads, NEW s \in Slots, NEW why \in Reasons, Asks(s, why)
    PROVE  loads' \in Loads
<1>1. Asked(why) \in [why : Reasons, list : {Unread} \union Rows, known : SUBSET Jobs]
  BY DEF Asked
<1> QED
  BY <1>1 DEF Asks, Loads

LEMMA DedupedTyped ==
    ASSUME NEW list \in Rows, NEW known
    PROVE  Deduped(list, known) \in Rows
BY DEF Deduped, Rows

LEMMA JobsListTyped ==
    ASSUME life \in [Jobs -> LifeStatuses]
    PROVE  JobsList \in Rows
BY DEF JobsList, Rows, Listed

LEMMA LoadEndsTyped ==
    ASSUME loads \in Loads, polling \in BOOLEAN, retrying \in Jobs \union {Nobody},
           NEW s \in Slots, LoadEnds(s)
    PROVE  /\ loads' \in Loads /\ polling' \in BOOLEAN /\ retrying' \in Jobs \union {Nobody}
           /\ UNCHANGED <<jobs, deleting, destroys>>
<1>1. loads' \in Loads
  BY DEF LoadEnds, Loads
<1> QED
  BY <1>1 DEF LoadEnds

LEMMA LoadingInv ==
    ASSUME DashInv, NEW s \in Slots,
           \/ Polls(s) \/ ReadsJobs(s) \/ ShowsJobs(s) \/ LosesLoad(s)
    PROVE  DashInv'
<1> USE DEF DashInv
<1>0. loads \in Loads
  BY DEF DashboardTypeOK, Loads
<1>1. CASE Polls(s)
  <2>1. loads' \in Loads
    BY <1>0, <1>1, AsksTyped DEF Polls, Reasons
  <2> QED
    BY <1>1, <2>1 DEF Polls, asked, destroys, DashboardTypeOK, GoneFirst, jobs, Loads
<1>2. CASE ReadsJobs(s)
  <2>1. PICK load \in [why : Reasons, list : {Unread} \union Rows, known : SUBSET Jobs] :
          load = loads[s]
    BY <1>0, <1>2 DEF ReadsJobs, Loads
  <2>2. loads' = [loads EXCEPT ![s] = [load EXCEPT !.list = JobsList, !.known = backed]]
    BY <1>0, <1>2, <2>1 DEF ReadsJobs, Loads
  <2>3. [load EXCEPT !.list = JobsList, !.known = backed]
          \in [why : Reasons, list : {Unread} \union Rows, known : SUBSET Jobs]
    BY JobsListTyped DEF DashboardTypeOK
  <2>4. loads' \in Loads
    BY <1>0, <2>2, <2>3 DEF Loads
  <2> QED
    BY <1>2, <2>4 DEF ReadsJobs, asked, destroys, DashboardTypeOK, GoneFirst, jobs, Loads
<1>3. CASE ShowsJobs(s)
  <2>1. loads[s].list \in Rows
    BY <1>0, <1>3 DEF ShowsJobs, Loads, Idle
  <2>2. rows' \in Rows
    BY <1>3, <2>1, DedupedTyped DEF ShowsJobs
  <2> QED
    BY <1>0, <1>3, <2>2, LoadEndsTyped
    DEF ShowsJobs, destroys, DashboardTypeOK, GoneFirst, jobs, Loads
<1>4. CASE LosesLoad(s)
  BY <1>0, <1>4, LoadEndsTyped DEF LosesLoad, destroys, DashboardTypeOK, GoneFirst, jobs, Loads
<1> QED
  BY <1>1, <1>2, <1>3, <1>4

LEMMA ReloadInv ==
    ASSUME DashInv, Reload
    PROVE  DashInv'
<1>1. rows' \in Rows
  BY DEF Reload, NoRows, Rows
<1>2. loads' \in Loads
  BY DEF Reload, Loads, Asked, Idle, Reasons
<1> QED
  BY <1>1, <1>2 DEF Reload, DashInv, DashboardTypeOK, GoneFirst, jobs, Loads

----------------------------------------------------------------------------
(* What the owner does, and what becomes of it.                            *)

LEMMA JobMovesInv ==
    ASSUME DashInv, NEW j \in Jobs, JobMoves(j)
    PROVE  DashInv'
BY RequestsAreLifeSteps, LifeStepKeepsGone
DEF DashInv, DashboardTypeOK, GoneFirst, jobs, JobMoves, loaded, asked, destroys

LEMMA RetryInv ==
    ASSUME DashInv, NEW j \in Jobs,
           \/ AsksRetry(j) \/ RetryFails(j) \/ \E s \in Slots : RetryAccepted(j, s)
    PROVE  DashInv'
<1> USE DEF DashInv
<1>0. loads \in Loads
  BY DEF DashboardTypeOK, Loads
<1>1. CASE AsksRetry(j)
  BY <1>1 DEF AsksRetry, loaded, destroys, DashboardTypeOK, GoneFirst, jobs
<1>2. CASE RetryFails(j)
  <2>1. /\ life' \in [Jobs -> LifeStatuses]
        /\ \A i \in Jobs : life[i] = "gone" => life'[i] = "gone"
    BY <1>2, RequestsAreLifeSteps, LifeStepKeepsGone DEF RetryFails, DashboardTypeOK
  <2> QED
    BY <1>2, <2>1 DEF RetryFails, loaded, destroys, DashboardTypeOK, GoneFirst, jobs
<1>3. ASSUME NEW s \in Slots, RetryAccepted(j, s)
      PROVE  DashInv'
  <2>1. /\ life' \in [Jobs -> LifeStatuses]
        /\ \A i \in Jobs : life[i] = "gone" => life'[i] = "gone"
    BY <1>3, RequestsAreLifeSteps, LifeStepKeepsGone DEF RetryAccepted, DashboardTypeOK
  <2>2. loads' \in Loads
    BY <1>0, <1>3, AsksTyped DEF RetryAccepted, Reasons
  <2> QED
    BY <1>3, <2>1, <2>2 DEF RetryAccepted, asked, destroys, DashboardTypeOK, GoneFirst, jobs, Loads
<1> QED
  BY <1>1, <1>2, <1>3

LEMMA DeleteInv ==
    ASSUME DashInv, NEW j \in Jobs,
           \/ ConfirmsDelete(j) \/ DeleteAccepted(j) \/ DeleteFails(j)
    PROVE  DashInv'
<1> USE DEF DashInv
<1>1. CASE ConfirmsDelete(j)
  BY <1>1 DEF ConfirmsDelete, loaded, destroys, DashboardTypeOK, GoneFirst, jobs
<1>2. CASE DeleteAccepted(j)
  <2>1. /\ life' \in [Jobs -> LifeStatuses]
        /\ \A i \in Jobs : life[i] = "gone" => life'[i] = "gone"
    BY <1>2, RequestsAreLifeSteps, LifeStepKeepsGone DEF DeleteAccepted, DashboardTypeOK
  <2>2. rows' \in Rows
    BY <1>2 DEF DeleteAccepted, DashboardTypeOK, Rows
  <2> QED
    BY <1>2, <2>1, <2>2 DEF DeleteAccepted, destroys, DashboardTypeOK, GoneFirst, jobs
<1>3. CASE DeleteFails(j)
  <2>1. /\ life' \in [Jobs -> LifeStatuses]
        /\ \A i \in Jobs : life[i] = "gone" => life'[i] = "gone"
    BY <1>3, RequestsAreLifeSteps, LifeStepKeepsGone DEF DeleteFails, DashboardTypeOK
  <2> QED
    BY <1>3, <2>1 DEF DeleteFails, loaded, destroys, DashboardTypeOK, GoneFirst, jobs
<1> QED
  BY <1>1, <1>2, <1>3

(* The installer deletes the record before it says so.                     *)
LEMMA TeardownInv ==
    ASSUME DashInv, NEW j \in Jobs, InstallerDestroys(j) \/ InstallerRefuses(j)
    PROVE  DashInv'
<1> USE DEF DashInv
<1>1. CASE InstallerDestroys(j)
  <2>1. /\ life' \in [Jobs -> LifeStatuses]
        /\ \A i \in Jobs : life[i] = "gone" => life'[i] = "gone"
    BY <1>1, RequestsAreLifeSteps, LifeStepKeepsGone DEF DashboardTypeOK
  <2>2. life'[j] = "gone"
    BY <1>1 DEF InstallerDestroys, LifeStep, DashboardTypeOK
  <2> QED
    BY <1>1, <2>1, <2>2 DEF InstallerDestroys, loaded, asked, DashboardTypeOK, GoneFirst, jobs
<1>2. CASE InstallerRefuses(j)
  BY <1>2 DEF InstallerRefuses, loaded, asked, DashboardTypeOK, GoneFirst, jobs
<1> QED
  BY <1>1, <1>2

LEMMA FinishesInv ==
    ASSUME DashInv, NEW j \in Jobs, NEW s \in Slots, DestroyReturns(j, s) \/ WaitSeesGone(j, s)
    PROVE  DashInv'
<1> USE DEF DashInv
<1>1. life[j] = "gone" /\ Finishes(j, s)
  BY DEF DestroyReturns, WaitSeesGone, GoneFirst
<1>2. loads' \in Loads
  BY <1>1, AsksTyped DEF Finishes, Reasons, DashboardTypeOK, Loads
<1>3. teardown' \in [Jobs -> {"none", "running", "destroyed", "refused", "benign"}]
      /\ \A i \in Jobs : teardown'[i] = "destroyed" => teardown[i] = "destroyed"
  BY DEF DestroyReturns, WaitSeesGone, DashboardTypeOK
<1> QED
  BY <1>1, <1>2, <1>3 DEF Finishes, asked, DashboardTypeOK, GoneFirst, jobs, Loads

LEMMA DestroyInv ==
    ASSUME DashInv, NEW j \in Jobs,
           \/ RunsDestroy(j) \/ DestroyFails(j) \/ DestroyIsAmbiguous(j) \/ WaitFails(j)
           \/ AnswerDropped(j) \/ DismissesCard(j)
    PROVE  DashInv'
BY DEF DashInv, DashboardTypeOK, GoneFirst, jobs, RunsDestroy, DestroyFails, DestroyIsAmbiguous,
   WaitFails, AnswerDropped, DismissesCard, loaded, asked, destroys

----------------------------------------------------------------------------
LEMMA DashInvInit == DashboardInit => DashInv
<1> SUFFICES ASSUME DashboardInit PROVE DashInv
  OBVIOUS
<1>1. rows \in Rows
  BY DEF DashboardInit, NoRows, Rows
<1>2. loads \in Loads
  BY DEF DashboardInit, Loads, Asked, Idle, Reasons
<1>3. life \in [Jobs -> LifeStatuses]
  BY DEF DashboardInit, LifeInit, LifeStatuses
<1> QED
  BY <1>1, <1>2, <1>3 DEF DashboardInit, DashInv, DashboardTypeOK, GoneFirst, jobs, Loads

LEMMA DashInvNext == DashInv /\ [DashboardNext]_dashboardVars => DashInv'
<1> SUFFICES ASSUME DashInv, [DashboardNext]_dashboardVars PROVE DashInv'
  OBVIOUS
<1>1. CASE UNCHANGED dashboardVars
  BY <1>1 DEF dashboardVars, loaded, asked, destroys, DashInv, DashboardTypeOK, GoneFirst, jobs
<1>2. CASE DashboardNext
  BY <1>2, LoadingInv, ReloadInv, JobMovesInv, RetryInv, DeleteInv, TeardownInv, FinishesInv,
     DestroyInv DEF DashboardNext, OnJob
<1> QED
  BY <1>1, <1>2

(* The invariant holds for any number of jobs and loads in flight.         *)
THEOREM DashboardInvariant == DashboardSpec => []DashInv
BY DashInvInit, DashInvNext, PTL DEF DashboardSpec

(* The page's state is well typed.                                         *)
THEOREM DashboardTyping == DashboardSpec => []DashboardTypeOK
BY DashboardInvariant, PTL DEF DashInv

(* A card says "destroyed" only of a realm whose job the installer has     *)
(* deleted, with any number of realms destroyed and answers lost at once.  *)
THEOREM CardsOfDestroyedAreTrue == DashboardSpec => []DestroyedCardMeansGone
<1>1. DashInv => DestroyedCardMeansGone
  BY DEF DashInv, DashboardTypeOK, GoneFirst, DestroyedCardMeansGone, Card, Rows, Listed,
     LifeStatuses, LiveStatuses, EndedStatuses
<1> QED
  BY <1>1, DashboardInvariant, PTL

(* What the owner asks from a stale row takes no success back: only the    *)
(* teardown of a realm does, with any number of jobs, loads and requests,  *)
(* as long as a completed job does not move by itself.                     *)
THEOREM SuccessesStay ==
    ASSUME "completed" \in Settled
    PROVE  DashboardSpec => SuccessIsNotUndone
<1> DEFINE Kept(j) ==
        life[j] = "completed" /\ life'[j] # "completed" => teardown[j] = "running" /\ life'[j] = "gone"
<1>1. ASSUME DashInv, [DashboardNext]_dashboardVars, NEW j \in Jobs
      PROVE  Kept(j)
  <2>1. CASE life' = life
    BY <2>1
  <2>2. ASSUME NEW i \in Jobs, JobMoves(i) \/ Retried(i) \/ Deleted(i)
        PROVE  Kept(j)
    BY <1>1, <2>2 DEF JobMoves, Retried, Deleted, LifeStep, Failures, DashInv, DashboardTypeOK
  <2>3. ASSUME NEW i \in Jobs, InstallerDestroys(i)
        PROVE  Kept(j)
    BY <1>1, <2>3 DEF InstallerDestroys, LifeStep, DashInv, DashboardTypeOK
  <2>4. ASSUME NEW i \in Jobs, OnJob(i)
        PROVE  \/ life' = life
               \/ JobMoves(i) \/ Retried(i) \/ Deleted(i) \/ InstallerDestroys(i)
    BY <2>4
    DEF OnJob, AsksRetry, RetryAccepted, RetryFails, ConfirmsDelete, DeleteAccepted, DeleteFails,
        InstallerRefuses, RunsDestroy, Finishes, DestroyReturns, DestroyFails, DestroyIsAmbiguous,
        WaitSeesGone, WaitFails, AnswerDropped, DismissesCard, jobs
  <2>5. CASE \/ UNCHANGED dashboardVars \/ Reload
             \/ \E s \in Slots : Polls(s) \/ ReadsJobs(s) \/ ShowsJobs(s) \/ LosesLoad(s)
    BY <2>1, <2>5
    DEF dashboardVars, Reload, Polls, ReadsJobs, ShowsJobs, LosesLoad, LoadEnds, jobs
  <2>6. \/ \E i \in Jobs : OnJob(i)
        \/ UNCHANGED dashboardVars \/ Reload
        \/ \E s \in Slots : Polls(s) \/ ReadsJobs(s) \/ ShowsJobs(s) \/ LosesLoad(s)
    BY <1>1 DEF DashboardNext
  <2> HIDE DEF Kept
  <2> QED
    BY <2>1, <2>2, <2>3, <2>4, <2>5, <2>6
<1>2. DashInv /\ [DashboardNext]_dashboardVars =>
        [\A j \in Jobs : Kept(j)]_dashboardVars
  BY <1>1
<1> QED
  BY <1>2, DashboardInvariant, PTL DEF DashboardSpec, SuccessIsNotUndone

----------------------------------------------------------------------------
(***************************************************************************)
(* The rows of a list.  Precedes orders the jobs of a list strictly and    *)
(* totally, so of the finitely many jobs of a group one is first: it is    *)
(* the one that is shown.                                                  *)
(***************************************************************************)

LEMMA PrecedesIsAnOrder ==
    ASSUME NEW list, NEW i \in Jobs, NEW j \in Jobs, NEW k \in Jobs
    PROVE  /\ ~ Precedes(i, i, list)
           /\ Precedes(i, j, list) /\ Precedes(j, k, list) => Precedes(i, k, list)
           /\ i # j => Precedes(i, j, list) \/ Precedes(j, i, list)
<1>1. \A s : Priority(s) \in Nat
  BY DEF Priority
<1> QED
  BY <1>1, DashboardAssumption DEF Precedes

(* The jobs that compete with j for the row of its group.                  *)
Ahead(j, list, known) == {i \in Group(j, list, known) : Precedes(i, j, list)}

(* Whoever is ahead of j has fewer ahead of it.                            *)
LEMMA FewerAhead ==
    ASSUME NEW list, NEW known, NEW j \in Jobs, NEW i \in Ahead(j, list, known)
    PROVE  /\ Cardinality(Ahead(i, list, known)) \in Nat
           /\ Cardinality(Ahead(j, list, known)) \in Nat
           /\ Cardinality(Ahead(i, list, known)) < Cardinality(Ahead(j, list, known))
<1>1. Ahead(i, list, known) \subseteq Ahead(j, list, known) /\ i \notin Ahead(i, list, known)
  BY PrecedesIsAnOrder DEF Ahead, Group
<1>2. IsFiniteSet(Ahead(i, list, known)) /\ IsFiniteSet(Ahead(j, list, known))
  BY JobsAssumption, FS_Subset DEF Ahead, Group
<1>3. /\ Cardinality(Ahead(i, list, known)) <= Cardinality(Ahead(j, list, known))
      /\ Cardinality(Ahead(i, list, known)) # Cardinality(Ahead(j, list, known))
  BY <1>1, <1>2, FS_Subset
<1> QED
  BY <1>2, <1>3, FS_CardinalityType

(* Some job of each group is ahead of all the others.                      *)
LEMMA SomeJobIsFirst ==
    ASSUME NEW list, NEW known, NEW j \in Jobs, list[j] # "absent"
    PROVE  \E first \in Group(j, list, known) : Ahead(first, list, known) = {}
<1> DEFINE Counts == {Cardinality(Ahead(i, list, known)) : i \in Group(j, list, known)}
<1>1. Counts \subseteq Nat
  BY JobsAssumption, FS_Subset, FS_CardinalityType DEF Ahead, Group
<1>2. Counts # {}
  BY DEF Group
<1>3. PICK least \in Counts : \A n \in Counts : ~ (<<n, least>> \in OpToRel(<, Nat))
  BY <1>1, <1>2, WFMin, NatLessThanWellFounded, Zenon
<1>4. \A n \in Counts : ~ (n < least)
  BY <1>1, <1>3 DEF OpToRel
<1>5. PICK first \in Group(j, list, known) : least = Cardinality(Ahead(first, list, known))
  OBVIOUS
<1>6. \A i \in Ahead(first, list, known) : i \in Group(j, list, known)
  BY <1>5 DEF Ahead, Group
<1>7. Ahead(first, list, known) = {}
  BY <1>4, <1>5, <1>6, FewerAhead DEF Group
<1> QED
  BY <1>5, <1>7

(* dedupeDeploymentRows keeps exactly one row of each group, the jobs of   *)
(* one backend or of one name without a backend, as it was listed, and it  *)
(* is the row that precedes all the others of the group: none is hidden by *)
(* a row that is itself hidden, and no job is hidden by another group's.   *)
THEOREM EachGroupHasItsRow ==
    ASSUME NEW list \in Rows, NEW known, NEW j \in Jobs, list[j] # "absent"
    PROVE  \E first \in Group(j, list, known) :
             /\ Deduped(list, known)[first] = list[first]
             /\ \A i \in Group(j, list, known) \ {first} :
                  Deduped(list, known)[i] = "absent" /\ Precedes(first, i, list)
<1>1. PICK first \in Group(j, list, known) : Ahead(first, list, known) = {}
  BY SomeJobIsFirst
<1>2. Deduped(list, known)[first] = list[first]
  BY <1>1 DEF Ahead, Group, Deduped
<1>3. ASSUME NEW i \in Group(j, list, known) \ {first}
      PROVE  Precedes(first, i, list) /\ Deduped(list, known)[i] = "absent"
  <2>1. Precedes(first, i, list)
    BY <1>1, PrecedesIsAnOrder DEF Ahead, Group
  <2> QED
    BY <2>1 DEF Group, Deduped
<1> QED
  BY <1>1, <1>2, <1>3
=============================================================================
