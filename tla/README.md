# Formal models of gos-as-a-service

TLA+ models of the system that sells and deploys realms: the two canisters (the realm
registry, `src/realm_registry_backend`, and the realm installer,
`src/realm_installer`) and the pages of the registry's portal that act on them
(`src/realm_registry_frontend`), with the TLC runs that check them on small instances
and the TLAPS proofs that hold for every instance. Paths below are relative to the
repository root.

    tlc -workers 2 -config Installer.cfg MCInstallerJobs    # one run
    tlapm InstallerJobs_proofs.tla                          # one proof module

`PROJECT.json` lists the runs, the source lines behind every definition, the
mutants that break each property, the hazards of the code and the theorems.

## 1. The system

A user buys credits, fills in the wizard's form, the registry asks the installer for a
realm, the installer builds it, and the portal's pages follow.

    wizard ──request_deployment──▶ registry ──enqueue_deployment──▶ installer ──▶ Casals
    billing ──add_credits──▶ ledger  ◀──deployment_succeeded/failed── (timer)    realm
    tracker, dashboard ───────────────── queries, retry, destroy ──▶ installer
    assistant ──▶ chat service (external)

The canisters are single-threaded: a message runs to its next `await` (`yield`)
without interruption, and anything may run before it resumes. Timers are messages
too. An upgrade drops every timer and every suspended call and keeps the stored
entities. The pages are single-threaded in the same way, with answers that come late, in
another order or never, and with handlers that go on after their page was left. Nearly
everything that is hard about this code comes from these facts.

### Inventory

| part | state | operations | what is hard | what makes it correct |
|---|---|---|---|---|
| credit ledger, `api/credits.py` | `UserCredits`, `DeploymentCreditHold` | add, deduct, hold, capture, release | repeated and contradictory settlements | credits are conserved, never overdrawn, a settlement is final |
| requests, registry `main.py:730`, `:927` | the suspended call | balance check, enqueue, hold, cancel | check before an await, act after it | an accepted call has paid |
| settlement, `core/env_config.py:176` | none | capture or release, installer only | lost, late and repeated reports | hold and job agree when the dust has settled |
| job queue, installer `main.py` | `DeploymentJob` | enqueue, cancel, finalize, report failure, retry | endpoints race with suspended passes | a completed job stays completed; every job ends |
| provisioning, `main.py:2582`, `provision_kick.py` | the lock `provision_active_at`, kick timers | kick, re-check, heartbeat | two passes for one job; a lock left by an upgrade | one pass at a time |
| deploy task, `main.py:1220`, `deploy_resume.py` | `DeployTask`, `DeployStep`, `_retry_counts`, runner timers | build, carry over, resume, run, retry, finish | two runners of one task; a task without any; a step done whose answer is lost | a task under way has a runner; what is recorded is true and stays; only a bootstrapped realm is registered |
| registration, `main.py:620` | timer | register realm, claim slug, complete | a job that ended meanwhile | a registering job is driven |
| off-chain reports, `main.py:2808`, `:2903` | the suspended handler | canister ready, frontend verified | status written after an await | as for passes |
| upgrade hook, `main.py:3000` | - | re-arm runners and heartbeat | what is not re-armed is lost | nothing unfinished is left without a driver |
| wizard, `deploy-gos/+page.svelte`, `deployment-request-recovery.js`, `network-retry.js` | form, gate, clicks, overlay | walk the form, deploy, resend, recover, time out | ambiguous answers; a handler that outlives its page | what is deployed is valid; every click is answered |
| tracker page, `deployment-tracker.js`, `deployment-progress.js`, `deployment-attempt-memory.js` | rows, polls, memory in the browser | load, poll, show, remember | polls that overlap or fail; a job that reopens | the bar moves forward; the end is shown |
| dashboard, `my-dashboard/+page.svelte`, `installer-queue.js` | rows, loads | load, retry, delete | stale rows; one card for several jobs of a realm | cards catch up |
| realm destruction, `installer-queue.js:330`, `realm-destroy-*.js` | active destroys, cards in the browser | destroy, wait, dismiss | an answer lost after minutes | a card says destroyed only if the realm is gone |
| assistant, `RegistryAssistant.svelte` | chats, questions on their way | open, new, remove, send | every handler awaits the session first | one question per chat, and it ends |
| vouchers, invitations, `api/vouchers.py`, `api/invitations.py` | codes | issue, redeem, revoke | nothing: one message, one row | only their effects appear (section 5) |
| realm records, slugs, listings, version catalogue, runtime flags | rows | write in one message | nothing | not modelled (section 5) |
| Casals, realm backends, management canister, chat service | external | | | modelled from how the code uses them |

## 2. Modules

| module | models | extends |
|---|---|---|
| `JobIds` | the set of job ids | |
| `Credits` | the ledger | `JobIds` |
| `InstallerJobs` | the job queue of the installer | `JobIds` |
| `DeployTasks` | the deploy tasks of one realm, step by step | |
| `JobLife` | abstract: which status of a job may follow which, as a query sees it | `JobIds` |
| `Deployment` | the registry's calls, both components, and the messages between them | `Credits`, `InstallerJobs` |
| `JobQueries` | jobs with the fields that the installer's queries return | `JobLife` |
| `DeploymentView` | bar, label, stages and attempt memory, as functions of a record | `JobQueries` |
| `Tracker` | the page that follows one deployment | `DeploymentView` |
| `Dashboard` | the page of an owner's deployments, destruction included | `JobLife` |
| `Wizard` | the page that asks for a deployment | |
| `Assistant` | the chat | |
| `MC*` | the constants of the runs | |
| `*_proofs` | the theorems (section 4) | the module they are about |

Two specifications are abstract and shown to be implemented. `LedgerSpec` of `Credits` is
what the registry promises about money, and `Deployment` implements it. `LifeSpec` of
`JobLife` is what everybody outside the installer may rely on: `InstallerJobs` implements
it with `Life == INSTANCE JobLife WITH life <- [j \in Jobs |-> job[j].status]`, and the
pages are modelled against it: every step of a job in `JobQueries` and `Dashboard` is a
`LifeStep` by definition. So the portal's models need not carry the installer's, and what
they assume of it is what the installer does.
`DeployTasks` opens up what `InstallerJobs` has as one "active" task, and closes what
`InstallerJobs` has in detail: of a job it keeps only what a task depends on.

### Credits

Variables are the fields of the two entities. Each operation of `api/credits.py` runs
inside one message, so each is one action; a refused operation changes nothing and
needs none. `HoldGranted` is the answer of `create_deployment_hold`, which for a job
that already has a hold depends only on that hold. The transaction log is written and
never read by an operation, and is left out. `DEPLOYMENT_COST_CREDITS` and
`UPGRADE_COST_CREDITS` are both 5; `Cost` is any positive number.

### InstallerJobs

`job` maps each id to a record: the stored fields that steer control (`status`, the
age of the lock, `settlement_notified`, the task's status) and, next to them, what is
in flight for the job: armed kicks, suspended passes by the await they wait in, armed
and running step runners, registrations, suspended reports and settlements. In-flight
things of one kind have no identity of their own, so they are counted.

One action per segment between awaits:

* `Enqueue*` is `enqueue_deployment` after its preflight; `Kick*` a kick timer with the
  three ways `provision_kick_runner` can end; `Pass*` the rest of a provisioning pass,
  which never looks at the job's status again; `LeavePass` the `finally` that clears the
  lock, whoever holds it.
* `Runner*` is `_schedule_step_runner`. The steps of a task are abstracted to "some are
  left", "none is left" and "one failed"; `queued` and `active` distinguish a task that
  never completed a step, which is all the reconciler asks. (`DeployTasks` has the steps
  one by one, `JobQueries` what queries show of them.)
* `Registration*`, `Settlement*`, `Report*`/`*StatusRead` and the endpoints follow.
* `Heartbeat` ticks for all jobs in one message. It re-kicks, then fails the stranded.
  `old` are the jobs that are older than 30 minutes.
* `Upgrade` keeps the stored fields and drops the rest. `Realm` says which jobs are of one
  realm: of their unfinished tasks one is queued again with a runner, the others are set
  waiting (`AfterUpgrade`; "held" is a waiting task that has completed a step). Nothing
  queues a waiting task afterwards but a resume or another upgrade. A new task may take over
  the completed steps of another one of its realm (`MayCarryOver`).

`Faults` and `Interventions` say which failures happen and which endpoints are called,
so that a run can name the conditions under which its property holds. Two of the faults
are nobody's failure but bad moments of the code's own timers: a kick that fires beside
another (`"second_kick"`) and a heartbeat that finds an old job whose task is young
(`"early_heartbeat"`). The stand at Casals is
`building`, `built`, `stalled` (stopped with a member missing) or `broken` (stopped with
all of them installed), which is what `stand_readiness` and `stand_build_gate` tell apart.

Every job names its registry (`registry_canister_id`), as `request_deployment` and
`request_upgrade` make sure; a job that a controller enqueues without one is not
modelled: its settlements return at once and its registration fails.

### DeployTasks

Jobs here are deployments of one realm by its owner: a name asked for twice gives two
jobs, two tasks and one stand. `task` are the stored records, `retried` the counts that
live in memory, `runner` the step runners, armed or suspended, `filing` the registrations,
`realm` what was really done. A suspended runner is about to read the realm's stage
(`checking`), has called the realm (`asking`), or has an answer that it has not read yet;
between the last two the record and the realm differ, and there an upgrade loses the one
and keeps the other.

* `Steps` is the list of `_build_steps`. `Build` makes a task, with the completed steps of
  the task of the realm that got furthest (`Furthest`, `CarriedOver`); `Resume` queues the
  recorded task again, after `StepsToReset`.
* `Proceeds` is the loop of the runner: the next pending step is marked as running before
  its call, or the task ends, its verdict decides on the job, and a registration is armed.
* A runner that is "armed" has a timer without delay, and nobody looks at the task before
  it has fired (`NoneDue`); one that waits to retry a step is "delayed", and may be overtaken.
* `RealmRuns` is the realm: steps of the kinds `DoneOnce` are done once, and their second
  rejection is told from others by its text (`step_already_satisfied`). Extensions and
  grants may be repeated.
* `Register` completes its job whatever became of it once it is under way; if the job had
  ended before, it does nothing.
* `Upgrade` drops runners, counts and registrations; of the calls on their way the realm
  may run any. One unfinished task is driven again, the others wait. Start times decide
  which one; here it is any of those that were queued or running.

A resume normally follows the end of the last runner, and later than the 15 minutes after
which a step's record counts as stale. The fault `hasty_resume` drops that: it is what
happens when a job is failed from outside and retried while its runner is suspended.

### Deployment

`call` holds each `request_deployment` or `request_upgrade`: admitted on a balance that
is only looked at, suspended in the installer (`EnqueueArrives`, `EnqueueAnswers`),
resumed with the hold or the cancel (`CallResumes`, `CancelArrives`). Any two calls may
get the same job id, as ids are made of the second, the requester and the realm's name.
A settlement leaves the installer (`wire`), changes the ledger, and its answer returns
(`reply`). `InstallerWorks` are the steps of `InstallerJobs` that concern nobody else,
`Billing` those of `Credits`. `everCompleted` and `everFailed` are history variables.

Deployment and upgrade differ in the checks before the first await, which are not
modelled apart from the balance (for upgrades: stage, cycles and version of the realm).

### JobQueries, DeploymentView and Tracker

`JobQueries` adds to a job's status the stored fields that the pages read: the error
(only what the pages look for in its text), when the attempt began and ended, which
canisters are known, the steps of the task. `Turns` says which turns a deployment may
take besides succeeding. Time counts only beginnings and ends of attempts, which is all
that a page compares.

`DeploymentView` is the pure part of the page, as operators on a record: percentages
are computed with the code's own slices and rounding.

`Tracker` loads the job, then polls it every five seconds (`Ticks`), whether or not the
last poll was answered. A poll is two queries with an await each. A poll that is answered
after its page was left still writes the memory that the next visit reads. Of a query that
failed, and of a job without a record, the page learns nothing and keeps what it shows.

### Dashboard

Rows are the last answered list; a load reads all jobs at one moment and shows them at a
later one, and two loads may be answered in the other order. The page polls while a row
is active or failed. Retry, delete and destroy are decided by the row as shown and
carried out by the installer on the job as it is. A destruction takes minutes: its call may
be answered, lost, or answered with an error that says that the job is unknown, and the
browser concludes from the missing record that the realm is gone (`records`). One card
stands for the jobs of a group; which row it shows is `deploymentRowPriority`, then age.
A group is the jobs of one backend, or of one name as long as their records have no
backend (`GroupKey`; `backed` are the jobs whose records have one, `known` those of which
an answered list says so): a job leaves the group of its name when its canisters are made.

### Wizard

Form, gate and overlay are the page's; `clicks` are runs of `handleAutomaticDeploy`,
`requests` what became of each `request_deployment` in the registry. A request may be
refused, taken and answered, taken and its answer lost, or answered ambiguously; after a
broken connection it is sent again, after an ambiguous answer the newest job of the same
caller is adopted, after two minutes the click is given up while its requests go on. The
newest job may be one of another tab (`OtherTabDeploys`). The handler goes on when the page
was left. "automatic" stands for "european" too. The
registry of this repository has no draft endpoints, so saving a draft changes nothing.
Whether the credits suffice is left to the registry's refusal.

### Assistant

Every handler awaits the session before it does anything, and resumes with whatever is on
screen by then. `messages` is the set of conversations whose messages are shown: the
answer to a transcript request is shown in the chat on screen, whichever was asked for. A
send is `touch` (list the chat), `ask` (the request, aborted after
`CHAT_REQUEST_TIMEOUT_MS`) and `text` (the answer arriving). A question goes on in the
background when its chat is left. The service that keeps the chats is external.

## 3. Runs

| run | shows |
|---|---|
| `installer` | one job, every endpoint, off-chain reports, upgrades and every failure but a pass that outlives its lock: `OnePassHoldsTheLock`, a task that is queued or under way has a runner (`UnfinishedTaskHasRunner`), and a query sees a life of `JobLife` (`ImplementsLife`) |
| `deployment_settles` | two calls race for one id and one balance; owners cancel, retry, finalize, report failures and provision again; every failure of the installer but its upgrade, second kicks and early heartbeats included; answers are lost and the registry is upgraded: `SettledAsItEnded`, a registering job has a registration on its way (`RegisteringIsDriven`), and the ledger is implemented (`LedgerSpec`) |
| `deployment_ends` | two calls under fairness, with failing builds, steps and registrations and badly timed kicks and heartbeats: every job ends for good (`EveryJobEnds`) and every accepted call's hold is settled (`HoldIsSettled`), unless the build stops again and again |
| `deployment_losses` | lost answers, upgrades of both canisters, cancels, retries, top-ups up to and above the limit: `Conservation`, `Solvency`, `SettlementIsFinal`, `AcceptedCallHasPaid`, `CapturedOnlyIfCompleted`, a completed job stays completed (`CompletedIsFinal`), and the installer is implemented (`Spec`) |
| `deploy_tasks` | two jobs of one realm with three steps each, refusals, retries, dying runners, failed reports and registrations, a launch, an upgrade that must choose between the two tasks, but no hasty resume: a task that is queued or under way has a runner (`TaskHasRunner`), `RecordIsTrue`, `RegisteredIsBootstrapped`, `AdminBeforeLaunch`, `CompletedStepStays`, and the retry count (`DeployTasksTypeOK`) |
| `tracker` | every turn, failing queries, leaving and returning: `ProgressMovesForward`, `RetryClockFollowsFailure`; and under fairness who keeps the page open sees the job complete (`EndIsShown`) |
| `dashboard` | one job that may fail, be cancelled, fail its verification and be revived, two overlapping loads, every request of the owner: `DestroyedCardMeansGone`, `CardsCatchUp`, and nothing asked from a stale row undoes a success (`SuccessIsNotUndone`) |
| `wizard` | two users, two clicks, two visits, and a job of the same name that one of the users makes in another tab: `DeploysValidForm`, `OverlayHasDeployment`, `FollowsOwnJob`, `EveryClickIsAnswered` |
| `assistant` | two chats, two questions: `OneSendPerChat`, `ScreenIsRemembered`, `EverySendEnds` |

Each component's type invariant is checked by one of its runs.
Each property has a mutant, a plausible bug in one definition (a dropped guard, a
lock claimed after the await, a swapped outcome, a stop that is forgotten), that makes its
run fail.

Two properties are about the same promise. `SettledAsItEnded` holds: once nothing about
the settlement of a job is on its way, its hold is captured if the job was only ever
completed, released if it only ever failed or was cancelled, and one of the two if it ended
twice. `SettledAsReported`, that the hold agrees with what the job is *now*, is what the
README promises, and fails wherever a job ends twice or a report is lost.

Three runs end in a violation. Each states what the repository says, and TLC shows a
behaviour of the code that differs:

* `deployment_retry` (`SettledAsReported`). `retry_deployment` makes no new hold, and
  `settlement_notified` is still set: a job that completes at the second attempt was paid
  back after the first. (`README.md:59`: the registry "holds credits at enqueue time and
  settles when the installer reports success or failure".)
* `deploy_hasty` (`RegisteredIsBootstrapped`). A job is failed by the heartbeat or a report while
  its runner is suspended in a young step, and is retried. The resume leaves that step as
  running and queues the task for a second runner. The runner that finds nothing pending ends
  the task while the other one is still in a step. A running step counts neither as done nor
  as failed, so the task is "partial", nothing of the bootstrap is "broken", and the realm
  is registered without the step. (`deploy_resume.py:120`: "a resume can never race a pass
  that is still in flight"; `:182`: such a realm "is not deployed — registering it (and
  capturing the credits) would bury the problem".)
* `tracker_partial` (`PartialIsNotComplete`). A failed extension is noted in the job's error, and
  the registration that follows clears every error before it completes the job: the page
  shows "Complete". (`deployment-progress.js:124`: what went wrong "must not be presented as a
  finished deployment".)

### Bounds

`MaxKicks`, `MaxPasses`, `MaxRunners` and `MaxSettle` bound what is in flight for one
job; a step that would go beyond them is not taken. Two kicks and two passes let
each overlap with another of its kind, which is what the lock is about; `deployment_losses`
and `deployment_ends` have two kicks, passes and runners as well. `deployment_settles` has
two kicks, which is what a second one takes, and one of the rest: what is new there is the
messages between the canisters. The jobs of an installer are independent of each other but for
two things: an upgrade chooses between the tasks of a realm, and a new task may take over
the steps of another. `deploy_tasks` is the run with two jobs of one realm, where both are
modelled step by step; the runs of the job queue have one job, and what two jobs do there
(`AfterUpgrade`, `MayCarryOver`) is in the theorems, `TasksAreRun` above all. The heartbeat
looks at each job by itself. Two
calls are enough to race for a balance and for an id. `MaxPurchased` bounds lifetime credits;
with `Cost = 1` there is a caller who can pay and one who cannot. `OneOrTooMuch` offers a
top-up at the limit and one above it. `CompletedIsFinal` is checked where callers cancel and
retry and Casals provisions; together with the endpoint `provision` (which kicks a job a second
time) a retry can let a completed job fail, which is why its theorem assumes that nobody
reopens a job. The theorems about these modules hold for all values
of the bounds.

`DeployTasks`: one runner per task suffices without hasty resumes (that there is never a
second one is part of the inductive invariant), one registration per job under way, one
upgrade and one retry (`MaxRetries`, 5 in the code) show each of them lost, repeated or at
its limit; `Flaky` names the steps that may fail to be reached, and the one it has reads the
stage first. Two jobs suffice to take over from one another. The theorems hold for all
values, and for every list of extensions and codices.

`Tracker`: `MaxTime = 4` allows a failure, a retry and another end. One visit that may be
left and whose answers come late is enough for the clock (the memory outlives it).
`Overlap = 1` is a bound with a meaning: with two polls in flight an older answer may come
last, and then the bar goes back and old rows are shown for five seconds;
`ProgressMovesForward` says that nothing else moves it back. With two visits, an answer
of the page that was left, next to a memory that is newer, may make the page say
"Retrying automatically" of a row without a failure; the properties still hold there.
One step is pending, running, done or failed, with or without its answer, which moves the
bar through every slice of it; `tracker_partial` has two, of which one fails.

`Dashboard`: two loads suffice to answer in the other order. One job is enough for what the
run checks, as each card follows its own job; which of several jobs keeps the card of their
group is the theorem `EachGroupHasItsRow`. `Taken` are the statuses that jobs pass through:
one that is under way, as the page treats those alike, and every end. `Requests` bounds
what the owner asks for.

`Wizard`: each of the users in `Others` makes one job in another tab; the users are alike, so
that one of them suffices to be the user of a click or another. The second click may send twice,
so that a job of its first request, of the first click and of the other tab meet there.
After the last click nobody edits the form, signs in or out, or
returns to the wizard (`ClickLeft`), since nothing but a late job could follow from it. `Assistant`: one
old chat and one new, two questions, one transcript and one click on "New chat" on
their way.

Deadlock is not checked: every model may stop, when all jobs have ended or when its user
does nothing more.

### Fairness

Canisters: timers fire, suspended calls are answered and the heartbeat re-arms itself
(`main.py:2577`): weak fairness of each handler. Casals finishes with a declared stand
(weak fairness of `ConductorBuilds`). A runner retries a step at most `_MAX_RETRIES`
times (`main.py:1242`), which the model does not count: strong fairness of
`RunnerFinishes`. No fairness is assumed of any endpoint, failure or upgrade.

What the two runs about settlement leave out. `ReplyFirst`, in every run: the answer to
`enqueue_deployment` is not overtaken by the settlement that a failed preflight arms in
the same message (the platform orders requests, not a request and a reply); without it
a hold can be created after its settlement and then stays held. `deployment_settles` has no
rejected settlement and no upgrade of the installer, both of which lose a report for good
(see Differences). `deployment_ends` has in addition no endpoint
(what an owner does is not fair to the job) and no off-chain report that does not match what was
built (`mismatch`; the route over Casals has none). Its exception is in the
formulas: a job whose build stops infinitely often (`BuildStopped`), since every re-check
re-arms a stopped build before it looks at it.

Pages: intervals tick (weak fairness), and queries, some of which fail, do not fail for
ever (strong fairness of the answer). The wizard's only assumption is that its two-minute timer fires
and that its bounded search for a job ends; no request need ever be answered. The assistant's are that
listing a chat is answered and that the abort timer of a question fires. `EndIsShown`
excepts a page that is about to hear of "cancelled" or "failed_verification": the poller
stops there, and a suspended pass may revive the job afterwards (`HearsOfEnd`). `CardsCatchUp`
excepts, for the same reason, a row that was last read as completed, cancelled or
failed_verification: the dashboard polls only while a row is active or failed
(`my-dashboard/+page.svelte:487`), so a cancelled job that a suspended pass revives, or
a completed realm that is destroyed in another tab, stays on screen as it was.

### Differences

Met while modelling and seen in the models, but contradicting no statement that a run
could quote, or only a comment:

* Installer and registry. The registry ignores the answer of `cancel_deployment`
  (registry `main.py:785`): the job of a refused request may go on and complete, without a
  charge. A pass resumes after a job was failed or cancelled and overwrites the status
  (`main.py:2700`, while `main.py:2597` says that a failed job stays failed). The
  reconciler looks at the age of the job, not of its task (`deploy_resume.py:297`). A
  registry upgrade forgets a suspended `request_deployment`: its job goes on without a
  hold. An upgrade of the installer drops armed settlements, whose holds stay held, and armed
  registrations, whose jobs stay registering: nothing arms them again (`main.py:3000`). Of a
  realm's unfinished tasks it drives one and sets the others waiting (`main.py:3017`); nothing
  queues a waiting task when the one before it has ended, and with a step completed the
  reconciler, which is there to "fail jobs stuck in ``extensions`` that nothing can advance any
  more" (`main.py:2526`), lets it pass. The installer does not look at the registry's answer to a
  settlement (`main.py:524`): one that is rejected on its way is not repeated, and the hold
  stays held. A second kick that fires when its job is already in `extensions` raises an
  error that is not the benign one (`provision_kick.py:91`) and fails the healthy job: its hold is
  released, its task goes on and completes it. The end of a pass clears the lock
  of whoever holds it, so a pass that outlived its lock lets a third one in. A stopped build with a member missing is re-armed by every re-check and
  never fails its job. `retry_deployment` keeps `error` and `completed_at`.
* Wizard. The gate is read once per visit: signing in or out (`deploy-gos:273`) does not
  read `principalActivated` again. A connection that breaks after a request was taken
  makes two jobs of one click.
* Dashboard. After a first load that failed nothing reloads while no row is active. A
  card dismissed after a destruction may return from a stale row. A failed attempt without a
  backend and the success after it have a card each, since their groups differ. `retryDestroyDeployment`
  (`my-dashboard:441`) asks for a retry that cannot start. `destroyRealmJob` leaves an interval
  running (`installer-queue.js:330`). `prepareDashboardDeploymentRows` is passed to `map`
  (`installer-queue.js:185`) and takes the index for the deploy task.
* Tracker. `onMount` goes on when the page is left while it loads, and starts a poller
  that nobody stops.
* Assistant. The thread restored at the start may appear under a chat that was begun
  meanwhile (`RegistryAssistant.svelte:742` says that it is restored "only when reopening
  the panel, not after explicit New chat"), as may the transcript of another or of a
  removed chat (`:596`). The list of chats is merged with one read before its await
  (`:243`), so that removed chats come back and new ones vanish. A question that timed out ends
  without a word: the handler returns (`:953`) before the text that `errors.js:7` has for
  it. A question typed in one chat is sent in the one that is on screen when the session
  has been read.

## 4. Proofs

All theorems hold for every value of the constants that satisfies the named
assumptions (`JobsAssumption`, `CreditsAssumption`, `InstallerAssumption`,
`DeploymentAssumption`, `DeployTasksAssumption`, `DashboardAssumption`,
`AssistantAssumption`, `JobQueriesAssumption`, `TrackerAssumption`, `WizardAssumption`),
none of which is stronger than "finite", "not empty", "natural number", "subset" or
"distinct". What a theorem assumes beyond them it says after ASSUME.

* `Credits_proofs`. `LedgerTyping`, `LedgerConservation`, `LedgerSolvency`,
  `LedgerSettlementFinal`. The inductive invariant `LedgerInv` is typing, conservation,
  solvency, and that a hold that exists has a holder: without the last, a release could
  pay nobody. Conservation counts the held jobs of a user, and the lemmas say how
  one hold more or less changes that cardinality.
* `InstallerJobs_proofs`. `JobsSound` is the inductive invariant `JobsInv`: every record
  is well typed, a task that is queued or under way has a runner, the holder of a fresh lock is unique
  (when no pass outlives it), and a registering job is driven (when there are no
  upgrades); the parts travel together, so that each action is examined once. `JobsTyping`,
  `TasksAreRun`, `LockExcludes` and `RegistrationsAreDriven` follow. The last two assume that
  `Faults` does not hold `"stale_lock"`, respectively `"upgrade"`.
  `CompletedJobsStay` is `CompletedIsFinal`, as long as only Casals
  deploys, nobody retries or finalizes a job, and no pass outlives its lock
  (`NobodyReopens`); every other failure, upgrades included, and the endpoints that provision,
  cancel and report failures are allowed. That a completed job is final says nothing about
  why; the inductive invariant `FinalInv` does: at most one thing (a pass, a runner or a
  registration) works on a job, a pass only while there is no task, and a job that
  can be kicked has none. So what ends the registration was the last one.
  `InstallerImplementsLife`, with every endpoint and failure: each
  step of the installer maps to a step of `JobLife` or to a stutter. The heartbeat and an
  upgrade move several jobs at once, which is why `LifeNext` is stated for all jobs.
* `Deployment_proofs`. `DeploymentImplementsLedger` and `DeploymentImplementsInstaller`
  are refinements with the identity mapping: each step of the composition is a step of
  the component or leaves it alone. The second needs callers that may cancel, since the
  registry does. `DeploymentConservesCredits` and `DeploymentKeepsLife` carry what was
  proved of the ledger and of the life of a job over. `AcceptedCallsHavePaid` rests on
  `DeploymentInv`: calls are typed, no job record is
  ever forgotten, two calls that were answered with a job have different jobs, and a
  hold belongs to the call that owns its job.
  `DeploymentTyping`, and `ChargesAreEarned`: credits are captured only for a job
  that was completed. A capture comes from a message, which comes from a timer, which a
  completed job armed: the inductive invariant `SettlementInvariant` says of each of the
  three that it vouches for `everCompleted`, and `StepAccounts` says of each handler that
  its job goes on with nothing new to report (`GoesOn`), or ends and arms the report of
  just this end (`EndsAnew`).
* `HoldsAreSettledAsEnded`, also in `Deployment_proofs`: `SettledAsItEnded`, with all that
  owners and operators may do and everything that may fail, but for what loses a report
  for good (`Delivered`: the installer is not upgraded, no settlement is rejected, and the
  reply of an enqueue is not overtaken). The invariant `ReportsInv` adds the failures to
  the successes (`FailureIsEarned`), and follows the report of an end: it is armed, under
  way or answered (`EndIsReported`); the installer waits for exactly the answers that the
  wire and the replies still hold (`NewsCounted`); and once one was given, no call waits
  for its reply and no hold is held (`HeardIsSettled`).
* `HoldsAreSettledAsReported`, also in `Deployment_proofs`, says more: once nothing about a job is on
  its way, a hold is captured if the job is completed and released if it is not. This
  is not true of every installation, and the hypotheses are the conditions:
  + `Undisturbed`: nobody intervenes (the run `deployment_retry` shows what a retry does),
    the installer is not upgraded (which drops the settlement timers), and no second
    pass reaches a job (`"stale_lock"`, `"second_kick"`, `"early_heartbeat"`), which would
    let it go on after it failed and was paid back. Builds, steps and registrations may
    fail.
  + `Heard`: the reply of an enqueue is not overtaken by the settlement of its job
    (`ReplyFirst`), and no settlement is rejected, as some are in `deployment_losses`.
    There is one news of an end, and it must find the hold. Calls may be
    refused, and the registry upgraded, which loses the replies it waits for.

  The inductive invariant `CourseInv` follows a job from its record to the
  ledger. `Straight`: a record is at one of a few places on a straight way, with one thing at
  work on it, and reports its end once. `OnCourse` and `HasNews`: while the call waits
  for its reply, or the hold is held, the news of a job that has ended is armed, being
  called or on the wire, and there is no other news. `HoldFollows`: a hold that is not
  held any more is as that news said. The step that needs the most of it is
  the resumed call which creates a hold for a job that has ended during its await: the
  news must still be ahead.
* `DeployTasks_proofs`. `DeployTasksTyping`, where a suspended runner is in a step of its
  task (`TypeInv`); `RecordsAreTrue`, whose invariant `TruthInv` adds that an answer on its
  way is true too; `TasksHaveRunners`, by `RunInv`: all three hold with hasty resumes. `RegistersBootstrapped`, `NoLateAdmin` and
  `CompletedStepsStay` assume that there are none (`NoHaste`) and rest on `OrderInv`: a
  task has one runner at most, only while it is unfinished, in the very step that is
  recorded as running (`OneRunnerEach`); while a job is registered, or a registration of it
  is under way, each bootstrap step is completed (`Finished`), which stays so since
  completed steps stay; and a realm is named after its bootstrap and launched after its
  name (`RealmOrdered`). So whoever is made administrator of a launched realm was one.
* `Wizard_proofs`. `WizardTyping`, `OverlayIsTrue`, `ValidFormsAreDeployed`,
  `OwnJobsAreFollowed`, all from `WizardInv`: the steps of the form behind the one on
  screen are valid (`StepsBehindValid`), which is why the last step can only be
  reached with a valid form; a click has made the attempts up to its present one and one
  that will try again has an attempt left (`AttemptsCounted`), a request that no
  attempt has come to was not sent (`SentInOrder`), and a request becomes one job at most
  (`EachJobOnce`). `OwnJobsAreFollowed` says what `FollowsOwnJob` says: an answered click is
  followed to the job of its own last request, one that was answered ambiguously to a job of its
  own caller, which may be one of another tab.
* `Tracker_proofs`. `TrackerTyping` (the bar stays from 0 to 100), `RetriesAreTimedFromFailures`
  and `BarMovesForward`. What a page shows is a record of the past, and the proofs order the
  records of a job: by the end of the last attempt, then by the phase of the one
  after it and by what is made (`NoLater`). Every move of the installer goes up in this order
  and takes no completed step back (`JobMovesOn`). The invariant `TrackerInv` says that a
  poll's record and task are no later than the installer's (`PollInOrder`), that each row
  was made from a record and a task no later than those of the polls on their way to it
  (`RowInOrder`), and that the memory of attempts and stages holds moments that have
  been, a retry's after its failure (`RetriesTimed`). That the bar does not go back is then
  a lemma about `Percent` on two records in this order (`PercentAdvances`), for any
  number of steps. It assumes `Overlap = 1`: of two polls in flight the older may be
  answered last, and the page shows its row.
* `Dashboard_proofs`. `DashboardTyping`, `CardsOfDestroyedAreTrue` (`DashInv`: a card kept in the
  browser, and a teardown that ended as "destroyed", belong to a job without a record, and
  nothing brings a record back), `SuccessesStay` (where a completed job does not move by itself).
  `EachGroupHasItsRow` is about
  `Deduped` alone: of the listed jobs of a group exactly one is shown, and it precedes all the
  others of that group. `Precedes` is a strict total order of them, and a job with the fewest ahead
  of it has none; that one exists is where the jobs must be finitely many.
* `Assistant_proofs`. `AssistantTyping`, `SendsAreSingle`, `ScreensAreRemembered`; the three
  together are inductive (`AssistantInv`).

Every invariant and every action property that a passing run checks is a theorem. Only
model-checked is liveness: `HoldIsSettled`, `EveryJobEnds`, `EndIsShown`,
`CardsCatchUp`, `EveryClickIsAnswered`, `EverySendEnds`, since fairness and
`ENABLED` are beyond the prover. No module declares a RECURSIVE operator, and none is needed.

## 5. Not modelled

* Vouchers, invitations, realm records, slugs, listings, the version catalogue, runtime
  flags. Each operation runs inside one message and writes its own rows; no property of
  several steps or actors is at stake. What they do to other components is modelled:
  a redeemed code credits the ledger (`CreditCaller`) and admits its principal to the wizard,
  and a registration succeeds or fails.
* Snapshots (`main.py:1915`), the installer's own steps of `delete_deployment_job` and
  `destroy_realm_job`, and the job index: they touch canisters one by one over the
  management canister, which is external, and of which a job shows only that it is gone or not.
* Of the deploy task: its cancellation, a task whose job belongs to another realm, and
  the calls of `setup_infrastructure` one by one (they are one step's call here). Of an
  upgrade request: the checks before its first await.
* Of the pages: the destruction started from the tracker page, billing and vouchers, realm stages
  (data from other canisters), paging beyond one page, the limit of fifty kept
  cards, drafts, branding and codex choices, estimated durations, layout and wording; of the
  assistant the list of chats, suggestions and the token of the service.
* Construction of call arguments, sessions and delegation, formatting, logging, read-only
  endpoints, generated declarations, built assets, presentations and operator scripts.
