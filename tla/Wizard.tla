------------------------------- MODULE Wizard -------------------------------
(***************************************************************************)
(* The page that asks for a deployment (deploy-gos, network-retry.js,      *)
(* deployment-request-recovery.js, invitation-state.js, deployProgress.js).*)
(*                                                                         *)
(* A form of four steps, behind a gate for those who were invited; a       *)
(* button whose handler sends request_deployment, sends it again after a   *)
(* network error, looks for a job after an ambiguous answer, gives up      *)
(* after two minutes, and leads to the page of the job.  The handler goes  *)
(* on when the page is left, and a request when the handler gave it up.    *)
(*                                                                         *)
(* The registry of this repository offers no drafts, so the wizard's       *)
(* attempts to save one change nothing.                                    *)
(***************************************************************************)
EXTENDS Naturals, FiniteSets, Sequences

CONSTANTS
    Users,          \* the principals that may sign in with this browser
    Attempts,       \* requests of each click, network errors permitting
    MaxClicks,      \* bound: deployments asked for
    MaxVisits,      \* bound: visits of the wizard
    Others,         \* bound: the users who deploy in another tab, once each
    InvitationMode  \* whether the registry asks for an invitation

ASSUME WizardAssumption ==
    /\ Users # {}
    /\ {MaxClicks, MaxVisits} \subseteq Nat \ {0}
    /\ Others \subseteq Users
    /\ Attempts \in [1 .. MaxClicks -> Nat \ {0}]
    /\ InvitationMode \in BOOLEAN

VARIABLES
    page,      \* "wizard", "elsewhere" in the portal, or "tracker"
    visit,     \* the visit of the wizard, the latest or the present one
    user,      \* who is signed in
    members,   \* those the registry knows as activated
    gate,      \* what the page believes of the invitation
    form,      \* the wizard's step and fields
    clicks,    \* handleAutomaticDeploy, for each click
    requests,  \* what became of each request in the registry
    jobs,      \* the jobs of the name in the form, in the order they were made
    followed,  \* the job whose page the browser was sent to
    overlay    \* the deployProgress store

gates == <<user, members, gate>>
deploys == <<clicks, requests, jobs, followed>>
wizardVars == <<page, visit, gates, form, deploys, overlay>>

----------------------------------------------------------------------------
Nobody == "nobody"
Clicks == 1 .. MaxClicks

NewGate == [checking |-> TRUE, mode |-> FALSE, activated |-> FALSE]
Gate == [checking : BOOLEAN, mode : BOOLEAN, activated : BOOLEAN]

(* "automatic" stands for "european" too, "other" for a subnet that is     *)
(* still to be chosen from the list.                                       *)
Form == [step : 0 .. 3, versions : {"loading", "loaded"}, name : {"short", "good"},
         subnet : {"automatic", "other", "chosen"},
         subnets : {"unknown", "loading", "loaded"}]

NewForm == [step |-> 0, versions |-> "loading", name |-> "short",
            subnet |-> "automatic", subnets |-> "unknown"]

(* An abandoned click is one whose error is shown while its requests go on.*)
Phases == {"none", "requesting", "pausing", "recovering", "abandoned", "retried", "ended"}
Running == {"requesting", "pausing", "recovering"}

Click == [phase : Phases, attempt : Nat, visit : 0 .. MaxVisits,
          by : Users \union {Nobody}]
NoClick == [phase |-> "none", attempt |-> 0, visit |-> 0, by |-> Nobody]
NoJob == <<0, 0>>

Requests == UNION {{c} \X (1 .. Attempts[c]) : c \in Clicks}

(* A job is known by the request it was made of, or, of a request that was *)
(* made in another tab, by its caller.                                     *)
OtherJobs == {0} \X Users
Owner(job) == IF job \in OtherJobs THEN job[2] ELSE clicks[job[1]].by

(* Bound: once the last click is made nobody edits the form, signs in or   *)
(* out, or returns.                                                        *)
ClickLeft == clicks[MaxClicks] = NoClick

WizardTypeOK ==
    /\ page \in {"wizard", "elsewhere", "tracker"}
    /\ visit \in 1 .. MaxVisits
    /\ user \in Users \union {Nobody}
    /\ members \subseteq Users
    /\ gate \in Gate
    /\ form \in Form
    /\ clicks \in [Clicks -> Click]
    /\ \A c \in Clicks : clicks[c].attempt <= Attempts[c]
    /\ requests \in [Requests -> {"none", "sent", "made", "refused"}]
    /\ jobs \in Seq(Requests \union OtherJobs)
    /\ \A i, k \in DOMAIN jobs : jobs[i] = jobs[k] /\ jobs[i] \in Requests => i = k
    /\ followed \in Requests \union OtherJobs \union {NoJob}
    /\ overlay \in {"closed", "running", "error"}

----------------------------------------------------------------------------
(* Who may see the wizard.                                                 *)

(* onMount: the gate is read for whoever is signed in; if the registry     *)
(* cannot be read it is open.  The version options are loaded only for     *)
(* someone signed in, the others have the default one.                     *)
ChecksGate ==
    /\ page = "wizard"
    /\ gate.checking
    /\ \E mode \in {InvitationMode, FALSE} :
         gate' = [checking |-> FALSE, mode |-> mode,
                  activated |-> ~ mode \/ user \in members]
    /\ form' = [form EXCEPT !.versions = IF user = Nobody THEN "loaded" ELSE @]
    /\ UNCHANGED <<page, visit, user, members, deploys, overlay>>

LoadsVersions ==
    /\ page = "wizard"
    /\ ~ gate.checking
    /\ form.versions = "loading"
    /\ form' = [form EXCEPT !.versions = "loaded"]
    /\ UNCHANGED <<page, visit, gates, deploys, overlay>>

AsksToSignIn == ~ gate.checking /\ gate.mode /\ user = Nobody
AsksForCode == ~ gate.checking /\ gate.mode /\ user # Nobody /\ ~ gate.activated
OnWizard == page = "wizard" /\ ~ gate.checking /\ ~ AsksToSignIn /\ ~ AsksForCode

(* handleLogin, handleLogout.                                              *)
SignsIn(u) ==
    /\ page = "wizard" /\ overlay = "closed" /\ ClickLeft
    /\ ~ gate.checking
    /\ user = Nobody
    /\ user' = u
    /\ UNCHANGED <<page, visit, members, gate, form, deploys, overlay>>

SignsOut ==
    /\ page = "wizard" /\ overlay = "closed" /\ ClickLeft
    /\ ~ gate.checking
    /\ user # Nobody
    /\ user' = Nobody
    /\ UNCHANGED <<page, visit, members, gate, form, deploys, overlay>>

(* handleRedeemCode, with a good code.                                     *)
RedeemsCode ==
    /\ page = "wizard" /\ overlay = "closed"
    /\ AsksForCode
    /\ members' = members \union {user}
    /\ gate' = [gate EXCEPT !.activated = TRUE]
    /\ UNCHANGED <<page, visit, user, form, deploys, overlay>>

----------------------------------------------------------------------------
(* The form.                                                               *)

(* validateStep.                                                           *)
Valid(f, step) ==
    CASE step = 0 -> f.versions = "loaded"
      [] step = 1 -> f.name = "good"
      [] step = 2 -> f.subnet # "other"
      [] OTHER -> TRUE

Edits(f) ==
    /\ OnWizard /\ overlay = "closed" /\ ClickLeft
    /\ form' = f
    /\ UNCHANGED <<page, visit, gates, deploys, overlay>>

TypesName == form.step = 1 /\ \E n \in {"short", "good"} : Edits([form EXCEPT !.name = n])

(* selectSubnetChoice, and the list it loads unless it has.                *)
ChoosesSubnet ==
    /\ form.step = 2
    /\ \/ Edits([form EXCEPT !.subnet = "automatic"])
       \/ Edits([form EXCEPT !.subnet = IF @ = "chosen" THEN @ ELSE "other",
                    !.subnets = IF @ = "unknown" THEN "loading" ELSE @])
       \/ /\ form.subnet = "other" /\ form.subnets = "loaded"
          /\ Edits([form EXCEPT !.subnet = "chosen"])

LoadsSubnets ==
    /\ page = "wizard"
    /\ form.subnets = "loading"
    /\ \E answer \in {"loaded", "unknown"} : form' = [form EXCEPT !.subnets = answer]
    /\ UNCHANGED <<page, visit, gates, deploys, overlay>>

NextStep ==
    /\ form.step < 3
    /\ Valid(form, form.step)
    /\ Edits([form EXCEPT !.step = @ + 1])

(* Mutant of GoesToStep: any step of the bar can be clicked.               *)
GoesToAnyStep(i) ==
    /\ i # form.step
    /\ Edits([form EXCEPT !.step = i])

(* goToStep, prevStep.                                                     *)
GoesToStep(i) ==
    /\ i < form.step
    /\ Edits([form EXCEPT !.step = i])

----------------------------------------------------------------------------
(* handleAutomaticDeploy.                                                  *)

Current(c) == <<c, clicks[c].attempt>>

Sends(c, click) ==
    /\ clicks' = [clicks EXCEPT ![c] = click]
    /\ requests' = [requests EXCEPT ![<<c, click.attempt>>] = "sent"]
    /\ UNCHANGED <<jobs, followed>>

Becomes(c, phase) == clicks' = [clicks EXCEPT ![c].phase = phase]

(* The button is disabled while a handler of this visit runs.              *)
ClicksDeploy(c) ==
    /\ OnWizard /\ overlay = "closed"
    /\ user # Nobody
    /\ form.step = 3
    /\ \A d \in Clicks : clicks[d].visit = visit => clicks[d].phase \notin Running
    /\ clicks[c] = NoClick
    /\ c > 1 => clicks[c - 1] # NoClick
    /\ Sends(c, [phase |-> "requesting", attempt |-> 1, visit |-> visit, by |-> user])
    /\ overlay' = "running"
    /\ UNCHANGED <<page, visit, gates, form>>

(* The registry takes a request, whoever still waits for it, or refuses    *)
(* it: in invitation mode always that of somebody it does not know.        *)
RegistryAnswers(r) ==
    /\ requests[r] = "sent"
    /\ \/ /\ InvitationMode => clicks[r[1]].by \in members
          /\ requests' = [requests EXCEPT ![r] = "made"]
          /\ jobs' = Append(jobs, r)
       \/ /\ requests' = [requests EXCEPT ![r] = "refused"]
          /\ UNCHANGED jobs
    /\ UNCHANGED <<page, visit, gates, form, clicks, followed, overlay>>

(* Somebody deploys a realm of the same name in another tab or browser.    *)
OtherTabDeploys(u) ==
    /\ \A i \in DOMAIN jobs : jobs[i] # <<0, u>>
    /\ jobs' = Append(jobs, <<0, u>>)
    /\ UNCHANGED <<page, visit, gates, form, clicks, requests, followed, overlay>>

(* window.location.assign: a new document, in which no handler goes on.    *)
Follows(r) ==
    /\ followed' = r
    /\ page' = "tracker"
    /\ overlay' = "closed"
    /\ clicks' = [d \in Clicks |->
         IF clicks[d] = NoClick THEN NoClick ELSE [clicks[d] EXCEPT !.phase = "ended"]]
    /\ gate' = NewGate
    /\ form' = NewForm
    /\ UNCHANGED <<visit, user, members, requests, jobs>>

(* failAutomaticDeploy, on whatever page the browser is by now.            *)
Fails(c, phase) ==
    /\ Becomes(c, phase)
    /\ overlay' = "error"
    /\ UNCHANGED <<page, visit, gates, form, requests, jobs, followed>>

Accepted(c) ==
    /\ clicks[c].phase = "requesting"
    /\ requests[Current(c)] = "made"
    /\ Follows(Current(c))

(* Mutant of Refused: the overlay is not told.                             *)
RefusedSilently(c) ==
    /\ clicks[c].phase = "requesting"
    /\ requests[Current(c)] = "refused"
    /\ Becomes(c, "ended")
    /\ UNCHANGED <<page, visit, gates, form, requests, jobs, followed, overlay>>

Refused(c) ==
    /\ clicks[c].phase = "requesting"
    /\ requests[Current(c)] = "refused"
    /\ Fails(c, "ended")

(* Mutant of LosesConnection: one attempt too many.                        *)
LosesConnectionAgain(c) ==
    /\ clicks[c].phase = "requesting"
    /\ IF clicks[c].attempt > Attempts[c]
       THEN Fails(c, "ended")
       ELSE Becomes(c, "pausing")
            /\ UNCHANGED <<page, visit, gates, form, requests, jobs, followed, overlay>>

(* retryOnTransientNetworkError: the last network error is the result.     *)
LosesConnection(c) ==
    /\ clicks[c].phase = "requesting"
    /\ IF clicks[c].attempt = Attempts[c]
       THEN Fails(c, "ended")
       ELSE Becomes(c, "pausing")
            /\ UNCHANGED <<page, visit, gates, form, requests, jobs, followed, overlay>>

SendsAgain(c) ==
    /\ clicks[c].phase \in {"pausing", "retried"}
    /\ Sends(c, [clicks[c] EXCEPT !.attempt = @ + 1,
         !.phase = IF @ = "pausing" THEN "requesting" ELSE "abandoned"])
    /\ UNCHANGED <<page, visit, gates, form, overlay>>

(* withTimeout: the handler fails; nothing stops what it was waiting for.  *)
TimesOut(c) ==
    \/ clicks[c].phase = "requesting" /\ Fails(c, "abandoned")
    \/ clicks[c].phase = "pausing" /\ Fails(c, "retried")

AbandonedAnswered(c) ==
    /\ clicks[c].phase = "abandoned"
    /\ \/ Becomes(c, "ended")
       \/ clicks[c].attempt < Attempts[c] /\ Becomes(c, "retried")
    /\ UNCHANGED <<page, visit, gates, form, requests, jobs, followed, overlay>>

(* "Call was returned undefined": is there a job of that name?             *)
IsAmbiguous(c) ==
    /\ clicks[c].phase = "requesting"
    /\ Becomes(c, "recovering")
    /\ UNCHANGED <<page, visit, gates, form, requests, jobs, followed, overlay>>

(* Mutant of OwnJobs: the caller of the jobs is not looked at.             *)
AnyJobs(c) == DOMAIN jobs

(* matchRecentDeploymentJob takes the newest of the caller's jobs of that  *)
(* name, of whichever click or tab.                                        *)
OwnJobs(c) == {i \in DOMAIN jobs : Owner(jobs[i]) = clicks[c].by}

Recovers(c) ==
    /\ clicks[c].phase = "recovering"
    /\ \E i \in OwnJobs(c) :
         /\ \A k \in OwnJobs(c) : k <= i
         /\ Follows(jobs[i])

GivesUp(c) ==
    /\ clicks[c].phase = "recovering"
    /\ Fails(c, "ended")

Dismisses ==
    /\ overlay = "error"
    /\ overlay' = "closed"
    /\ UNCHANGED <<page, visit, gates, form, deploys>>

(* onDestroy; a later visit starts anew.                                   *)
Leaves ==
    /\ page = "wizard"
    /\ page' = "elsewhere"
    /\ overlay' = "closed"
    /\ gate' = NewGate /\ form' = NewForm
    /\ UNCHANGED <<visit, user, members, deploys>>

Returns ==
    /\ page # "wizard"
    /\ visit < MaxVisits /\ ClickLeft
    /\ page' = "wizard"
    /\ visit' = visit + 1
    /\ UNCHANGED <<gates, form, deploys, overlay>>

----------------------------------------------------------------------------
WizardInit ==
    /\ page = "wizard" /\ visit = 1
    /\ user \in Users \union {Nobody}
    /\ members \in SUBSET Users
    /\ gate = NewGate /\ form = NewForm
    /\ clicks = [c \in Clicks |-> NoClick]
    /\ requests = [r \in Requests |-> "none"]
    /\ jobs = << >> /\ followed = NoJob
    /\ overlay = "closed"

OnForm ==
    \/ ChecksGate \/ LoadsVersions \/ SignsOut \/ RedeemsCode \/ TypesName \/ ChoosesSubnet
    \/ LoadsSubnets \/ NextStep
    \/ \E u \in Users : SignsIn(u)
    \/ \E i \in 0 .. 3 : GoesToStep(i)

OnClick(c) ==
    \/ Accepted(c) \/ Refused(c) \/ LosesConnection(c) \/ SendsAgain(c) \/ TimesOut(c)
    \/ AbandonedAnswered(c) \/ IsAmbiguous(c) \/ Recovers(c) \/ GivesUp(c)

WizardNext ==
    \/ OnForm \/ Dismisses \/ Leaves \/ Returns
    \/ \E c \in Clicks : ClicksDeploy(c) \/ OnClick(c)
    \/ \E r \in Requests : RegistryAnswers(r)
    \/ \E u \in Others : OtherTabDeploys(u)

WizardSpec == WizardInit /\ [][WizardNext]_wizardVars

(* The timer of withTimeout fires, and the search for a job is bounded.    *)
WizardFairness ==
    \A c \in Clicks : WF_wizardVars(TimesOut(c)) /\ WF_wizardVars(GivesUp(c))

FairWizardSpec == WizardSpec /\ WizardFairness

----------------------------------------------------------------------------
(* Properties.                                                             *)

(* Nothing is deployed from a form that was never valid as a whole: not by *)
(* going back and editing, and not while options are still being loaded.   *)
DeploysValidForm ==
    [][\A c \in Clicks : clicks[c] = NoClick /\ clicks'[c] # NoClick =>
         \A step \in 0 .. 3 : Valid(form, step)]_wizardVars

(* The overlay that blocks the portal never says "running" of nothing:     *)
(* whoever closed, left, returned and clicked before.                      *)
OverlayHasDeployment ==
    overlay = "running" => \E c \in Clicks : clicks[c].phase \in Running

(* The page that opens is that of the job made of the request that a       *)
(* handler waits for; or, only after an ambiguous answer, of a job that    *)
(* the caller of that click owns, though perhaps of another click or tab:  *)
(* never of another user's, whoever has signed in since.                   *)
FollowsOwnJob ==
    [][followed' # followed =>
         \E c \in Clicks :
           \/ clicks[c].phase = "requesting" /\ followed' = Current(c)
           \/ /\ clicks[c].phase = "recovering"
              /\ followed' \in {jobs[i] : i \in DOMAIN jobs}
              /\ Owner(followed') = clicks[c].by]_wizardVars

(* Every click ends in an error that is shown or on the page of a job,     *)
(* though answers are lost or late and the user goes elsewhere meanwhile.  *)
EveryClickIsAnswered ==
    \A c \in Clicks :
      clicks[c].phase \in Running ~> (overlay = "error" \/ page = "tracker")
=============================================================================
