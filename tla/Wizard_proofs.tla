--------------------------- MODULE Wizard_proofs ---------------------------
(***************************************************************************)
(* What the wizard keeps true for any users, any number of clicks and      *)
(* visits and any number of attempts of each click: requests are numbered  *)
(* and sent once, the form behind a request is valid as a whole, and the   *)
(* overlay speaks of a request that is under way.                          *)
(***************************************************************************)
EXTENDS Wizard, SequenceTheorems, TLAPS

(* A click has made the attempts up to its present one, and one that will  *)
(* try again has an attempt left.                                          *)
AttemptsCounted ==
    \A c \in Clicks :
        /\ clicks[c].phase # "none" => clicks[c].attempt \in 1 .. Attempts[c]
        /\ clicks[c].phase = "none" => clicks[c] = NoClick
        /\ clicks[c].phase \in {"pausing", "retried"} => clicks[c].attempt < Attempts[c]

(* A request that no attempt has come to was never sent.                   *)
SentInOrder ==
    \A c \in Clicks : \A n \in 1 .. Attempts[c] :
        n > clicks[c].attempt => requests[<<c, n>>] = "none"

(* A request becomes at most one job.                                      *)
EachJobOnce ==
    /\ \A i \in 1 .. Len(jobs) : jobs[i] \in Requests => requests[jobs[i]] = "made"
    /\ \A i, k \in 1 .. Len(jobs) : jobs[i] = jobs[k] /\ jobs[i] \in Requests => i = k

(* The steps of the form behind the one on screen are valid still.         *)
StepsBehindValid == \A step \in 0 .. 3 : step < form.step => Valid(form, step)

PageTyped ==
    /\ page \in {"wizard", "elsewhere", "tracker"}
    /\ visit \in 1 .. MaxVisits
    /\ user \in Users \union {Nobody}
    /\ members \subseteq Users
    /\ gate \in Gate
    /\ form \in Form
    /\ overlay \in {"closed", "running", "error"}

AnyJob == Requests \union OtherJobs

DeploysTyped ==
    /\ clicks \in [Clicks -> Click]
    /\ requests \in [Requests -> {"none", "sent", "made", "refused"}]
    /\ jobs \in Seq(AnyJob)
    /\ followed \in AnyJob \union {NoJob}

PageInv == PageTyped /\ StepsBehindValid
DeploysInv == DeploysTyped /\ AttemptsCounted /\ SentInOrder /\ EachJobOnce
WizardInv == PageInv /\ DeploysInv /\ OverlayHasDeployment

----------------------------------------------------------------------------
(* The requests of all clicks together.                                    *)

LEMMA RequestIsNumbered ==
    /\ \A c \in Clicks : \A n \in 1 .. Attempts[c] : <<c, n>> \in Requests
    /\ \A r \in Requests : r[1] \in Clicks /\ r[2] \in 1 .. Attempts[r[1]] /\ r = <<r[1], r[2]>>
BY DEF Requests

LEMMA OthersAreNoRequests == \A job \in OtherJobs : job \notin Requests
BY RequestIsNumbered DEF OtherJobs, Clicks

----------------------------------------------------------------------------
(* The form.                                                               *)

LEMMA NewFormInv == NewForm \in Form /\ \A step \in 0 .. 3 : ~ step < NewForm.step
BY DEF NewForm, Form

LEMMA OnFormInv == ASSUME PageInv, OnForm PROVE PageInv'
<1> USE DEF PageInv, PageTyped
<1>1. CASE ChecksGate
  <2>1. gate' \in Gate
    <3>1. PICK mode \in {InvitationMode, FALSE} :
            gate' = [checking |-> FALSE, mode |-> mode,
                     activated |-> ~ mode \/ user \in members]
      BY <1>1 DEF ChecksGate
    <3>2. mode \in BOOLEAN /\ (~ mode \/ user \in members) \in BOOLEAN
      BY WizardAssumption, Zenon
    <3>3. \A m, a \in BOOLEAN : [checking |-> FALSE, mode |-> m, activated |-> a] \in Gate
      BY DEF Gate
    <3> QED
      BY <3>1, <3>2, <3>3, Zenon
  <2>2. PICK v \in {form.versions, "loaded"} : form' = [form EXCEPT !.versions = v]
    BY <1>1 DEF ChecksGate
  <2>3. form' \in Form /\ form'.step = form.step
        /\ form'.name = form.name /\ form'.subnet = form.subnet
        /\ form'.versions \in {form.versions, "loaded"}
    BY <2>2 DEF Form
  <2>4. \A step \in 0 .. 3 : Valid(form, step) => Valid(form', step)
    BY <2>3 DEF Valid
  <2> QED
    BY <1>1, <2>1, <2>3, <2>4 DEF ChecksGate, StepsBehindValid
<1>2. CASE LoadsVersions \/ LoadsSubnets
  <2>1. form' \in Form /\ form'.step = form.step
        /\ \A step \in 0 .. 3 : Valid(form, step) => Valid(form', step)
    BY <1>2 DEF LoadsVersions, LoadsSubnets, Form, Valid
  <2> QED
    BY <1>2, <2>1 DEF LoadsVersions, LoadsSubnets, gates, StepsBehindValid
<1>3. CASE SignsOut \/ RedeemsCode \/ \E u \in Users : SignsIn(u)
  <2>1. gate' \in Gate
    BY <1>3 DEF SignsOut, RedeemsCode, SignsIn, Gate
  <2>2. UNCHANGED form
    BY <1>3 DEF SignsOut, RedeemsCode, SignsIn
  <2> QED
    BY <1>3, <2>1, <2>2
    DEF SignsOut, RedeemsCode, SignsIn, AsksForCode, StepsBehindValid
<1>4. ASSUME NEW f, Edits(f), f \in Form,
             \A step \in 0 .. 3 : step < f.step => Valid(f, step)
      PROVE  PageInv'
  BY <1>4 DEF Edits, gates, StepsBehindValid
<1>5. CASE TypesName
  <2>1. PICK n \in {"short", "good"} : form.step = 1 /\ Edits([form EXCEPT !.name = n])
    BY <1>5 DEF TypesName
  <2>2. [form EXCEPT !.name = n] \in Form
        /\ \A step \in 0 .. 3 : step < 1 /\ Valid(form, step) => Valid([form EXCEPT !.name = n], step)
    BY DEF Form, Valid
  <2>3. [form EXCEPT !.name = n].step = form.step
    BY DEF Form
  <2> QED
    BY <1>4, <2>1, <2>2, <2>3 DEF StepsBehindValid
<1>6. CASE ChoosesSubnet
  <2>0. \A x \in {"automatic", "other", "chosen"}, y \in {"unknown", "loading", "loaded"} :
          LET f == [form EXCEPT !.subnet = x, !.subnets = y] IN
          /\ f \in Form /\ f.step = form.step
          /\ f.versions = form.versions /\ f.name = form.name
    BY DEF Form
  <2>5. PICK x \in {"automatic", "other", "chosen"}, y \in {"unknown", "loading", "loaded"} :
          form.step = 2 /\ Edits([form EXCEPT !.subnet = x, !.subnets = y])
    <3>1. form.subnets \in {"unknown", "loading", "loaded"} /\ form.step = 2
          /\ \A x : [form EXCEPT !.subnet = x] = [form EXCEPT !.subnet = x, !.subnets = form.subnets]
      BY <1>6 DEF ChoosesSubnet, Form
    <3>2. \/ Edits([form EXCEPT !.subnet = "automatic"])
          \/ \E x \in {"other", "chosen"}, y \in {"unknown", "loading", "loaded"} :
               Edits([form EXCEPT !.subnet = x, !.subnets = y])
          \/ Edits([form EXCEPT !.subnet = "chosen"])
      BY <1>6, <3>1 DEF ChoosesSubnet
    <3> QED
      BY <3>1, <3>2
  <2>1. PICK f : /\ form.step = 2 /\ Edits(f)
                 /\ f \in Form /\ f.step = form.step
                 /\ f.versions = form.versions /\ f.name = form.name
    BY <2>0, <2>5
  <2>2. \A step \in 0 .. 3 : step < 2 /\ Valid(form, step) => Valid(f, step)
    BY <2>1 DEF Valid
  <2> QED
    BY <1>4, <2>1, <2>2 DEF StepsBehindValid
<1>7. CASE NextStep
  <2> DEFINE f == [form EXCEPT !.step = @ + 1]
  <2>1. form.step < 3 /\ Valid(form, form.step) /\ Edits(f)
    BY <1>7 DEF NextStep
  <2>2. f \in Form /\ f.step = form.step + 1 /\ form.step \in 0 .. 3
        /\ \A step \in 0 .. 3 : Valid(form, step) => Valid(f, step)
    BY <2>1 DEF Form, Valid
  <2>3. \A step \in 0 .. 3 : step < f.step => step < form.step \/ step = form.step
    BY <2>2
  <2> HIDE DEF f
  <2> QED
    BY <1>4, <2>1, <2>2, <2>3 DEF StepsBehindValid
<1>8. ASSUME NEW i \in 0 .. 3, GoesToStep(i)
      PROVE  PageInv'
  <2> DEFINE f == [form EXCEPT !.step = i]
  <2>1. i < form.step /\ Edits(f)
    BY <1>8 DEF GoesToStep
  <2>2. f \in Form /\ f.step = i /\ form.step \in 0 .. 3
        /\ \A step \in 0 .. 3 : Valid(form, step) => Valid(f, step)
    BY DEF Form, Valid
  <2> HIDE DEF f
  <2> QED
    BY <1>4, <2>1, <2>2 DEF StepsBehindValid
<1> QED
  BY <1>1, <1>2, <1>3, <1>5, <1>6, <1>7, <1>8 DEF OnForm

LEMMA OnFormKeepsDeploys == OnForm => UNCHANGED <<deploys, overlay>>
BY DEF OnForm, ChecksGate, LoadsVersions, SignsOut, RedeemsCode, TypesName, ChoosesSubnet,
   LoadsSubnets, NextStep, SignsIn, GoesToStep, Edits

----------------------------------------------------------------------------
(* The clicks and their requests.                                          *)

LEMMA ClickRecord ==
    ASSUME NEW phase \in Phases, NEW n \in Nat, NEW v \in 1 .. MaxVisits,
           NEW u \in Users \union {Nobody}
    PROVE  [phase |-> phase, attempt |-> n, visit |-> v, by |-> u] \in Click
BY WizardAssumption DEF Click

(* A handler moves on without a new request.                               *)
LEMMA BecomesInv ==
    ASSUME DeploysInv, NEW c \in Clicks, NEW phase \in Phases \ {"none"}, Becomes(c, phase),
           clicks[c].phase # "none",
           phase \in {"pausing", "retried"} => clicks[c].attempt < Attempts[c],
           UNCHANGED <<requests, jobs, followed>>
    PROVE  DeploysInv'
<1>1. clicks \in [Clicks -> Click]
  BY DEF DeploysInv, DeploysTyped
<1>2. clicks' \in [Clicks -> Click]
  BY <1>1 DEF Becomes, Click
<1>3. \A d \in Clicks : /\ clicks'[d].attempt = clicks[d].attempt
                        /\ clicks'[d].phase = IF d = c THEN phase ELSE clicks[d].phase
  BY <1>1 DEF Becomes, Click
<1>4. AttemptsCounted'
  BY <1>1, <1>3 DEF Becomes, DeploysInv, AttemptsCounted
<1>5. SentInOrder'
  BY <1>3 DEF DeploysInv, SentInOrder
<1> QED
  BY <1>2, <1>4, <1>5 DEF DeploysInv, DeploysTyped, EachJobOnce

(* A request is sent: it is the next of its click.                         *)
LEMMA SendsInv ==
    ASSUME DeploysInv, NEW c \in Clicks, NEW click \in Click, Sends(c, click),
           click.attempt = clicks[c].attempt + 1,
           click.attempt \in 1 .. Attempts[c],
           click.phase \in {"requesting", "abandoned"}
    PROVE  DeploysInv'
<1> DEFINE r == <<c, click.attempt>>
<1>1. /\ clicks \in [Clicks -> Click]
      /\ requests \in [Requests -> {"none", "sent", "made", "refused"}]
      /\ jobs \in Seq(AnyJob)
  BY DEF DeploysInv, DeploysTyped
<1>2. r \in Requests /\ requests[r] = "none"
  <2>1. clicks[c].attempt \in Nat
    BY <1>1 DEF Click
  <2>2. click.attempt > clicks[c].attempt
    BY <2>1
  <2> QED
    BY <2>2, RequestIsNumbered DEF DeploysInv, SentInOrder
<1>3. /\ clicks' = [clicks EXCEPT ![c] = click]
      /\ requests' = [requests EXCEPT ![r] = "sent"]
      /\ UNCHANGED <<jobs, followed>>
  BY DEF Sends
<1>4. DeploysTyped'
  BY <1>1, <1>2, <1>3 DEF DeploysInv, DeploysTyped
<1>5. AttemptsCounted'
  BY <1>1, <1>3 DEF DeploysInv, AttemptsCounted
<1>6. SentInOrder'
  <2> SUFFICES ASSUME NEW d \in Clicks, NEW n \in 1 .. Attempts[d], n > clicks'[d].attempt
               PROVE  requests'[<<d, n>>] = "none"
    BY DEF SentInOrder
  <2>1. <<d, n>> \in Requests
    BY RequestIsNumbered
  <2>2. clicks[d].attempt \in Nat /\ click.attempt \in Nat
    BY <1>1 DEF Click
  <2>3. <<d, n>> # r /\ n > clicks[d].attempt
    BY <1>1, <1>3, <2>2
  <2> QED
    BY <1>1, <1>3, <2>1, <2>3 DEF DeploysInv, SentInOrder
<1>7. EachJobOnce'
  <2>1. \A i \in 1 .. Len(jobs) : jobs[i] # r
    BY <1>1, <1>2 DEF DeploysInv, EachJobOnce
  <2> QED
    BY <1>1, <1>2, <1>3, <2>1 DEF DeploysInv, EachJobOnce
<1> QED
  BY <1>4, <1>5, <1>6, <1>7 DEF DeploysInv

(* The registry makes a job of a request that was sent, so of no other     *)
(* request that it made one of before.                                     *)
LEMMA AnswerInv == ASSUME DeploysInv, NEW r \in Requests, RegistryAnswers(r) PROVE DeploysInv'
<1>1. /\ clicks \in [Clicks -> Click]
      /\ requests \in [Requests -> {"none", "sent", "made", "refused"}]
      /\ jobs \in Seq(AnyJob)
      /\ requests[r] = "sent"
      /\ UNCHANGED <<clicks, followed>>
  BY DEF DeploysInv, DeploysTyped, RegistryAnswers
<1>2. PICK a \in {"made", "refused"} :
        /\ requests' = [requests EXCEPT ![r] = a]
        /\ IF a = "made" THEN jobs' = Append(jobs, r) ELSE UNCHANGED jobs
  BY DEF RegistryAnswers
<1>3. jobs' \in Seq(AnyJob)
  BY <1>1, <1>2, AppendProperties DEF AnyJob
<1>4. DeploysTyped'
  BY <1>1, <1>2, <1>3 DEF DeploysInv, DeploysTyped
<1>5. AttemptsCounted'
  BY <1>1 DEF DeploysInv, AttemptsCounted
<1>6. SentInOrder'
  <2> SUFFICES ASSUME NEW d \in Clicks, NEW n \in 1 .. Attempts[d], n > clicks[d].attempt
               PROVE  requests'[<<d, n>>] = "none"
    BY <1>1 DEF SentInOrder
  <2>1. requests[<<d, n>>] = "none" /\ <<d, n>> \in Requests
    BY RequestIsNumbered DEF DeploysInv, SentInOrder
  <2> QED
    BY <1>1, <1>2, <2>1
<1>7. EachJobOnce'
  <2>1. \A i \in 1 .. Len(jobs) :
          jobs[i] # r /\ (jobs[i] \in Requests => requests[jobs[i]] = "made")
    BY <1>1 DEF DeploysInv, EachJobOnce
  <2>2. CASE UNCHANGED jobs
    BY <1>1, <1>2, <2>1, <2>2 DEF DeploysInv, EachJobOnce
  <2>3. CASE jobs' = Append(jobs, r) /\ a = "made"
    <3>1. /\ Len(jobs') = Len(jobs) + 1 /\ Len(jobs) \in Nat
          /\ \A i \in 1 .. Len(jobs) : jobs'[i] = jobs[i]
          /\ jobs'[Len(jobs) + 1] = r
      BY <1>1, <2>3, AppendProperties DEF AnyJob
    <3>2. \A i \in 1 .. Len(jobs') : i \in 1 .. Len(jobs) \/ i = Len(jobs) + 1
      BY <3>1
    <3>3. \A i \in 1 .. Len(jobs') : jobs'[i] \in Requests => requests'[jobs'[i]] = "made"
      BY <1>1, <1>2, <2>1, <2>3, <3>1, <3>2
    <3>4. \A i, k \in 1 .. Len(jobs') : jobs'[i] = jobs'[k] /\ jobs'[i] \in Requests => i = k
      BY <2>1, <3>1, <3>2 DEF DeploysInv, EachJobOnce
    <3> QED
      BY <3>3, <3>4 DEF EachJobOnce
  <2> QED
    BY <1>2, <2>2, <2>3
<1> QED
  BY <1>4, <1>5, <1>6, <1>7 DEF DeploysInv

(* A job of another tab is of none of the requests.                        *)
LEMMA OtherTabInv == ASSUME WizardInv, NEW u \in Users, OtherTabDeploys(u) PROVE WizardInv'
<1> DEFINE job == <<0, u>>
<1>1. /\ jobs \in Seq(AnyJob) /\ jobs' = Append(jobs, job)
      /\ UNCHANGED <<page, visit, gates, form, clicks, requests, followed, overlay>>
  BY DEF WizardInv, DeploysInv, DeploysTyped, OtherTabDeploys
<1>2. job \in AnyJob /\ job \notin Requests
  BY OthersAreNoRequests DEF OtherJobs, AnyJob
<1> HIDE DEF job
<1>3. /\ jobs' \in Seq(AnyJob)
      /\ Len(jobs') = Len(jobs) + 1 /\ Len(jobs) \in Nat
      /\ \A i \in 1 .. Len(jobs) : jobs'[i] = jobs[i]
      /\ jobs'[Len(jobs) + 1] = job
  BY <1>1, <1>2, AppendProperties
<1>4. \A i \in 1 .. Len(jobs') : jobs'[i] \in Requests => i \in 1 .. Len(jobs)
  BY <1>2, <1>3
<1>5. EachJobOnce'
  BY <1>1, <1>3, <1>4 DEF WizardInv, DeploysInv, EachJobOnce
<1>6. DeploysTyped' /\ AttemptsCounted' /\ SentInOrder'
  BY <1>1, <1>3 DEF WizardInv, DeploysInv, DeploysTyped, AttemptsCounted, SentInOrder
<1> QED
  BY <1>1, <1>5, <1>6
  DEF gates, WizardInv, DeploysInv, PageInv, PageTyped, StepsBehindValid, OverlayHasDeployment

(* The browser is sent to the page of a job: every handler ends.           *)
LEMMA FollowsInv ==
    ASSUME PageInv, DeploysInv, NEW r \in AnyJob, Follows(r)
    PROVE  PageInv' /\ DeploysInv' /\ OverlayHasDeployment'
<1>1. clicks \in [Clicks -> Click]
  BY DEF DeploysInv, DeploysTyped
<1>2. \A c \in Clicks : clicks[c] # NoClick =>
        /\ [clicks[c] EXCEPT !.phase = "ended"] \in Click
        /\ [clicks[c] EXCEPT !.phase = "ended"].attempt = clicks[c].attempt
        /\ [clicks[c] EXCEPT !.phase = "ended"].phase = "ended"
  BY <1>1 DEF Click, Phases
<1>3. \A c \in Clicks :
        \/ clicks[c] = NoClick /\ clicks'[c] = NoClick
        \/ /\ clicks[c].phase # "none"
           /\ clicks'[c] \in Click /\ clicks'[c].phase = "ended"
           /\ clicks'[c].attempt = clicks[c].attempt
  BY <1>1, <1>2 DEF Follows, DeploysInv, AttemptsCounted
<1>4. NoClick.phase = "none"
  BY DEF NoClick
<1>5. DeploysTyped'
  <2>1. \A c \in Clicks : clicks'[c] \in Click
    BY <1>1, <1>3
  <2>2. clicks' \in [Clicks -> Click] /\ followed' \in AnyJob \union {NoJob}
    BY <2>1 DEF Follows
  <2> QED
    BY <2>2 DEF Follows, DeploysInv, DeploysTyped
<1>6. AttemptsCounted'
  BY <1>3, <1>4 DEF DeploysInv, AttemptsCounted
<1>7. SentInOrder'
  <2>1. \A c \in Clicks : clicks'[c].attempt = clicks[c].attempt
    BY <1>3
  <2> QED
    BY <2>1 DEF Follows, DeploysInv, SentInOrder
<1>8. EachJobOnce'
  BY DEF Follows, DeploysInv, EachJobOnce
<1>9. PageInv'
  <2>1. NewGate \in Gate
    BY DEF NewGate, Gate
  <2> QED
    BY <2>1, NewFormInv DEF Follows, PageInv, PageTyped, StepsBehindValid
<1> QED
  BY <1>5, <1>6, <1>7, <1>8, <1>9 DEF DeploysInv, Follows, OverlayHasDeployment

LEMMA FailsInv ==
    ASSUME PageInv, DeploysInv, NEW c \in Clicks, NEW phase \in Phases \ {"none"}, Fails(c, phase),
           clicks[c].phase # "none",
           phase \in {"pausing", "retried"} => clicks[c].attempt < Attempts[c]
    PROVE  PageInv' /\ DeploysInv' /\ OverlayHasDeployment'
<1>1. DeploysInv'
  BY BecomesInv DEF Fails
<1> QED
  BY <1>1 DEF Fails, gates, PageInv, PageTyped, StepsBehindValid, OverlayHasDeployment

(* A handler that goes on keeps the overlay's promise.                     *)
LEMMA GoesOnInv ==
    ASSUME WizardInv, NEW c \in Clicks, NEW phase \in Phases \ {"none"}, Becomes(c, phase),
           clicks[c].phase # "none",
           phase \in {"pausing", "retried"} => clicks[c].attempt < Attempts[c],
           clicks[c].phase \in Running => phase \in Running,
           UNCHANGED <<page, visit, gates, form, requests, jobs, followed, overlay>>
    PROVE  WizardInv'
<1>1. DeploysInv'
  BY BecomesInv DEF WizardInv
<1>2. PageInv'
  BY DEF WizardInv, gates, PageInv, PageTyped, StepsBehindValid
<1>3. \A d \in Clicks : clicks[d].phase \in Running => clicks'[d].phase \in Running
  BY DEF Becomes, WizardInv, DeploysInv, DeploysTyped, Click
<1> QED
  BY <1>1, <1>2, <1>3 DEF WizardInv, OverlayHasDeployment

LEMMA CurrentIsRequest ==
    ASSUME DeploysInv, NEW c \in Clicks, clicks[c].phase # "none"
    PROVE  Current(c) \in Requests /\ clicks[c].attempt \in 1 .. Attempts[c]
BY RequestIsNumbered DEF DeploysInv, AttemptsCounted, Current

LEMMA OnClickInv == ASSUME WizardInv, NEW c \in Clicks, OnClick(c) PROVE WizardInv'
<1> USE DEF WizardInv, Phases, Running
<1>0. clicks \in [Clicks -> Click] /\ jobs \in Seq(AnyJob)
  BY DEF DeploysInv, DeploysTyped
<1>1. CASE Accepted(c)
  BY <1>1, CurrentIsRequest, FollowsInv DEF Accepted, AnyJob
<1>2. CASE Refused(c)
  BY <1>2, FailsInv DEF Refused
<1>3. CASE LosesConnection(c)
  <2>1. clicks[c].phase = "requesting" /\ clicks[c].attempt \in 1 .. Attempts[c]
    BY <1>3, CurrentIsRequest DEF LosesConnection
  <2>2. Attempts[c] \in Nat
    BY WizardAssumption DEF Clicks
  <2>3. CASE clicks[c].attempt = Attempts[c]
    BY <1>3, <2>1, <2>3, FailsInv DEF LosesConnection
  <2>4. CASE clicks[c].attempt # Attempts[c]
    <3>1. clicks[c].attempt < Attempts[c]
      BY <2>1, <2>2, <2>4
    <3> QED
      BY <1>3, <2>1, <2>4, <3>1, GoesOnInv DEF LosesConnection
  <2> QED
    BY <2>3, <2>4
<1>4. CASE SendsAgain(c)
  <2> DEFINE click == [clicks[c] EXCEPT !.attempt = @ + 1,
                         !.phase = IF @ = "pausing" THEN "requesting" ELSE "abandoned"]
  <2>1. /\ clicks[c].phase \in {"pausing", "retried"} /\ Sends(c, click)
        /\ UNCHANGED <<page, visit, gates, form, overlay>>
    BY <1>4 DEF SendsAgain
  <2>2. /\ clicks[c].attempt \in 1 .. Attempts[c] /\ clicks[c].attempt < Attempts[c]
        /\ Attempts[c] \in Nat
    BY <2>1, CurrentIsRequest, WizardAssumption DEF DeploysInv, AttemptsCounted, Clicks
  <2>3. click.attempt = clicks[c].attempt + 1
        /\ click.phase = IF clicks[c].phase = "pausing" THEN "requesting" ELSE "abandoned"
    BY <1>0 DEF Click
  <2>4. click \in Click
    <3>1. \A n \in Nat, p \in Phases : [clicks[c] EXCEPT !.attempt = n, !.phase = p] \in Click
      BY <1>0 DEF Click
    <3> DEFINE n == clicks[c].attempt + 1
               p == IF clicks[c].phase = "pausing" THEN "requesting" ELSE "abandoned"
    <3>2. n \in Nat /\ p \in Phases
      BY <2>2
    <3>3. click = [clicks[c] EXCEPT !.attempt = n, !.phase = p]
      BY Zenon
    <3> HIDE DEF n, p, click
    <3> QED
      BY <3>1, <3>2, <3>3
  <2> HIDE DEF click
  <2>5. DeploysInv'
    <3>1. click.attempt \in 1 .. Attempts[c]
      BY <2>2, <2>3
    <3> QED
      BY <2>1, <2>3, <2>4, <3>1, SendsInv
  <2>6. \A d \in Clicks : clicks[d].phase \in Running => clicks'[d].phase \in Running
    BY <1>0, <2>1, <2>3 DEF Sends
  <2> QED
    BY <2>1, <2>5, <2>6 DEF gates, PageInv, PageTyped, StepsBehindValid, OverlayHasDeployment
<1>5. CASE TimesOut(c)
  <2>1. CASE clicks[c].phase = "requesting" /\ Fails(c, "abandoned")
    BY <2>1, FailsInv
  <2>2. CASE clicks[c].phase = "pausing" /\ Fails(c, "retried")
    <3>1. clicks[c].attempt < Attempts[c]
      BY <2>2 DEF DeploysInv, AttemptsCounted
    <3> QED
      BY <2>2, <3>1, FailsInv
  <2> QED
    BY <1>5, <2>1, <2>2 DEF TimesOut
<1>6. CASE AbandonedAnswered(c)
  BY <1>6, GoesOnInv DEF AbandonedAnswered
<1>7. CASE IsAmbiguous(c)
  BY <1>7, GoesOnInv DEF IsAmbiguous
<1>8. CASE Recovers(c)
  <2>1. PICK i \in OwnJobs(c) : Follows(jobs[i])
    BY <1>8 DEF Recovers
  <2>2. jobs[i] \in AnyJob
    BY <1>0, <2>1 DEF OwnJobs
  <2> QED
    BY <2>1, <2>2, FollowsInv
<1>9. CASE GivesUp(c)
  BY <1>9, FailsInv DEF GivesUp
<1> QED
  BY <1>1, <1>2, <1>3, <1>4, <1>5, <1>6, <1>7, <1>8, <1>9 DEF OnClick

LEMMA ClicksDeployInv == ASSUME WizardInv, NEW c \in Clicks, ClicksDeploy(c) PROVE WizardInv'
<1> DEFINE click == [phase |-> "requesting", attempt |-> 1, visit |-> visit, by |-> user]
<1>1. /\ Sends(c, click) /\ clicks[c] = NoClick
      /\ UNCHANGED <<page, visit, gates, form>> /\ overlay' = "running"
  BY DEF ClicksDeploy
<1>2. click \in Click /\ click.phase = "requesting" /\ click.attempt = 1
  BY ClickRecord DEF Phases, WizardInv, PageInv, PageTyped
<1> HIDE DEF click
<1>3. clicks[c].attempt = 0 /\ 1 \in 1 .. Attempts[c]
  BY <1>1, WizardAssumption DEF NoClick, Clicks
<1>4. DeploysInv'
  BY <1>1, <1>2, <1>3, SendsInv DEF WizardInv
<1>5. clicks'[c].phase \in Running
  BY <1>1, <1>2 DEF Sends, WizardInv, DeploysInv, DeploysTyped, Running
<1>6. OverlayHasDeployment'
  BY <1>5 DEF OverlayHasDeployment
<1> QED
  BY <1>1, <1>4, <1>6 DEF WizardInv, gates, PageInv, PageTyped, StepsBehindValid

----------------------------------------------------------------------------
LEMMA WizardInitInv == WizardInit => WizardInv
<1> SUFFICES ASSUME WizardInit PROVE WizardInv
  OBVIOUS
<1>1. NoClick \in Click /\ NoClick.phase = "none" /\ NewGate \in Gate
  BY WizardAssumption DEF NoClick, Click, Phases, NewGate, Gate
<1>2. PageInv
  BY <1>1, NewFormInv, WizardAssumption DEF WizardInit, PageInv, PageTyped, StepsBehindValid
<1>3. DeploysTyped
  BY <1>1 DEF WizardInit, DeploysTyped
<1>4. AttemptsCounted /\ EachJobOnce /\ OverlayHasDeployment
  BY <1>1 DEF WizardInit, AttemptsCounted, EachJobOnce, OverlayHasDeployment
<1>5. SentInOrder
  BY RequestIsNumbered DEF WizardInit, SentInOrder
<1> QED
  BY <1>2, <1>3, <1>4, <1>5 DEF WizardInv, DeploysInv

LEMMA WizardNextInv == WizardInv /\ [WizardNext]_wizardVars => WizardInv'
<1> SUFFICES ASSUME WizardInv, [WizardNext]_wizardVars PROVE WizardInv'
  OBVIOUS
<1>1. ASSUME PageInv', UNCHANGED deploys, overlay' # "running" \/ UNCHANGED overlay
      PROVE  WizardInv'
  BY <1>1 DEF deploys, WizardInv, DeploysInv, DeploysTyped, AttemptsCounted, SentInOrder,
     EachJobOnce, OverlayHasDeployment
<1>2. CASE OnForm
  BY <1>1, <1>2, OnFormInv, OnFormKeepsDeploys DEF WizardInv
<1>3. CASE Dismisses
  BY <1>1, <1>3 DEF Dismisses, gates, WizardInv, PageInv, PageTyped, StepsBehindValid
<1>4. CASE Leaves
  <2>1. NewGate \in Gate
    BY DEF NewGate, Gate
  <2> QED
    BY <1>1, <1>4, <2>1, NewFormInv DEF Leaves, WizardInv, PageInv, PageTyped, StepsBehindValid
<1>5. CASE Returns
  <2>1. visit' \in 1 .. MaxVisits
    BY <1>5, WizardAssumption DEF Returns, WizardInv, PageInv, PageTyped
  <2> QED
    BY <1>1, <1>5, <2>1 DEF Returns, gates, WizardInv, PageInv, PageTyped, StepsBehindValid
<1>6. ASSUME NEW r \in Requests, RegistryAnswers(r)
      PROVE  WizardInv'
  <2>1. UNCHANGED <<page, visit, gates, form, clicks, overlay>>
    BY <1>6 DEF RegistryAnswers
  <2> QED
    BY <1>6, <2>1, AnswerInv
    DEF gates, WizardInv, PageInv, PageTyped, StepsBehindValid, OverlayHasDeployment
<1>7. CASE UNCHANGED wizardVars
  BY <1>1, <1>7 DEF wizardVars, gates, WizardInv, PageInv, PageTyped, StepsBehindValid
<1> QED
  BY <1>2, <1>3, <1>4, <1>5, <1>6, <1>7, ClicksDeployInv, OnClickInv,
     OtherTabInv, WizardAssumption DEF WizardNext

LEMMA WizardSound == WizardSpec => []WizardInv
BY WizardInitInv, WizardNextInv, PTL DEF WizardSpec

(* The page and its handlers are well typed for any users and attempts: no *)
(* click makes more attempts than it has, and no request becomes two jobs. *)
THEOREM WizardTyping == WizardSpec => []WizardTypeOK
<1>1. WizardInv => WizardTypeOK
  <2> SUFFICES ASSUME WizardInv PROVE WizardTypeOK
    OBVIOUS
  <2>1. \A c \in Clicks : clicks[c].attempt <= Attempts[c]
    <3> SUFFICES ASSUME NEW c \in Clicks PROVE clicks[c].attempt <= Attempts[c]
      OBVIOUS
    <3>1. Attempts[c] \in Nat
      BY WizardAssumption DEF Clicks
    <3> QED
      BY <3>1 DEF WizardInv, DeploysInv, AttemptsCounted, NoClick
  <2> QED
    BY <2>1 DEF WizardInv, PageInv, PageTyped, DeploysInv, DeploysTyped, AnyJob, EachJobOnce,
       WizardTypeOK
<1> QED
  BY <1>1, WizardSound, PTL

(* The overlay that blocks the portal is never left "running" by a handler *)
(* that has ended, by leaving the wizard or by returning to it.            *)
THEOREM OverlayIsTrue == WizardSpec => []OverlayHasDeployment
<1>1. WizardInv => OverlayHasDeployment
  BY DEF WizardInv
<1> QED
  BY <1>1, WizardSound, PTL

LEMMA FormIsValid ==
    WizardInv /\ [WizardNext]_wizardVars =>
        [\A c \in Clicks : clicks[c] = NoClick /\ clicks'[c] # NoClick =>
           \A step \in 0 .. 3 : Valid(form, step)]_wizardVars
<1> SUFFICES ASSUME WizardInv, [WizardNext]_wizardVars, NEW c \in Clicks,
                    clicks[c] = NoClick, clicks'[c] # NoClick, NEW step \in 0 .. 3
             PROVE  Valid(form, step)
  BY DEF wizardVars
<1>1. clicks[c].phase = "none" /\ clicks \in [Clicks -> Click]
  BY DEF NoClick, WizardInv, DeploysInv, DeploysTyped
<1>2. CASE \E d \in Clicks : ClicksDeploy(d)
  <2>1. form.step = 3
    BY <1>2 DEF ClicksDeploy
  <2>2. CASE step < 3
    BY <2>1, <2>2 DEF WizardInv, PageInv, StepsBehindValid
  <2>3. CASE step = 3
    BY <2>3 DEF Valid
  <2> QED
    BY <2>2, <2>3
<1>3. ASSUME NEW d \in Clicks, OnClick(d)
      PROVE  FALSE
  <2>1. d # c => clicks'[c] = clicks[c] \/ clicks'[c] = NoClick
    BY <1>1, <1>3
    DEF OnClick, Accepted, Refused, LosesConnection, SendsAgain, TimesOut, AbandonedAnswered,
        IsAmbiguous, Recovers, GivesUp, Follows, Fails, Becomes, Sends
  <2>2. d = c => clicks'[c] = NoClick
    BY <1>1, <1>3
    DEF OnClick, Accepted, Refused, LosesConnection, SendsAgain, TimesOut, AbandonedAnswered,
        IsAmbiguous, Recovers, GivesUp
  <2> QED
    BY <2>1, <2>2
<1>4. CASE \/ OnForm \/ Dismisses \/ Leaves \/ Returns \/ UNCHANGED wizardVars
           \/ \E r \in Requests : RegistryAnswers(r)
           \/ \E u \in Others : OtherTabDeploys(u)
  <2>1. UNCHANGED clicks
    BY <1>4, OnFormKeepsDeploys
    DEF Dismisses, Leaves, Returns, wizardVars, deploys, RegistryAnswers, OtherTabDeploys
  <2> QED
    BY <2>1
<1> QED
  BY <1>2, <1>3, <1>4 DEF WizardNext

(* No deployment is requested from a form one step of which is not valid,  *)
(* whatever was edited again and whatever was still being loaded.          *)
THEOREM ValidFormsAreDeployed == WizardSpec => DeploysValidForm
<1>1. WizardInv /\ [WizardNext]_wizardVars =>
        [\A c \in Clicks : clicks[c] = NoClick /\ clicks'[c] # NoClick =>
           \A step \in 0 .. 3 : Valid(form, step)]_wizardVars
  BY FormIsValid
<1> QED
  BY <1>1, WizardSound, PTL DEF WizardSpec, DeploysValidForm

(* What a click may lead to the page of.                                   *)
OwnJobOf(c) ==
    \/ clicks[c].phase = "requesting" /\ followed' = Current(c)
    \/ /\ clicks[c].phase = "recovering"
       /\ followed' \in {jobs[i] : i \in DOMAIN jobs}
       /\ Owner(followed') = clicks[c].by

LEMMA OwnJobIsFollowed ==
    WizardInv /\ [WizardNext]_wizardVars =>
        [followed' # followed => \E c \in Clicks : OwnJobOf(c)]_wizardVars
<1> SUFFICES ASSUME WizardInv, [WizardNext]_wizardVars, followed' # followed
             PROVE  \E c \in Clicks : OwnJobOf(c)
  BY DEF wizardVars
<1>1. ASSUME NEW c \in Clicks, OnClick(c)
      PROVE  OwnJobOf(c)
  <2>1. CASE Accepted(c)
    BY <2>1 DEF Accepted, Follows, OwnJobOf
  <2>2. CASE Recovers(c)
    BY <2>2 DEF Recovers, OwnJobs, Follows, OwnJobOf
  <2> QED
    BY <1>1, <2>1, <2>2
    DEF OnClick, Refused, LosesConnection, SendsAgain, TimesOut, AbandonedAnswered, IsAmbiguous,
        GivesUp, Fails, Sends
<1>2. CASE \/ OnForm \/ Dismisses \/ Leaves \/ Returns \/ UNCHANGED wizardVars
           \/ \E r \in Requests : RegistryAnswers(r)
           \/ \E u \in Others : OtherTabDeploys(u)
           \/ \E c \in Clicks : ClicksDeploy(c)
  BY <1>2, OnFormKeepsDeploys
  DEF Dismisses, Leaves, Returns, wizardVars, deploys, RegistryAnswers, OtherTabDeploys,
      ClicksDeploy, Sends
<1> QED
  BY <1>1, <1>2 DEF WizardNext

(* The page that opens is that of the job of the request waited for; only  *)
(* the recovery of an ambiguous answer may take a job of another click or  *)
(* tab instead, and then one of the user who clicked.                      *)
THEOREM OwnJobsAreFollowed == WizardSpec => FollowsOwnJob
<1>1. WizardInv /\ [WizardNext]_wizardVars =>
        [followed' # followed =>
           \E c \in Clicks :
             \/ clicks[c].phase = "requesting" /\ followed' = Current(c)
             \/ /\ clicks[c].phase = "recovering"
                /\ followed' \in {jobs[i] : i \in DOMAIN jobs}
                /\ Owner(followed') = clicks[c].by]_wizardVars
  BY OwnJobIsFollowed DEF OwnJobOf
<1> QED
  BY <1>1, WizardSound, PTL DEF WizardSpec, FollowsOwnJob
=============================================================================
