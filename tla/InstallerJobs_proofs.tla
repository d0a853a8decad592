------------------------ MODULE InstallerJobs_proofs ------------------------
(***************************************************************************)
(* What every behaviour of the installer's job queue keeps true, for any   *)
(* set of jobs, any endpoints and faults in use, and any bounds.           *)
(***************************************************************************)
EXTENDS InstallerJobs, TLAPS

(* The invariants of the runs, said of one record.                         *)
HasRunner(r) ==
    r.task \in {"queued", "active"} => r.runner["armed"] + r.runner["running"] > 0

IsDriven(r) ==
    r.status = "registering" => r.registration["armed"] + r.registration["running"] > 0

HoldsLock(r) == Passes(r) > 0 => Passes(r) = 1 /\ r.lock = "fresh"

Sound(r) ==
    /\ r \in JobRecord
    /\ HasRunner(r)
    /\ "upgrade" \notin Faults => IsDriven(r)
    /\ "stale_lock" \notin Faults => HoldsLock(r)

JobsInv == job \in [Jobs -> JobRecord] /\ \A j \in Jobs : Sound(job[j])

(* One handler changes the record of one job.                              *)
LEMMA BecomesSound ==
    ASSUME JobsInv, NEW j \in Jobs, NEW r, Sound(r), Becomes(j, r)
    PROVE  JobsInv'
BY DEF JobsInv, Becomes, Sound

LEMMA NoJobSound == Sound(NoJob)
BY DEF Sound, NoJob, JobRecord, Counters, HasRunner, IsDriven, HoldsLock, Passes, Statuses, Terminal,
   PassPhases, Legs, StandStates, ReportPhases, Outcomes, TaskStates

LEMMA ArmSettlementSound ==
    ASSUME NEW r, Sound(r), NEW o \in Outcomes
    PROVE  Sound(ArmSettlement(r, o))
BY DEF Sound, ArmSettlement, JobRecord, Counters, HasRunner, IsDriven, HoldsLock, Passes, Outcomes

LEMMA StatusSound ==
    ASSUME NEW r, Sound(r), NEW s \in Statuses \ {"registering"}
    PROVE  Sound([r EXCEPT !.status = s])
BY DEF Sound, JobRecord, HasRunner, IsDriven, HoldsLock, Passes

LEMMA FailJobSound ==
    ASSUME NEW r, Sound(r)
    PROVE  Sound(FailJob(r)) /\ Sound(MarkFailed(r)) /\ Sound(VerificationFails(r))
<1>1. /\ Sound([r EXCEPT !.status = "failed"])
      /\ Sound([r EXCEPT !.status = "failed_verification"])
  BY StatusSound DEF Statuses, Terminal
<1>2. "failed" \in Outcomes
  BY DEF Outcomes
<1> QED
  BY <1>1, <1>2, ArmSettlementSound DEF FailJob, MarkFailed, VerificationFails

LEMMA LeavePassTyped ==
    ASSUME NEW r \in JobRecord, NEW p \in PassPhases, r.pass[p] > 0
    PROVE  LeavePass(r, p) \in JobRecord
<1>1. [r.pass EXCEPT ![p] = @ - 1] \in Counters(PassPhases)
  BY DEF JobRecord, Counters
<1>2. \A c \in Counters(PassPhases) : [r EXCEPT !.pass = c, !.lock = "free"] \in JobRecord
  BY DEF JobRecord
<1> QED
  BY <1>1, <1>2 DEF LeavePass

(* A pass that ends leaves no pass at all behind, unless it overstayed.    *)
LEMMA LeavePassSound ==
    ASSUME NEW r, Sound(r), NEW p \in PassPhases, r.pass[p] > 0
    PROVE  Sound(LeavePass(r, p))
<1> DEFINE l == LeavePass(r, p)
<1>1. l \in JobRecord
  BY LeavePassTyped DEF Sound
<1>2. HasRunner(l) /\ (IsDriven(r) => IsDriven(l))
  BY DEF Sound, LeavePass, JobRecord, HasRunner, IsDriven
<1>3. HoldsLock(r) => HoldsLock(l)
  <2>1. r.pass \in [PassPhases -> Nat] /\ l.pass = [r.pass EXCEPT ![p] = @ - 1]
    BY DEF Sound, LeavePass, JobRecord, Counters
  <2>2. Passes(r) <= 1 => Passes(l) = 0
    <3>1. CASE p = "declaring"
      BY <2>1, <3>1 DEF Passes, PassPhases
    <3>2. CASE p = "reading"
      BY <2>1, <3>2 DEF Passes, PassPhases
    <3>3. CASE p = "bootstrap"
      BY <2>1, <3>3 DEF Passes, PassPhases
    <3> QED
      BY <3>1, <3>2, <3>3 DEF PassPhases
  <2> QED
    BY <2>1, <2>2 DEF HoldsLock, Passes, PassPhases
<1> QED
  BY <1>1, <1>2, <1>3 DEF Sound

LEMMA ResumedSound ==
    ASSUME NEW r, Sound(r), NEW t \in {"queued", "active"}
    PROVE  Sound(Resumed(r, t))
<1> DEFINE n == Resumed(r, t)
<1>1. n \in JobRecord
  <2> DEFINE g == [r.runner EXCEPT !["armed"] = @ + 1]
  <2>1. g \in Counters(Legs)
    BY DEF Sound, JobRecord, Counters, Legs
  <2>2. \A h \in Counters(Legs) : [r EXCEPT !.task = t, !.runner = h] \in JobRecord
    BY DEF Sound, JobRecord, TaskStates
  <2> QED
    BY <2>1, <2>2 DEF Resumed
<1>2. HasRunner(n)
  BY DEF Sound, Resumed, JobRecord, Counters, Legs, HasRunner
<1>3. (IsDriven(r) => IsDriven(n)) /\ (HoldsLock(r) => HoldsLock(n))
  BY DEF Sound, Resumed, JobRecord, IsDriven, HoldsLock, Passes
<1> QED
  BY <1>1, <1>2, <1>3 DEF Sound

LEMMA KicksSound ==
    ASSUME NEW r, Sound(r), NEW k \in Nat
    PROVE  Sound([r EXCEPT !.kicks = k])
BY DEF Sound, JobRecord, HasRunner, IsDriven, HoldsLock, Passes

(* A requeued task is a task with a new runner, whatever it had done.      *)
LEMMA RequeuedIsResumed ==
    ASSUME NEW r, NEW q \in Requeued(r)
    PROVE  \E t \in {"queued", "active"} : q = Resumed(r, t)
BY DEF Requeued

LEMMA RequeuedSound ==
    ASSUME NEW r, Sound(r), NEW q \in Requeued(r)
    PROVE  Sound(q)
BY RequeuedIsResumed, ResumedSound

(* So is a new one, whatever it took over.                                 *)
LEMMA NewTaskIsResumed ==
    ASSUME NEW r, NEW j, NEW q \in NewTask(r, j)
    PROVE  \E t \in {"queued", "active"} : q = Resumed(r, t)
BY DEF NewTask

(* A pass starts only when the lock is not fresh: there is no other pass.  *)
LEMMA PassStartedSound ==
    ASSUME NEW r, Sound(r), CanStartPass(r), NEW s \in PassStarted(r)
    PROVE  Sound(s)
<1>1. CASE r.task = "none"
  <2> DEFINE g == [r.pass EXCEPT !["declaring"] = @ + 1]
             e == [r EXCEPT !.lock = "fresh", !.pass = g]
  <2>1. r.pass \in [PassPhases -> Nat] /\ g \in Counters(PassPhases)
    BY DEF Sound, JobRecord, Counters, PassPhases
  <2>2. s = e
    BY <1>1 DEF PassStarted
  <2>3. e \in JobRecord
    <3>1. \A h \in Counters(PassPhases) : [r EXCEPT !.lock = "fresh", !.pass = h] \in JobRecord
      BY DEF Sound, JobRecord
    <3> QED
      BY <2>1, <3>1
  <2>4. HasRunner(e) /\ (IsDriven(r) => IsDriven(e))
    BY DEF Sound, JobRecord, HasRunner, IsDriven
  <2>5. HoldsLock(r) => HoldsLock(e)
    <3>1. e.pass = g /\ e.lock = "fresh" /\ r.lock # "fresh"
      BY DEF Sound, JobRecord, CanStartPass
    <3> QED
      BY <2>1, <3>1 DEF HoldsLock, Passes, PassPhases
  <2> QED
    BY <2>2, <2>3, <2>4, <2>5 DEF Sound
<1>2. CASE r.task # "none"
  <2> DEFINE e == [r EXCEPT !.lock = "free", !.status = "extensions"]
  <2>1. e \in JobRecord
    BY DEF Sound, JobRecord, Statuses
  <2>2. (HasRunner(r) => HasRunner(e)) /\ IsDriven(e)
    BY DEF Sound, JobRecord, HasRunner, IsDriven
  <2>3. HoldsLock(r) => HoldsLock(e)
    BY DEF Sound, CanStartPass, JobRecord, Counters, PassPhases, HoldsLock, Passes
  <2>4. Sound(e)
    BY <2>1, <2>2, <2>3 DEF Sound
  <2> QED
    BY <1>2, <2>4, RequeuedSound DEF PassStarted
<1> QED
  BY <1>1, <1>2

LEMMA CancelledSound ==
    ASSUME NEW r, Sound(r)
    PROVE  Sound(Cancelled(r))
<1>1. Sound([r EXCEPT !.status = "cancelled"])
  BY StatusSound DEF Statuses, Terminal
<1> QED
  BY <1>1, ArmSettlementSound DEF Cancelled, Outcomes

----------------------------------------------------------------------------
LEMMA EnqueueInv == ASSUME JobsInv, NEW j \in Jobs, Enqueue(j) PROVE JobsInv'
<1>1. \A s \in {"failed", "provisioning", "pending"} : Sound(Enqueued(s))
  BY NoJobSound, StatusSound DEF Enqueued, Statuses, Terminal
<1>2. CASE EnqueueRejected(j)
  BY <1>1, <1>2, ArmSettlementSound, BecomesSound DEF EnqueueRejected, Outcomes
<1>3. CASE EnqueueCasals(j)
  BY <1>1, <1>3, KicksSound, BecomesSound DEF EnqueueCasals
<1>4. CASE EnqueueOffChain(j)
  BY <1>1, <1>4, BecomesSound DEF EnqueueOffChain
<1> QED
  BY <1>2, <1>3, <1>4 DEF Enqueue

LEMMA KickInv == ASSUME JobsInv, NEW j \in Jobs, Kick(j) PROVE JobsInv'
<1>1. Sound(job[j]) /\ job[j].kicks \in Nat
  BY DEF JobsInv, Sound, JobRecord
<1> DEFINE r == [job[j] EXCEPT !.kicks = @ - 1]
<1>2. job[j].kicks > 0 => Sound(r)
  <2> SUFFICES ASSUME job[j].kicks > 0 PROVE Sound(r)
    OBVIOUS
  <2>1. job[j].kicks - 1 \in Nat
    BY <1>1
  <2> QED
    BY <1>1, <2>1, KicksSound
<1>3. CASE KickStarts(j)
  <2>1. CanStartPass(r)
    BY <1>1, <1>3 DEF KickStarts, CanStartPass, Kickable, Sound, JobRecord
  <2> QED
    BY <1>2, <1>3, <2>1, PassStartedSound, BecomesSound DEF KickStarts
<1>4. CASE KickSkips(j)
  BY <1>2, <1>4, BecomesSound DEF KickSkips
<1>5. CASE KickFails(j)
  BY <1>2, <1>5, FailJobSound, BecomesSound DEF KickFails
<1> QED
  BY <1>3, <1>4, <1>5 DEF Kick

(* A pass moves from one await to the next.                                *)
LEMMA PassMovesSound ==
    ASSUME NEW r, Sound(r), NEW p \in PassPhases, NEW q \in PassPhases,
           p # q, r.pass[p] > 0
    PROVE  Sound([r EXCEPT !.pass = [r.pass EXCEPT ![p] = @ - 1, ![q] = @ + 1]])
<1> DEFINE g == [r.pass EXCEPT ![p] = @ - 1, ![q] = @ + 1]
           e == [r EXCEPT !.pass = g]
<1>1. r.pass \in [PassPhases -> Nat] /\ g \in [PassPhases -> Nat]
  BY DEF Sound, JobRecord, Counters
<1>2. e \in JobRecord
  BY <1>1 DEF Sound, JobRecord, Counters
<1>3. HasRunner(e) /\ (IsDriven(r) => IsDriven(e))
  BY DEF Sound, JobRecord, HasRunner, IsDriven
<1>4. e.pass = g /\ e.lock = r.lock
  BY DEF Sound, JobRecord
<1>5. Passes(e) = Passes(r)
  <2>1. CASE p = "declaring"
    BY <1>1, <1>4, <2>1 DEF Passes, PassPhases
  <2>2. CASE p = "reading"
    BY <1>1, <1>4, <2>2 DEF Passes, PassPhases
  <2>3. CASE p = "bootstrap"
    BY <1>1, <1>4, <2>3 DEF Passes, PassPhases
  <2> QED
    BY <2>1, <2>2, <2>3 DEF PassPhases
<1> QED
  BY <1>2, <1>3, <1>4, <1>5 DEF Sound, HoldsLock

LEMMA StandSound ==
    ASSUME NEW r, Sound(r), NEW s \in StandStates
    PROVE  Sound([r EXCEPT !.stand = s])
BY DEF Sound, JobRecord, HasRunner, IsDriven, HoldsLock, Passes

LEMMA PassInv == ASSUME JobsInv, NEW j \in Jobs, PassResumes(j) PROVE JobsInv'
<1> DEFINE r == job[j]
<1>1. Sound(r) /\ r \in JobRecord
  BY DEF JobsInv, Sound
<1>2. CASE PassDeclares(j)
  <2> DEFINE g == [r.pass EXCEPT !["declaring"] = @ - 1, !["reading"] = @ + 1]
             e == [r EXCEPT !.pass = g]
             s == IF r.stand = "built" THEN r.stand ELSE "building"
  <2>1. Sound(e)
    BY <1>1, <1>2, PassMovesSound DEF PassDeclares, PassPhases
  <2>2. Sound([e EXCEPT !.stand = s])
    BY <2>1, StandSound DEF StandStates
  <2>3. Becomes(j, [e EXCEPT !.stand = s])
    BY <1>1, <1>2 DEF PassDeclares, JobRecord
  <2> QED
    BY <2>2, <2>3, BecomesSound
<1>3. CASE PassRaises(j)
  BY <1>1, <1>3, LeavePassSound, FailJobSound, BecomesSound DEF PassRaises, PassPhases
<1>4. CASE PassWaits(j)
  <2> DEFINE a == [r EXCEPT !.status = "provisioning"]
             e == [r EXCEPT !.status = "provisioning", !.kicks = @ + 1]
  <2>1. Sound(a) /\ e = [a EXCEPT !.kicks = r.kicks + 1] /\ r.kicks + 1 \in Nat
    BY <1>1, StatusSound DEF Statuses, JobRecord
  <2>2. Sound(e) /\ e.pass = r.pass
    BY <1>1, <2>1, KicksSound DEF JobRecord
  <2> QED
    BY <1>4, <2>2, LeavePassSound, BecomesSound DEF PassWaits, PassPhases
<1>5. CASE PassFindsBroken(j)
  <2>1. Sound(FailJob(r)) /\ FailJob(r).pass = r.pass
    BY <1>1, FailJobSound DEF FailJob, ArmSettlement, JobRecord
  <2> QED
    BY <1>5, <2>1, LeavePassSound, BecomesSound DEF PassFindsBroken, PassPhases
<1>6. CASE PassFindsBuilt(j)
  <2> DEFINE e == [r EXCEPT !.status = "extensions"]
  <2>1. Sound(e) /\ e.pass = r.pass
    BY <1>1, StatusSound DEF Statuses, JobRecord
  <2>2. CASE e.task = "none"
    <3> DEFINE m == [e EXCEPT !.pass = [e.pass EXCEPT !["reading"] = @ - 1, !["bootstrap"] = @ + 1]]
    <3>1. Sound(m)
      BY <1>6, <2>1, PassMovesSound DEF PassFindsBuilt, PassPhases
    <3>2. Becomes(j, m)
      BY <1>6, <2>2 DEF PassFindsBuilt
    <3> QED
      BY <3>1, <3>2, BecomesSound
  <2>3. CASE e.task # "none"
    <3>1. ASSUME NEW q \in Requeued(e)
          PROVE  Sound(LeavePass(q, "reading"))
      <4>1. Sound(q) /\ q.pass = r.pass
        <5>1. PICK t \in {"queued", "active"} : q = Resumed(e, t)
          BY <3>1, RequeuedIsResumed
        <5> QED
          BY <1>1, <2>1, <5>1, ResumedSound DEF Resumed, JobRecord
      <4> QED
        BY <1>6, <4>1, LeavePassSound DEF PassFindsBuilt, PassPhases
    <3> QED
      BY <1>6, <2>3, <3>1, BecomesSound DEF PassFindsBuilt
  <2> QED
    BY <2>2, <2>3
<1>7. CASE PassBuildsTask(j)
  <2>1. ASSUME NEW q \in NewTask(r, j)
        PROVE  Sound(q) /\ q.pass = r.pass
    <3>1. PICK t \in {"queued", "active"} : q = Resumed(r, t)
      BY NewTaskIsResumed
    <3> QED
      BY <1>1, <3>1, ResumedSound DEF Resumed, JobRecord
  <2>2. Sound(FailJob(r)) /\ FailJob(r).pass = r.pass
    BY <1>1, FailJobSound DEF FailJob, ArmSettlement, JobRecord
  <2> QED
    BY <1>7, <2>1, <2>2, LeavePassSound, BecomesSound DEF PassBuildsTask, PassPhases
<1> QED
  BY <1>2, <1>3, <1>4, <1>5, <1>6, <1>7 DEF PassResumes

LEMMA LockGoesStaleInv == ASSUME JobsInv, NEW j \in Jobs, LockGoesStale(j) PROVE JobsInv'
<1> DEFINE r == job[j]
           e == [r EXCEPT !.lock = "stale"]
<1>1. Sound(r) /\ r \in JobRecord /\ e \in JobRecord
  BY DEF JobsInv, Sound, JobRecord
<1>2. HasRunner(e) /\ (IsDriven(r) => IsDriven(e))
  BY <1>1 DEF Sound, JobRecord, HasRunner, IsDriven
<1>3. "stale_lock" \notin Faults => HoldsLock(e)
  BY <1>1 DEF LockGoesStale, JobRecord, HoldsLock, Passes
<1> QED
  BY <1>1, <1>2, <1>3, BecomesSound DEF LockGoesStale, Sound

LEMMA ConductorBuildsInv == ASSUME JobsInv, NEW j \in Jobs, ConductorBuilds(j) PROVE JobsInv'
<1>1. Sound(job[j]) /\ {"built", "stalled", "broken"} \subseteq StandStates
  BY DEF JobsInv, StandStates
<1> QED
  BY <1>1, StandSound, BecomesSound DEF ConductorBuilds

----------------------------------------------------------------------------
(* A task that has ended needs no runner.                                  *)
LEMMA TaskEndsSound ==
    ASSUME NEW r, Sound(r), r.runner["running"] > 0
    PROVE  Sound([r EXCEPT !.runner["running"] = @ - 1, !.task = "ended"])
<1> DEFINE g == [r.runner EXCEPT !["running"] = @ - 1]
           e == [r EXCEPT !.runner = g, !.task = "ended"]
<1>1. g \in Counters(Legs)
  BY DEF Sound, JobRecord, Counters, Legs
<1>2. e \in JobRecord
  BY <1>1 DEF Sound, JobRecord, TaskStates
<1>3. HasRunner(e) /\ (IsDriven(r) => IsDriven(e)) /\ (HoldsLock(r) => HoldsLock(e))
  BY DEF Sound, JobRecord, HasRunner, IsDriven, HoldsLock, Passes
<1> QED
  BY <1>2, <1>3 DEF Sound

(* A runner becomes another kind of runner.                                *)
LEMMA RunnerMovesSound ==
    ASSUME NEW r, Sound(r), NEW a \in Legs, NEW b \in Legs, a # b, r.runner[a] > 0,
           NEW t \in {r.task, "active"}
    PROVE  Sound([r EXCEPT !.runner = [r.runner EXCEPT ![a] = @ - 1, ![b] = @ + 1],
                           !.task = t])
<1> DEFINE g == [r.runner EXCEPT ![a] = @ - 1, ![b] = @ + 1]
           e == [r EXCEPT !.runner = g, !.task = t]
<1>1. r.runner \in [Legs -> Nat] /\ g \in [Legs -> Nat]
  BY DEF Sound, JobRecord, Counters
<1>2. e \in JobRecord
  BY <1>1 DEF Sound, JobRecord, Counters, TaskStates
<1>3. HasRunner(e)
  <2>1. e.runner = g
    BY DEF Sound, JobRecord
  <2>2. g["armed"] + g["running"] > 0
    BY <1>1 DEF Legs
  <2> QED
    BY <2>1, <2>2 DEF HasRunner
<1>4. (IsDriven(r) => IsDriven(e)) /\ (HoldsLock(r) => HoldsLock(e))
  BY DEF Sound, JobRecord, IsDriven, HoldsLock, Passes
<1> QED
  BY <1>2, <1>3, <1>4 DEF Sound

(* The job registers, with the registration armed in the same step.        *)
LEMMA RegistersSound ==
    ASSUME NEW r, Sound(r)
    PROVE  Sound([r EXCEPT !.status = "registering", !.registration["armed"] = @ + 1])
<1> DEFINE g == [r.registration EXCEPT !["armed"] = @ + 1]
           e == [r EXCEPT !.status = "registering", !.registration = g]
<1>1. r.registration \in [Legs -> Nat] /\ g \in [Legs -> Nat]
  BY DEF Sound, JobRecord, Counters, Legs
<1>2. e \in JobRecord
  BY <1>1 DEF Sound, JobRecord, Counters, Statuses
<1>3. IsDriven(e)
  <2>1. e.registration = g
    BY DEF Sound, JobRecord
  <2>2. g["armed"] + g["running"] > 0
    BY <1>1 DEF Legs
  <2> QED
    BY <2>1, <2>2 DEF IsDriven
<1>4. HasRunner(e) /\ (HoldsLock(r) => HoldsLock(e))
  BY DEF Sound, JobRecord, HasRunner, HoldsLock, Passes
<1> QED
  BY <1>2, <1>3, <1>4 DEF Sound

LEMMA RunnerInv == ASSUME JobsInv, NEW j \in Jobs, Runner(j) PROVE JobsInv'
<1> DEFINE r == job[j]
<1>1. Sound(r) /\ r \in JobRecord
  BY DEF JobsInv, Sound
<1>2. CASE RunnerStarts(j)
  <2>1. CASE r.task = "ended"
    <3> DEFINE g == [r.runner EXCEPT !["armed"] = @ - 1]
               e == [r EXCEPT !.runner = g]
    <3>1. g \in Counters(Legs)
      BY <1>1, <1>2 DEF RunnerStarts, JobRecord, Counters, Legs
    <3>2. e \in JobRecord
      BY <1>1, <3>1 DEF JobRecord
    <3>3. HasRunner(e) /\ (IsDriven(r) => IsDriven(e)) /\ (HoldsLock(r) => HoldsLock(e))
      BY <1>1, <2>1 DEF JobRecord, HasRunner, IsDriven, HoldsLock, Passes
    <3>4. Becomes(j, e)
      BY <1>1, <1>2, <2>1 DEF RunnerStarts, JobRecord
    <3> QED
      BY <1>1, <3>2, <3>3, <3>4, BecomesSound DEF Sound
  <2>2. CASE r.task # "ended"
    <3> DEFINE e == [r EXCEPT !.runner = [r.runner EXCEPT !["armed"] = @ - 1, !["running"] = @ + 1],
                              !.task = "active"]
    <3>1. Sound(e)
      BY <1>1, <1>2, RunnerMovesSound DEF RunnerStarts, Legs
    <3>2. Becomes(j, e)
      <4> DEFINE m == [r EXCEPT !.runner["armed"] = @ - 1]
      <4>1. /\ m.task # "ended"
            /\ [m EXCEPT !.task = "active", !.runner["running"] = @ + 1] = e
        BY <1>1, <2>2 DEF JobRecord, Counters, Legs
      <4> QED
        BY <1>2, <4>1 DEF RunnerStarts
    <3> QED
      BY <3>1, <3>2, BecomesSound
  <2> QED
    BY <2>1, <2>2
<1>3. CASE RunnerRetries(j)
  <2> DEFINE e == [r EXCEPT !.runner = [r.runner EXCEPT !["running"] = @ - 1, !["armed"] = @ + 1],
                            !.task = r.task]
  <2>1. Sound(e)
    BY <1>1, <1>3, RunnerMovesSound DEF RunnerRetries, Legs
  <2>2. Becomes(j, e)
    BY <1>1, <1>3 DEF RunnerRetries, JobRecord
  <2> QED
    BY <2>1, <2>2, BecomesSound
<1>4. CASE RunnerFinishes(j)
  BY <1>1, <1>4, TaskEndsSound, RegistersSound, FailJobSound, BecomesSound DEF RunnerFinishes
<1>5. CASE RunnerDies(j)
  BY <1>1, <1>5, TaskEndsSound, BecomesSound DEF RunnerDies
<1> QED
  BY <1>2, <1>3, <1>4, <1>5 DEF Runner

----------------------------------------------------------------------------
(* A registration takes off only for a job that is not terminal; one that  *)
(* ends leaves the job completed or failed.                                *)
LEMMA RegistrationLeavesSound ==
    ASSUME NEW r, Sound(r), r.status # "registering", NEW g \in Counters(Legs)
    PROVE  Sound([r EXCEPT !.registration = g])
BY DEF Sound, JobRecord, HasRunner, IsDriven, HoldsLock, Passes

LEMMA RegistrationInv == ASSUME JobsInv, NEW j \in Jobs, Registration(j) PROVE JobsInv'
<1> DEFINE r == job[j]
<1>1. Sound(r) /\ r \in JobRecord /\ r.registration \in [Legs -> Nat]
  BY DEF JobsInv, Sound, JobRecord, Counters
<1>2. CASE RegistrationStarts(j)
  <2> DEFINE e == [r EXCEPT !.registration["armed"] = @ - 1]
  <2>1. CASE r.status \in Terminal
    <3>1. Becomes(j, e) /\ [r.registration EXCEPT !["armed"] = @ - 1] \in Counters(Legs)
      BY <1>1, <1>2, <2>1 DEF RegistrationStarts, JobRecord, Counters, Legs
    <3> QED
      BY <1>1, <2>1, <3>1, RegistrationLeavesSound, BecomesSound DEF Terminal
  <2>2. CASE r.status \notin Terminal
    <3> DEFINE g == [r.registration EXCEPT !["armed"] = @ - 1, !["running"] = @ + 1]
               m == [r EXCEPT !.registration = g]
    <3>1. Becomes(j, m)
      <4>1. e.status = r.status /\ [e EXCEPT !.registration["running"] = @ + 1] = m
        BY <1>1 DEF JobRecord, Legs
      <4> QED
        BY <1>2, <2>2, <4>1 DEF RegistrationStarts
    <3>2. g \in Counters(Legs) /\ g["armed"] + g["running"] > 0
      BY <1>1, <1>2 DEF RegistrationStarts, Counters, Legs
    <3>3. m \in JobRecord /\ IsDriven(m)
      BY <1>1, <3>2 DEF JobRecord, IsDriven
    <3>4. HasRunner(m) /\ (HoldsLock(r) => HoldsLock(m))
      BY <1>1 DEF Sound, JobRecord, HasRunner, HoldsLock, Passes
    <3> QED
      BY <1>1, <3>1, <3>3, <3>4, BecomesSound DEF Sound
  <2> QED
    BY <2>1, <2>2
<1>3. CASE RegistrationEnds(j)
  <2> DEFINE g == [r.registration EXCEPT !["running"] = @ - 1]
             e == [r EXCEPT !.registration = g]
             c == [e EXCEPT !.status = "completed"]
  <2>1. g \in Counters(Legs)
    BY <1>1, <1>3 DEF RegistrationEnds, Counters, Legs
  <2>2. Sound(c)
    <3>1. Sound([r EXCEPT !.status = "completed"])
      BY <1>1, StatusSound DEF Statuses, Terminal
    <3>2. [r EXCEPT !.status = "completed"].status = "completed"
      BY <1>1 DEF JobRecord
    <3>3. Sound([[r EXCEPT !.status = "completed"] EXCEPT !.registration = g])
      BY <2>1, <3>1, <3>2, RegistrationLeavesSound
    <3>4. c = [[r EXCEPT !.status = "completed"] EXCEPT !.registration = g]
      BY <1>1 DEF JobRecord
    <3> QED
      BY <3>3, <3>4
  <2>3. Sound(MarkFailed(e))
    <3>1. CASE r.status = "registering"
      <4>1. [e EXCEPT !.status = "failed"] = [c EXCEPT !.status = "failed"]
        BY <1>1 DEF JobRecord
      <4>2. Sound([e EXCEPT !.status = "failed"])
        BY <2>2, <4>1, StatusSound DEF Statuses, Terminal
      <4>3. e.status = "registering"
        BY <1>1, <3>1 DEF JobRecord
      <4> QED
        BY <4>2, <4>3, ArmSettlementSound DEF MarkFailed, FailJob, Terminal, Outcomes
    <3>2. CASE r.status # "registering"
      BY <1>1, <2>1, <3>2, RegistrationLeavesSound, FailJobSound
    <3> QED
      BY <3>1, <3>2
  <2> QED
    BY <1>3, <2>2, <2>3, ArmSettlementSound, BecomesSound DEF RegistrationEnds, Outcomes
<1> QED
  BY <1>2, <1>3 DEF Registration

LEMMA SettlementInv ==
    ASSUME JobsInv, NEW j \in Jobs, NEW o \in Outcomes,
           SettlementFires(j, o) \/ SettlementReturns(j, o)
    PROVE  JobsInv'
<1> DEFINE r == job[j]
<1>1. Sound(r) /\ r \in JobRecord
  BY DEF JobsInv, Sound
<1>2. ASSUME NEW s \in Counters(Outcomes), NEW c \in Counters(Outcomes), NEW n \in BOOLEAN
      PROVE  Sound([r EXCEPT !.settle = s, !.calling = c, !.notified = n])
  BY <1>1 DEF Sound, JobRecord, HasRunner, IsDriven, HoldsLock, Passes
<1>3. r.settle \in Counters(Outcomes) /\ r.calling \in Counters(Outcomes) /\ r.notified \in BOOLEAN
  BY <1>1 DEF JobRecord
<1>4. CASE SettlementFires(j, o)
  <2> DEFINE s == [r.settle EXCEPT ![o] = @ - 1]
             c == [r.calling EXCEPT ![o] = @ + 1]
  <2>1. s \in Counters(Outcomes) /\ c \in Counters(Outcomes)
    BY <1>3, <1>4 DEF SettlementFires, Counters
  <2>2. Becomes(j, [r EXCEPT !.settle = s, !.calling = r.calling, !.notified = r.notified])
        \/ Becomes(j, [r EXCEPT !.settle = s, !.calling = c, !.notified = r.notified])
    BY <1>1, <1>4 DEF SettlementFires, JobRecord
  <2> QED
    BY <1>2, <1>3, <2>1, <2>2, BecomesSound
<1>5. CASE SettlementReturns(j, o)
  <2> DEFINE c == [r.calling EXCEPT ![o] = @ - 1]
  <2>1. c \in Counters(Outcomes)
    BY <1>3, <1>5 DEF SettlementReturns, Counters
  <2>2. Becomes(j, [r EXCEPT !.settle = r.settle, !.calling = c, !.notified = TRUE])
    BY <1>1, <1>5 DEF SettlementReturns, JobRecord
  <2> QED
    BY <1>2, <1>3, <2>1, <2>2, BecomesSound
<1> QED
  BY <1>4, <1>5

----------------------------------------------------------------------------
LEMMA ReportSound ==
    ASSUME NEW r, Sound(r), NEW g \in Counters(ReportPhases)
    PROVE  Sound([r EXCEPT !.report = g])
BY DEF Sound, JobRecord, HasRunner, IsDriven, HoldsLock, Passes

LEMMA ReportInv == ASSUME JobsInv, NEW j \in Jobs, ReportResumes(j) PROVE JobsInv'
<1> DEFINE r == job[j]
           Left(p) == [r EXCEPT !.report = [r.report EXCEPT ![p] = @ - 1]]
<1>1. Sound(r) /\ r \in JobRecord /\ r.report \in [ReportPhases -> Nat]
  BY DEF JobsInv, Sound, JobRecord, Counters
<1>2. ASSUME NEW p \in ReportPhases, r.report[p] > 0
      PROVE  Sound(Left(p))
  <2>1. [r.report EXCEPT ![p] = @ - 1] \in Counters(ReportPhases)
    BY <1>1, <1>2 DEF Counters
  <2> QED
    BY <1>1, <2>1, ReportSound
<1>3. CASE CanisterStatusRead(j)
  BY <1>2, <1>3, FailJobSound, BecomesSound DEF CanisterStatusRead, ReportPhases
<1>4. CASE FrontendStatusRead(j)
  <2> DEFINE e == [Left("frontend") EXCEPT !.status = "extensions"]
  <2>1. Sound(Left("frontend"))
    BY <1>2, <1>4 DEF FrontendStatusRead, ReportPhases
  <2>2. Sound(e) /\ e.report \in [ReportPhases -> Nat]
    <3>1. Sound(e)
      BY <2>1, StatusSound DEF Statuses
    <3> HIDE DEF e
    <3> QED
      BY <3>1 DEF Sound, JobRecord, Counters
  <2>3. Sound([e EXCEPT !.report["deps"] = @ + 1])
    <3>1. [e.report EXCEPT !["deps"] = @ + 1] \in Counters(ReportPhases)
      BY <2>2 DEF ReportPhases, Counters
    <3> QED
      BY <2>2, <3>1, ReportSound
  <2> QED
    BY <1>4, <2>1, <2>2, <2>3, RequeuedSound, FailJobSound, BecomesSound DEF FrontendStatusRead
<1>5. CASE ReportBuildsTask(j)
  <2>1. \A q \in NewTask(Left("deps"), j) : Sound(q)
    BY <1>2, <1>5, NewTaskIsResumed, ResumedSound DEF ReportBuildsTask, ReportPhases
  <2> QED
    BY <1>2, <1>5, <2>1, FailJobSound, BecomesSound DEF ReportBuildsTask, ReportPhases
<1> QED
  BY <1>3, <1>4, <1>5 DEF ReportResumes

----------------------------------------------------------------------------
LEMMA CancelInv == ASSUME JobsInv, NEW j \in Jobs, CancelDeployment(j) PROVE JobsInv'
BY CancelledSound, BecomesSound DEF JobsInv, CancelDeployment

LEMMA InterventionInv == ASSUME JobsInv, NEW j \in Jobs, Intervention(j) PROVE JobsInv'
<1> DEFINE r == job[j]
<1>1. Sound(r) /\ r \in JobRecord
  BY DEF JobsInv, Sound
<1>2. CASE ProvisionEndpoint(j)
  BY <1>1, <1>2, PassStartedSound, FailJobSound, BecomesSound DEF ProvisionEndpoint
<1>3. CASE ReportCanisterReady(j)
  <2> DEFINE v == [r EXCEPT !.status = "verifying"]
             g == [r.report EXCEPT !["ready"] = @ + 1]
  <2>1. Sound(v)
    BY <1>1, StatusSound DEF Statuses
  <2>2. g \in Counters(ReportPhases)
    BY <1>1 DEF JobRecord, Counters, ReportPhases
  <2>3. Becomes(j, [v EXCEPT !.report = g])
    BY <1>1, <1>3 DEF ReportCanisterReady, JobRecord
  <2> QED
    BY <2>1, <2>2, <2>3, ReportSound, BecomesSound
<1>4. CASE ReportFrontendVerified(j)
  <2>1. [r.report EXCEPT !["frontend"] = @ + 1] \in Counters(ReportPhases)
    BY <1>1 DEF JobRecord, Counters, ReportPhases
  <2> QED
    BY <1>1, <1>4, <2>1, ReportSound, BecomesSound DEF ReportFrontendVerified
<1>5. CASE CancelDeployment(j)
  BY <1>5, CancelInv
<1>6. CASE FinalizeDeployment(j)
  <2>1. Sound([r EXCEPT !.status = "completed"])
    BY <1>1, StatusSound DEF Statuses, Terminal
  <2> QED
    BY <1>6, <2>1, ArmSettlementSound, BecomesSound DEF FinalizeDeployment, Outcomes
<1>7. CASE ReportDeploymentFailure(j)
  BY <1>1, <1>7, FailJobSound, BecomesSound DEF ReportDeploymentFailure
<1>8. CASE RetryDeployment(j)
  <2> DEFINE e == [r EXCEPT !.status = "provisioning"]
  <2>1. Sound(e) /\ r.kicks + 1 \in Nat
    BY <1>1, StatusSound DEF Statuses, JobRecord
  <2>2. Becomes(j, [e EXCEPT !.kicks = r.kicks + 1])
    BY <1>1, <1>8 DEF RetryDeployment, JobRecord
  <2> QED
    BY <2>1, <2>2, KicksSound, BecomesSound
<1> QED
  BY <1>2, <1>3, <1>4, <1>5, <1>6, <1>7, <1>8 DEF Intervention

LEMMA JobStepInv == ASSUME JobsInv, NEW j \in Jobs, JobStep(j) PROVE JobsInv'
BY KickInv, PassInv, LockGoesStaleInv, ConductorBuildsInv, RunnerInv, RegistrationInv,
   ReportInv, InterventionInv DEF JobStep

----------------------------------------------------------------------------
LEMMA HeartbeatInv == ASSUME JobsInv, Heartbeat PROVE JobsInv'
<1>1. ASSUME NEW r, Sound(r)
      PROVE  Sound(Rekicked(r))
  <2>1. r.kicks + 1 \in Nat
    BY <1>1 DEF Sound, JobRecord
  <2> QED
    BY <1>1, <2>1, KicksSound DEF Rekicked
<1>2. PICK old \in SUBSET Jobs :
        job' = [j \in Jobs |-> Reconciled(Rekicked(job[j]), j \in old)]
  BY DEF Heartbeat
<1>3. \A j \in Jobs : Sound(job'[j])
  BY <1>1, <1>2, FailJobSound DEF JobsInv, Reconciled
<1>4. job' \in [Jobs -> JobRecord]
  BY <1>2, <1>3 DEF Sound
<1> QED
  BY <1>3, <1>4 DEF JobsInv

(* An upgrade forgets everything that was armed or suspended; only the     *)
(* runners of unfinished tasks are armed again.                            *)
LEMMA StoredSound ==
    ASSUME NEW r \in JobRecord
    PROVE  /\ Stored(r) \in JobRecord
           /\ Stored(r).status = r.status /\ Stored(r).task = r.task
           /\ Passes(Stored(r)) = 0
<1>1. Stored(r) \in JobRecord
  BY NoJobSound DEF Stored, Sound, NoJob, JobRecord
<1> QED
  BY <1>1 DEF Stored, NoJob, Passes, PassPhases

(* What an upgrade makes of a job: its task has ended or never was, or it  *)
(* is the head of its realm's group, or it waits.                          *)
LEMMA UpgradedJob ==
    ASSUME JobsInv, Upgrade, NEW j \in Jobs
    PROVE  \/ job[j].task \in {"none", "ended"} /\ job'[j] = Stored(job[j])
           \/ /\ job[j].task \notin {"none", "ended"}
              /\ \E t \in {"queued", "active"} : job'[j] = Resumed(Stored(job[j]), t)
           \/ /\ job[j].task \notin {"none", "ended"}
              /\ \E t \in {"waiting", "held"} : job'[j] = [Stored(job[j]) EXCEPT !.task = t]
<1>1. PICK heads \in SUBSET (Driven \union Waiting), untouched \in SUBSET Jobs :
        job' = [i \in Jobs |-> AfterUpgrade(job[i], i \in heads, i \in untouched)]
  BY DEF Upgrade
<1>2. job'[j] = AfterUpgrade(job[j], j \in heads, j \in untouched)
  BY <1>1
<1> QED
  BY <1>2 DEF AfterUpgrade

LEMMA UpgradeInv == ASSUME JobsInv, Upgrade PROVE JobsInv'
<1>1. ASSUME NEW j \in Jobs
      PROVE  Sound(job'[j])
  <2> DEFINE q == job[j]
             kept == Stored(q)
  <2>1. /\ q \in JobRecord /\ kept \in JobRecord
        /\ kept.task = q.task /\ Passes(kept) = 0 /\ "upgrade" \in Faults
    BY StoredSound DEF JobsInv, Upgrade
  <2>2. ASSUME NEW t \in {"waiting", "held", "none", "ended"}
        PROVE  Sound([kept EXCEPT !.task = t])
    BY <2>1 DEF Sound, JobRecord, TaskStates, HasRunner, HoldsLock, Passes
  <2>3. ASSUME NEW t \in {"queued", "active"}
        PROVE  Sound(Resumed(kept, t))
    <3> DEFINE g == [kept.runner EXCEPT !["armed"] = @ + 1]
               e == [kept EXCEPT !.task = t, !.runner = g]
    <3>1. g \in Counters(Legs) /\ g["armed"] + g["running"] > 0
      <4>1. kept.runner \in [Legs -> Nat]
        BY <2>1 DEF JobRecord, Counters
      <4> QED
        BY <4>1 DEF Counters, Legs
    <3>2. e \in JobRecord /\ HasRunner(e)
      BY <2>1, <3>1 DEF JobRecord, TaskStates, HasRunner
    <3>3. HoldsLock(e)
      BY <2>1 DEF JobRecord, HoldsLock, Passes
    <3> QED
      BY <2>1, <3>2, <3>3 DEF Sound, Resumed
  <2>4. CASE q.task \in {"none", "ended"}
    <3>1. job'[j] = kept
      BY <2>4, UpgradedJob
    <3> QED
      BY <2>1, <2>4, <3>1 DEF Sound, HasRunner, HoldsLock
  <2>5. CASE q.task \notin {"none", "ended"}
    BY <2>2, <2>3, <2>5, UpgradedJob
  <2> QED
    BY <2>4, <2>5
<1>2. job' \in [Jobs -> JobRecord]
  BY <1>1 DEF Sound, Upgrade
<1> QED
  BY <1>1, <1>2 DEF JobsInv

----------------------------------------------------------------------------
(* No step forgets a job: its id is never free again.                      *)
Known == {j \in Jobs : job[j].status # "none"}

LEMMA BecomesKnown ==
    ASSUME JobsInv, NEW j \in Jobs, NEW r, Becomes(j, r),
           r.status # "none" \/ r.status = job[j].status
    PROVE  Known \subseteq Known'
BY DEF Known, JobsInv, Becomes

LEMMA EnqueueKnown ==
    ASSUME JobsInv, NEW j \in Jobs, Enqueue(j)
    PROVE  Known' = Known \union {j} /\ j \notin Known
<1>1. ASSUME NEW r, Becomes(j, r), r.status # "none", job[j].status = "none"
      PROVE  Known' = Known \union {j} /\ j \notin Known
  BY <1>1 DEF Known, JobsInv, Becomes
<1> QED
  BY <1>1 DEF Enqueue, EnqueueRejected, EnqueueCasals, EnqueueOffChain, Enqueued,
     ArmSettlement, NoJob

LEMMA KickKnown ==
    ASSUME JobsInv, NEW j \in Jobs, Kick(j) \/ ProvisionEndpoint(j)
    PROVE  Known \subseteq Known'
<1> DEFINE k == [job[j] EXCEPT !.kicks = @ - 1]
<1>1. job[j] \in JobRecord /\ k.status = job[j].status
  BY DEF JobsInv, JobRecord
<1>2. ASSUME NEW r \in {k, job[j]}, NEW s \in PassStarted(r)
      PROVE  s.status \in {r.status, "extensions"}
  <2> DEFINE e == [r EXCEPT !.lock = "free", !.status = "extensions"]
  <2>1. CASE r.task = "none"
    BY <1>1, <1>2, <2>1 DEF PassStarted, JobRecord
  <2>2. CASE r.task # "none"
    <3>1. PICK t \in {"queued", "active"} : s = Resumed(e, t)
      BY <1>2, <2>2, RequeuedIsResumed DEF PassStarted
    <3>2. Resumed(e, t).status = "extensions"
      BY <1>1, <1>2 DEF Resumed, JobRecord
    <3> QED
      BY <3>1, <3>2
  <2> QED
    BY <2>1, <2>2
<1>3. ASSUME NEW r \in {k, job[j]}
      PROVE  MarkFailed(r).status \in {r.status, "failed"}
  BY <1>1, <1>3 DEF MarkFailed, FailJob, ArmSettlement, JobRecord
<1> QED
  BY <1>1, <1>2, <1>3, BecomesKnown
  DEF Kick, KickStarts, KickSkips, KickFails, ProvisionEndpoint

LEMMA PassKnown ==
    ASSUME JobsInv, NEW j \in Jobs, PassResumes(j)
    PROVE  Known \subseteq Known'
<1> DEFINE r == job[j]
<1>1. r \in JobRecord
  BY DEF JobsInv
<1>2. ASSUME NEW p \in PassPhases, NEW s \in JobRecord
      PROVE  LeavePass(s, p).status = s.status
  BY <1>2 DEF LeavePass, JobRecord
<1>3. CASE PassDeclares(j)
  BY <1>1, <1>3, BecomesKnown DEF PassDeclares, JobRecord
<1>4. CASE PassRaises(j)
  <2>1. ASSUME NEW p \in PassPhases
        PROVE  MarkFailed(LeavePass(r, p)).status \in {r.status, "failed"}
    BY <1>1 DEF MarkFailed, FailJob, ArmSettlement, LeavePass, JobRecord
  <2> QED
    BY <1>4, <2>1, BecomesKnown DEF PassRaises, PassPhases
<1>5. CASE PassWaits(j)
  BY <1>1, <1>5, BecomesKnown DEF PassWaits, LeavePass, JobRecord
<1>6. CASE PassFindsBroken(j)
  BY <1>1, <1>6, BecomesKnown DEF PassFindsBroken, LeavePass, FailJob, ArmSettlement, JobRecord
<1>7. CASE PassFindsBuilt(j)
  <2> DEFINE e == [r EXCEPT !.status = "extensions"]
  <2>1. CASE e.task = "none"
    BY <1>1, <1>7, <2>1, BecomesKnown DEF PassFindsBuilt, JobRecord
  <2>2. CASE e.task # "none"
    <3>1. PICK t \in {"queued", "active"} : Becomes(j, LeavePass(Resumed(e, t), "reading"))
      BY <1>7, <2>2, RequeuedIsResumed DEF PassFindsBuilt
    <3>2. LeavePass(Resumed(e, t), "reading").status = "extensions"
      BY <1>1 DEF LeavePass, Resumed, JobRecord
    <3> QED
      BY <3>1, <3>2, BecomesKnown
  <2> QED
    BY <2>1, <2>2
<1>8. CASE PassBuildsTask(j)
  <2>1. \A q \in NewTask(r, j) : LeavePass(q, "bootstrap").status = r.status
    <3>1. \A t : LeavePass(Resumed(r, t), "bootstrap").status = r.status
      BY <1>1 DEF LeavePass, Resumed, JobRecord
    <3> QED
      BY <3>1, NewTaskIsResumed
  <2>2. LeavePass(FailJob(r), "bootstrap").status = "failed"
    BY <1>1 DEF LeavePass, FailJob, ArmSettlement, JobRecord
  <2> QED
    BY <1>8, <2>1, <2>2, BecomesKnown DEF PassBuildsTask
<1> QED
  BY <1>3, <1>4, <1>5, <1>6, <1>7, <1>8 DEF PassResumes

LEMMA TaskKnown ==
    ASSUME JobsInv, NEW j \in Jobs,
           LockGoesStale(j) \/ ConductorBuilds(j) \/ Runner(j) \/ Registration(j)
    PROVE  Known \subseteq Known'
<1> DEFINE r == job[j]
<1>1. r \in JobRecord
  BY DEF JobsInv
<1>2. CASE LockGoesStale(j) \/ ConductorBuilds(j)
  BY <1>1, <1>2, BecomesKnown DEF LockGoesStale, ConductorBuilds, JobRecord
<1>3. CASE RunnerStarts(j) \/ RunnerRetries(j) \/ RunnerDies(j)
  BY <1>1, <1>3, BecomesKnown DEF RunnerStarts, RunnerRetries, RunnerDies, JobRecord
<1>4. CASE RunnerFinishes(j)
  BY <1>1, <1>4, BecomesKnown DEF RunnerFinishes, FailJob, ArmSettlement, JobRecord
<1>5. CASE Registration(j)
  BY <1>1, <1>5, BecomesKnown
  DEF Registration, RegistrationStarts, RegistrationEnds, MarkFailed, FailJob, ArmSettlement, JobRecord
<1> QED
  BY <1>2, <1>3, <1>4, <1>5 DEF Runner

LEMMA SettlementKnown ==
    ASSUME JobsInv, NEW j \in Jobs, NEW o \in Outcomes,
           SettlementFires(j, o) \/ SettlementReturns(j, o)
    PROVE  Known \subseteq Known'
<1>1. job[j] \in JobRecord
  BY DEF JobsInv
<1> QED
  BY <1>1, BecomesKnown DEF SettlementFires, SettlementReturns, JobRecord

LEMMA ReportKnown ==
    ASSUME JobsInv, NEW j \in Jobs, ReportResumes(j)
    PROVE  Known \subseteq Known'
<1> DEFINE r == job[j]
<1>1. r \in JobRecord
  BY DEF JobsInv
<1>2. CASE CanisterStatusRead(j)
  BY <1>1, <1>2, BecomesKnown DEF CanisterStatusRead, VerificationFails, ArmSettlement, JobRecord
<1>3. CASE FrontendStatusRead(j)
  <2> DEFINE e == [[r EXCEPT !.report["frontend"] = @ - 1] EXCEPT !.status = "extensions"]
  <2>1. \A q \in Requeued(e) : q.status = "extensions"
    <3>1. \A t \in {"queued", "active"} : Resumed(e, t).status = "extensions"
      BY <1>1 DEF Resumed, JobRecord
    <3> QED
      BY <3>1, RequeuedIsResumed
  <2>2. VerificationFails([r EXCEPT !.report["frontend"] = @ - 1]).status = "failed_verification"
    BY <1>1 DEF VerificationFails, ArmSettlement, JobRecord
  <2>3. e.status = "extensions" /\ [e EXCEPT !.report["deps"] = @ + 1].status = "extensions"
    BY <1>1 DEF JobRecord
  <2> QED
    BY <1>3, <2>1, <2>2, <2>3, BecomesKnown DEF FrontendStatusRead
<1>4. CASE ReportBuildsTask(j)
  <2> DEFINE d == [r EXCEPT !.report["deps"] = @ - 1]
  <2>1. d.status = r.status /\ \A t : Resumed(d, t).status = r.status
    BY <1>1 DEF Resumed, JobRecord
  <2>2. FailJob(d).status = "failed" /\ \A q \in NewTask(d, j) : q.status = r.status
    <3>1. FailJob(d).status = "failed"
      BY <1>1 DEF FailJob, ArmSettlement, JobRecord
    <3> QED
      BY <2>1, <3>1, NewTaskIsResumed
  <2> QED
    BY <1>1, <1>4, <2>2, BecomesKnown DEF ReportBuildsTask
<1> QED
  BY <1>2, <1>3, <1>4 DEF ReportResumes

LEMMA CancelKnown ==
    ASSUME JobsInv, NEW j \in Jobs, CancelDeployment(j)
    PROVE  Known \subseteq Known'
<1>1. job[j] \in JobRecord
  BY DEF JobsInv
<1> QED
  BY <1>1, BecomesKnown DEF CancelDeployment, Cancelled, ArmSettlement, JobRecord

LEMMA InterventionKnown ==
    ASSUME JobsInv, NEW j \in Jobs, Intervention(j)
    PROVE  Known \subseteq Known'
<1>1. job[j] \in JobRecord
  BY DEF JobsInv
<1>2. CASE ReportCanisterReady(j) \/ ReportFrontendVerified(j) \/ RetryDeployment(j)
  BY <1>1, <1>2, BecomesKnown DEF ReportCanisterReady, ReportFrontendVerified, RetryDeployment, JobRecord
<1>3. CASE FinalizeDeployment(j) \/ ReportDeploymentFailure(j)
  BY <1>1, <1>3, BecomesKnown
  DEF FinalizeDeployment, ReportDeploymentFailure, FailJob, ArmSettlement, JobRecord
<1> QED
  BY <1>2, <1>3, KickKnown, CancelKnown DEF Intervention

LEMMA JobStepKnown == ASSUME JobsInv, NEW j \in Jobs, JobStep(j) PROVE Known \subseteq Known'
BY KickKnown, PassKnown, TaskKnown, ReportKnown, InterventionKnown DEF JobStep

LEMMA HeartbeatKnown == ASSUME JobsInv, Heartbeat PROVE Known \subseteq Known'
<1>1. PICK old \in SUBSET Jobs :
        job' = [j \in Jobs |-> Reconciled(Rekicked(job[j]), j \in old)]
  BY DEF Heartbeat
<1>2. ASSUME NEW r \in JobRecord
      PROVE  /\ Rekicked(r).status = r.status
             /\ FailJob(Rekicked(r)).status = "failed"
  BY DEF Rekicked, FailJob, ArmSettlement, JobRecord
<1>3. \A j \in Jobs : job'[j].status \in {job[j].status, "failed"}
  BY <1>1, <1>2 DEF JobsInv, Reconciled
<1> QED
  BY <1>3 DEF Known

LEMMA UpgradeStores ==
    ASSUME JobsInv, Upgrade, NEW j \in Jobs
    PROVE  job'[j].status = job[j].status
<1> DEFINE kept == Stored(job[j])
<1>1. kept \in JobRecord /\ kept.status = job[j].status
  BY StoredSound DEF JobsInv
<1>2. \A t : Resumed(kept, t).status = kept.status /\ [kept EXCEPT !.task = t].status = kept.status
  BY <1>1 DEF Resumed, JobRecord
<1> HIDE DEF kept
<1>3. \/ job'[j] = kept
      \/ \E t : job'[j] = Resumed(kept, t)
      \/ \E t : job'[j] = [kept EXCEPT !.task = t]
  BY UpgradedJob DEF kept
<1> QED
  BY <1>1, <1>2, <1>3

LEMMA UpgradeKnown == ASSUME JobsInv, Upgrade PROVE Known \subseteq Known'
BY UpgradeStores DEF Known

----------------------------------------------------------------------------
LEMMA InitInv == Init => JobsInv
BY NoJobSound DEF Init, JobsInv, Sound

LEMMA NextInv == JobsInv /\ [Next]_job => JobsInv'
<1> SUFFICES ASSUME JobsInv, [Next]_job PROVE JobsInv'
  OBVIOUS
<1>1. CASE UNCHANGED job
  BY <1>1 DEF JobsInv
<1>2. CASE Next
  BY <1>2, EnqueueInv, JobStepInv, SettlementInv, HeartbeatInv, UpgradeInv DEF Next
<1> QED
  BY <1>1, <1>2

THEOREM JobsSound == Spec => []JobsInv
BY InitInv, NextInv, PTL DEF Spec

(* The job records keep their types.                                       *)
THEOREM JobsTyping == Spec => []TypeOK
<1>1. JobsInv => TypeOK
  BY DEF JobsInv, TypeOK
<1> QED
  BY <1>1, JobsSound, PTL

(* Whatever endpoints are called and whatever fails, a deploy task that is *)
(* queued or under way has a step runner; the one that an upgrade leaves   *)
(* behind another of its realm says that it waits.                         *)
THEOREM TasksAreRun == Spec => []UnfinishedTaskHasRunner
<1>1. JobsInv => UnfinishedTaskHasRunner
  BY DEF JobsInv, Sound, HasRunner, UnfinishedTaskHasRunner
<1> QED
  BY <1>1, JobsSound, PTL

(* While no pass outlives the staleness of its lock, the provision lock    *)
(* excludes a second pass.                                                 *)
THEOREM LockExcludes ==
    ASSUME "stale_lock" \notin Faults
    PROVE  Spec => []OnePassHoldsTheLock
<1>1. JobsInv => OnePassHoldsTheLock
  BY DEF JobsInv, Sound, HoldsLock, OnePassHoldsTheLock
<1> QED
  BY <1>1, JobsSound, PTL

(* While the installer is not upgraded, a registering job is driven.       *)
THEOREM RegistrationsAreDriven ==
    ASSUME "upgrade" \notin Faults
    PROVE  Spec => []RegisteringIsDriven
<1>1. JobsInv => RegisteringIsDriven
  BY DEF JobsInv, Sound, IsDriven, RegisteringIsDriven
<1> QED
  BY <1>1, JobsSound, PTL

----------------------------------------------------------------------------
(***************************************************************************)
(* Towards JobLife: whatever the handlers do, in whatever order, what a    *)
(* query shows of a job is the life of a job that the portal's pages are   *)
(* checked against.                                                        *)
(***************************************************************************)

(* A job that was never enqueued has nothing armed, suspended or stored.   *)
Unborn == \A j \in Jobs : job[j].status = "none" => job[j] = NoJob

LifeInv == JobsInv /\ Unborn

(* Statuses that are written without a look at the one before.             *)
Unasked == {"provisioning", "extensions", "registering", "completed", "failed",
            "failed_verification"}

Follows(q, r) ==
    \/ r.status = q.status
    \/ q.status # "none" /\ r.status \in Unasked
    \/ q.status = "none" /\ r.status \in {"pending", "provisioning", "failed"}
    \/ q.status = "pending" /\ r.status = "verifying"
    \/ Kickable(q) /\ r.status = "cancelled"

Advances(j) == \E r : Becomes(j, r) /\ r.status # "none" /\ Follows(job[j], r)

LEMMA AdvanceByStatus ==
    ASSUME NEW j \in Jobs, NEW r, Becomes(j, r), r.status # "none", Follows(job[j], r)
    PROVE  Advances(j)
BY DEF Advances

----------------------------------------------------------------------------
(* No handler but enqueue_deployment finds anything to do for such a job.  *)
LEMMA UnbornRests ==
    ASSUME NEW j \in Jobs, job[j] = NoJob
    PROVE  /\ ~ JobStep(j)
           /\ \A o \in Outcomes : ~ SettlementFires(j, o) /\ ~ SettlementReturns(j, o)
<1> USE DEF NoJob
<1>1. ~ Kick(j)
  BY DEF Kick, KickStarts, KickSkips, KickFails
<1>2. ~ PassResumes(j)
  BY DEF PassResumes, PassDeclares, PassRaises, PassWaits, PassFindsBroken, PassFindsBuilt,
     PassBuildsTask, PassPhases
<1>3. ~ LockGoesStale(j) /\ ~ ConductorBuilds(j)
  BY DEF LockGoesStale, ConductorBuilds
<1>4. ~ Runner(j) /\ ~ Registration(j)
  BY DEF Runner, RunnerStarts, RunnerRetries, RunnerFinishes, RunnerDies, Registration,
     RegistrationStarts, RegistrationEnds, Legs
<1>5. ~ ReportResumes(j)
  BY DEF ReportResumes, CanisterStatusRead, FrontendStatusRead, ReportBuildsTask, ReportPhases
<1>6. ~ Intervention(j)
  BY DEF Intervention, ProvisionEndpoint, ReportCanisterReady, ReportFrontendVerified,
     CancelDeployment, FinalizeDeployment, ReportDeploymentFailure, RetryDeployment, Kickable
<1>7. \A o \in Outcomes : ~ SettlementFires(j, o) /\ ~ SettlementReturns(j, o)
  BY DEF SettlementFires, SettlementReturns, Outcomes
<1> QED
  BY <1>1, <1>2, <1>3, <1>4, <1>5, <1>6, <1>7 DEF JobStep

LEMMA EnqueueAdvances ==
    ASSUME JobsInv, NEW j \in Jobs, Enqueue(j)
    PROVE  Advances(j)
BY AdvanceByStatus DEF Enqueue, EnqueueRejected, EnqueueCasals, EnqueueOffChain, Enqueued,
   ArmSettlement, NoJob, Follows, JobRecord

(* What the handlers write, said of one record.                            *)
LEMMA StatusWritten ==
    ASSUME NEW r \in JobRecord
    PROVE  /\ FailJob(r).status = "failed"
           /\ MarkFailed(r).status \in {r.status, "failed"}
           /\ VerificationFails(r).status = "failed_verification"
           /\ \A q \in Requeued(r) : q.status = r.status
           /\ \A t : Resumed(r, t).status = r.status
           /\ \A p : LeavePass(r, p).status = r.status
           /\ \A o : ArmSettlement(r, o).status = r.status
BY DEF FailJob, MarkFailed, VerificationFails, Requeued, Resumed, LeavePass, ArmSettlement,
   JobRecord

LEMMA RequeuedStatus ==
    ASSUME NEW r \in JobRecord, NEW q \in Requeued(r)
    PROVE  q.status = r.status /\ LeavePass(q, "reading").status = r.status
<1>1. PICK t \in {"queued", "active"} : q = Resumed(r, t)
  BY RequeuedIsResumed
<1>2. /\ Resumed(r, t).status = r.status
      /\ LeavePass(Resumed(r, t), "reading").status = r.status
  BY DEF Resumed, LeavePass, JobRecord
<1> QED
  BY <1>1, <1>2

LEMMA PassStartedStatus ==
    ASSUME NEW r \in JobRecord, NEW s \in PassStarted(r)
    PROVE  s.status \in {r.status, "extensions"}
<1> DEFINE e == [r EXCEPT !.lock = "free", !.status = "extensions"]
<1>1. e \in JobRecord
  BY DEF JobRecord, Statuses
<1>2. e.status = "extensions" /\ \A q \in Requeued(e) : q.status = "extensions"
  BY <1>1, StatusWritten DEF JobRecord
<1> QED
  BY <1>2 DEF PassStarted, JobRecord

LEMMA KickAdvances ==
    ASSUME JobsInv, NEW j \in Jobs, job[j].status # "none", Kick(j)
    PROVE  Advances(j)
<1> DEFINE r == [job[j] EXCEPT !.kicks = @ - 1]
<1>1. job[j] \in JobRecord /\ r.status = job[j].status
  BY DEF JobsInv, JobRecord
<1>2. CASE KickStarts(j)
  <2>1. job[j].kicks > 0 /\ \E s \in PassStarted(r) : Becomes(j, s)
    BY <1>2 DEF KickStarts
  <2>2. r \in JobRecord
    BY <1>1, <2>1 DEF JobRecord
  <2> QED
    BY <1>1, <2>1, <2>2, PassStartedStatus, AdvanceByStatus DEF Follows, Unasked
<1>3. CASE KickSkips(j)
  BY <1>1, <1>3, AdvanceByStatus DEF KickSkips, Follows
<1>4. CASE KickFails(j)
  <2>1. job[j].kicks > 0 /\ Becomes(j, MarkFailed(r))
    BY <1>4 DEF KickFails
  <2>2. r \in JobRecord
    BY <1>1, <2>1 DEF JobRecord
  <2> QED
    BY <1>1, <2>1, <2>2, StatusWritten, AdvanceByStatus DEF Follows, Unasked
<1> QED
  BY <1>2, <1>3, <1>4 DEF Kick

(* The segments of a pass write "provisioning", "extensions" or "failed".  *)
LEMMA PassAdvances ==
    ASSUME JobsInv, NEW j \in Jobs, job[j].status # "none", PassResumes(j)
    PROVE  Advances(j)
<1>1. job[j] \in JobRecord
  BY DEF JobsInv
<1>2. \A r, p : LeavePass(r, p).status = r.status
  BY DEF LeavePass
<1>3. CASE PassDeclares(j)
  BY <1>1, <1>3, AdvanceByStatus DEF PassDeclares, Follows, JobRecord
<1>4. CASE PassRaises(j)
  <2>1. PICK p \in {"declaring", "reading"} :
          job[j].pass[p] > 0 /\ Becomes(j, MarkFailed(LeavePass(job[j], p)))
    BY <1>4 DEF PassRaises
  <2>2. MarkFailed(LeavePass(job[j], p)).status \in {job[j].status, "failed"}
    BY <1>1 DEF MarkFailed, FailJob, ArmSettlement, LeavePass, JobRecord
  <2> QED
    BY <2>1, <2>2, AdvanceByStatus DEF Follows, Unasked
<1>5. CASE PassWaits(j)
  BY <1>1, <1>5, AdvanceByStatus DEF PassWaits, LeavePass, Follows, Unasked, JobRecord
<1>6. CASE PassFindsBroken(j)
  BY <1>1, <1>6, AdvanceByStatus
  DEF PassFindsBroken, LeavePass, FailJob, ArmSettlement, Follows, Unasked, JobRecord
<1>7. CASE PassFindsBuilt(j)
  <2> DEFINE e == [job[j] EXCEPT !.status = "extensions"]
  <2>1. e \in JobRecord /\ e.status = "extensions"
    BY <1>1 DEF JobRecord, Statuses
  <2>2. \/ Becomes(j, [e EXCEPT !.pass["reading"] = @ - 1, !.pass["bootstrap"] = @ + 1])
        \/ \E q \in Requeued(e) : Becomes(j, LeavePass(q, "reading"))
    BY <1>7 DEF PassFindsBuilt
  <2>3. [e EXCEPT !.pass["reading"] = @ - 1, !.pass["bootstrap"] = @ + 1].status = e.status
    BY <2>1 DEF JobRecord
  <2>4. \A q \in Requeued(e) : LeavePass(q, "reading").status = "extensions"
    BY <2>1, RequeuedStatus
  <2> QED
    BY <2>1, <2>2, <2>3, <2>4, AdvanceByStatus DEF Follows, Unasked
<1>8. CASE PassBuildsTask(j)
  <2>1. \A q \in NewTask(job[j], j) : LeavePass(q, "bootstrap").status = job[j].status
    <3>1. \A t : LeavePass(Resumed(job[j], t), "bootstrap").status = job[j].status
      BY <1>1 DEF LeavePass, Resumed, JobRecord
    <3> QED
      BY <3>1, NewTaskIsResumed
  <2>2. LeavePass(FailJob(job[j]), "bootstrap").status = "failed"
    BY <1>1 DEF LeavePass, FailJob, ArmSettlement, JobRecord
  <2> QED
    BY <1>8, <2>1, <2>2, AdvanceByStatus DEF PassBuildsTask, Follows, Unasked
<1> QED
  BY <1>3, <1>4, <1>5, <1>6, <1>7, <1>8 DEF PassResumes

LEMMA TaskAdvances ==
    ASSUME JobsInv, NEW j \in Jobs, job[j].status # "none",
           \/ LockGoesStale(j) \/ ConductorBuilds(j)
           \/ Runner(j) \/ Registration(j)
    PROVE  Advances(j)
<1>1. job[j] \in JobRecord
  BY DEF JobsInv
<1>2. CASE LockGoesStale(j) \/ ConductorBuilds(j)
  BY <1>1, <1>2, AdvanceByStatus DEF LockGoesStale, ConductorBuilds, Follows, JobRecord
<1>3. CASE Runner(j)
  BY <1>1, <1>3, AdvanceByStatus
  DEF Runner, RunnerStarts, RunnerRetries, RunnerFinishes, RunnerDies, FailJob, ArmSettlement,
      Follows, Unasked, JobRecord
<1>4. CASE Registration(j)
  BY <1>1, <1>4, AdvanceByStatus
  DEF Registration, RegistrationStarts, RegistrationEnds, MarkFailed, FailJob, ArmSettlement,
      Follows, Unasked, JobRecord
<1> QED
  BY <1>2, <1>3, <1>4

LEMMA SettlementAdvances ==
    ASSUME JobsInv, NEW j \in Jobs, job[j].status # "none", NEW o \in Outcomes,
           SettlementFires(j, o) \/ SettlementReturns(j, o)
    PROVE  Advances(j)
BY AdvanceByStatus DEF JobsInv, SettlementFires, SettlementReturns, Follows, JobRecord

LEMMA ReportAdvances ==
    ASSUME JobsInv, NEW j \in Jobs, job[j].status # "none", ReportResumes(j)
    PROVE  Advances(j)
<1>1. job[j] \in JobRecord
  BY DEF JobsInv
<1>2. CASE CanisterStatusRead(j)
  BY <1>1, <1>2, AdvanceByStatus
  DEF CanisterStatusRead, VerificationFails, ArmSettlement, Follows, Unasked, JobRecord
<1>3. CASE FrontendStatusRead(j)
  <2> DEFINE r == [job[j] EXCEPT !.report["frontend"] = @ - 1]
             e == [r EXCEPT !.status = "extensions"]
  <2>1. /\ VerificationFails(r).status = "failed_verification"
        /\ e.status = "extensions"
        /\ [e EXCEPT !.report["deps"] = @ + 1].status = "extensions"
    BY <1>1 DEF VerificationFails, ArmSettlement, JobRecord
  <2>2. \A q \in Requeued(e) : q.status = "extensions"
    <3>1. [job[j].report EXCEPT !["frontend"] = @ - 1] \in Counters(ReportPhases)
      BY <1>1, <1>3 DEF FrontendStatusRead, JobRecord, Counters, ReportPhases
    <3>2. \A c \in Counters(ReportPhases) :
            [job[j] EXCEPT !.report = c, !.status = "extensions"] \in JobRecord
      BY <1>1 DEF JobRecord, Statuses
    <3>3. e \in JobRecord
      BY <3>1, <3>2
    <3> QED
      BY <2>1, <3>3, RequeuedStatus
  <2>3. \/ Becomes(j, VerificationFails(r)) \/ Becomes(j, [e EXCEPT !.report["deps"] = @ + 1])
        \/ \E q \in Requeued(e) : Becomes(j, q)
        \/ Becomes(j, e)
    BY <1>3 DEF FrontendStatusRead
  <2> QED
    BY <2>1, <2>2, <2>3, AdvanceByStatus DEF Follows, Unasked
<1>4. CASE ReportBuildsTask(j)
  <2> DEFINE d == [job[j] EXCEPT !.report["deps"] = @ - 1]
  <2>1. d.status = job[j].status /\ \A t : Resumed(d, t).status = job[j].status
    BY <1>1 DEF Resumed, JobRecord
  <2>2. FailJob(d).status = "failed" /\ \A q \in NewTask(d, j) : q.status = job[j].status
    <3>1. FailJob(d).status = "failed"
      BY <1>1 DEF FailJob, ArmSettlement, JobRecord
    <3> QED
      BY <2>1, <3>1, NewTaskIsResumed
  <2> QED
    BY <1>4, <2>2, AdvanceByStatus DEF ReportBuildsTask, Follows, Unasked
<1> QED
  BY <1>2, <1>3, <1>4 DEF ReportResumes

LEMMA InterventionAdvances ==
    ASSUME JobsInv, NEW j \in Jobs, job[j].status # "none", Intervention(j)
    PROVE  Advances(j)
<1>1. job[j] \in JobRecord
  BY DEF JobsInv
<1>2. CASE ProvisionEndpoint(j)
  BY <1>1, <1>2, PassStartedStatus, StatusWritten, AdvanceByStatus
  DEF ProvisionEndpoint, Follows, Unasked
<1>3. CASE ReportCanisterReady(j) \/ ReportFrontendVerified(j)
  BY <1>1, <1>3, AdvanceByStatus
  DEF ReportCanisterReady, ReportFrontendVerified, Follows, JobRecord
<1>4. CASE CancelDeployment(j)
  BY <1>1, <1>4, AdvanceByStatus
  DEF CancelDeployment, Cancelled, ArmSettlement, Follows, JobRecord
<1>5. CASE FinalizeDeployment(j) \/ ReportDeploymentFailure(j) \/ RetryDeployment(j)
  BY <1>1, <1>5, AdvanceByStatus
  DEF FinalizeDeployment, ReportDeploymentFailure, RetryDeployment, FailJob, ArmSettlement,
      Follows, Unasked, JobRecord
<1> QED
  BY <1>2, <1>3, <1>4, <1>5 DEF Intervention

LEMMA JobStepAdvances ==
    ASSUME JobsInv, NEW j \in Jobs, job[j].status # "none", JobStep(j)
    PROVE  Advances(j)
BY KickAdvances, PassAdvances, TaskAdvances, ReportAdvances, InterventionAdvances DEF JobStep

----------------------------------------------------------------------------
(* The handlers that look at every job: a status stays, or becomes failed. *)
LEMMA HeartbeatStatus ==
    ASSUME JobsInv, Unborn, Heartbeat, NEW j \in Jobs
    PROVE  /\ job[j].status = "none" => job'[j] = NoJob
           /\ job[j].status # "none" => job'[j].status \in {job[j].status, "failed"}
<1>1. PICK old \in SUBSET Jobs :
        job' = [i \in Jobs |-> Reconciled(Rekicked(job[i]), i \in old)]
  BY DEF Heartbeat
<1>2. ASSUME NEW r \in JobRecord
      PROVE  /\ Rekicked(r).status = r.status
             /\ FailJob(Rekicked(r)).status = "failed"
  BY DEF Rekicked, FailJob, ArmSettlement, JobRecord
<1>3. Rekicked(NoJob) = NoJob /\ ~ Stranded(NoJob)
  BY DEF Rekicked, Stranded, Kickable, NoJob
<1>4. job'[j] = Reconciled(Rekicked(job[j]), j \in old) /\ job[j] \in JobRecord
  BY <1>1 DEF JobsInv
<1>5. CASE job[j].status = "none"
  <2>1. job[j] = NoJob
    BY <1>5 DEF Unborn
  <2> QED
    BY <1>3, <1>4, <1>5, <2>1 DEF Reconciled
<1>6. CASE job[j].status # "none"
  BY <1>2, <1>4, <1>6 DEF Reconciled
<1> QED
  BY <1>5, <1>6

LEMMA UpgradeStatus ==
    ASSUME JobsInv, Unborn, Upgrade, NEW j \in Jobs
    PROVE  /\ job[j].status = "none" => job'[j] = NoJob
           /\ job'[j].status = job[j].status
<1>1. Stored(NoJob) = NoJob /\ NoJob.task = "none"
  BY DEF Stored, NoJob
<1> QED
  BY <1>1, UpgradeStores, UpgradedJob DEF Unborn

----------------------------------------------------------------------------
(* What a step does to one job, as JobLife sees it.                        *)
LivesOn(j) ==
    /\ job'[j].status = "none" => job[j].status = "none" /\ job'[j] = NoJob
    /\ Follows(job[j], job'[j])

LEMMA AdvanceLivesOn ==
    ASSUME JobsInv, Unborn, NEW j \in Jobs, Advances(j), NEW i \in Jobs
    PROVE  LivesOn(i)
<1>1. PICK r : job' = [job EXCEPT ![j] = r] /\ r.status # "none" /\ Follows(job[j], r)
  BY DEF Advances, Becomes
<1>2. job'[j] = r /\ (i # j => job'[i] = job[i])
  BY <1>1 DEF JobsInv
<1> QED
  BY <1>1, <1>2 DEF LivesOn, Follows, Unborn

LEMMA StepLivesOn ==
    ASSUME LifeInv, [Next]_job, NEW i \in Jobs
    PROVE  LivesOn(i)
<1>1. CASE UNCHANGED job
  BY <1>1 DEF LifeInv, LivesOn, Follows, Unborn
<1>2. ASSUME NEW j \in Jobs, Enqueue(j) \/ JobStep(j)
      PROVE  LivesOn(i)
  <2>1. CASE Enqueue(j)
    BY <2>1, EnqueueAdvances, AdvanceLivesOn DEF LifeInv
  <2>2. CASE JobStep(j)
    <3>1. job[j].status # "none"
      BY <2>2, UnbornRests DEF LifeInv, Unborn
    <3> QED
      BY <2>2, <3>1, JobStepAdvances, AdvanceLivesOn DEF LifeInv
  <2> QED
    BY <1>2, <2>1, <2>2
<1>3. ASSUME NEW j \in Jobs, NEW o \in Outcomes, SettlementFires(j, o) \/ SettlementReturns(j, o)
      PROVE  LivesOn(i)
  <2>1. job[j].status # "none"
    BY <1>3, UnbornRests DEF LifeInv, Unborn
  <2> QED
    BY <1>3, <2>1, SettlementAdvances, AdvanceLivesOn DEF LifeInv
<1>4. CASE Heartbeat
  <2>1. CASE job[i].status = "none"
    <3>1. job'[i] = NoJob /\ NoJob.status = "none"
      BY <1>4, <2>1, HeartbeatStatus DEF LifeInv, NoJob
    <3> QED
      BY <2>1, <3>1 DEF LivesOn, Follows
  <2>2. CASE job[i].status # "none"
    <3>1. job'[i].status \in {job[i].status, "failed"}
      BY <1>4, <2>2, HeartbeatStatus DEF LifeInv
    <3> QED
      BY <2>2, <3>1 DEF LivesOn, Follows, Unasked
  <2> QED
    BY <2>1, <2>2
<1>5. CASE Upgrade
  BY <1>5, UpgradeStatus DEF LifeInv, LivesOn, Follows, NoJob
<1> QED
  BY <1>1, <1>2, <1>3, <1>4, <1>5 DEF Next

LEMMA FollowsIsLife ==
    ASSUME NEW q \in JobRecord, NEW r \in JobRecord, Follows(q, r)
    PROVE  r.status # q.status => q.status \in Life!Before(r.status)
<1>1. q.status \in Statuses /\ r.status \in Statuses
  BY DEF JobRecord
<1> QED
  BY <1>1 DEF Follows, Unasked, Kickable, Statuses, Terminal, Life!Before, Life!LiveStatuses,
     Life!EndedStatuses

LEMMA LifeInvInit == Init => LifeInv
BY InitInv DEF Init, LifeInv, Unborn

LEMMA LifeInvNext == LifeInv /\ [Next]_job => LifeInv'
<1> SUFFICES ASSUME LifeInv, [Next]_job PROVE LifeInv'
  OBVIOUS
<1>1. JobsInv'
  BY NextInv DEF LifeInv
<1>2. Unborn'
  BY StepLivesOn DEF LivesOn, Unborn
<1> QED
  BY <1>1, <1>2 DEF LifeInv

StatusOf == [j \in Jobs |-> job[j].status]

LEMMA NextIsLife == LifeInv /\ LifeInv' /\ [Next]_job => [Life!LifeNext]_StatusOf
<1> SUFFICES ASSUME LifeInv, LifeInv', [Next]_job PROVE Life!LifeNext
  OBVIOUS
<1>1. \A j \in Jobs : /\ job[j] \in JobRecord /\ job'[j] \in JobRecord
                      /\ Follows(job[j], job'[j])
  BY StepLivesOn DEF LifeInv, JobsInv, LivesOn
<1>2. \A j \in Jobs : job'[j].status \in Life!LifeStatuses
  BY <1>1 DEF JobRecord, Statuses, Terminal, Life!LifeStatuses, Life!LiveStatuses, Life!EndedStatuses
<1>3. \A j \in Jobs : job'[j].status # job[j].status =>
                        job[j].status \in Life!Before(job'[j].status)
  BY <1>1, FollowsIsLife
<1> QED
  BY <1>2, <1>3 DEF Life!LifeNext, Life!LifeStatuses

LEMMA InitIsLife == Init => Life!LifeInit
BY DEF Init, NoJob, Life!LifeInit

(* What anyone can see of a job by querying its status is a life that      *)
(* JobLife describes, under every failure, upgrade and interleaving.       *)
THEOREM InstallerImplementsLife == Spec => ImplementsLife
<1>1. Spec => []LifeInv
  BY LifeInvInit, LifeInvNext, PTL DEF Spec
<1> QED
  BY <1>1, InitIsLife, NextIsLife, PTL DEF Spec, ImplementsLife, Life!LifeSpec, StatusOf

----------------------------------------------------------------------------
(* Why a completed job stays completed: as long as nobody reopens a job    *)
(* and no pass outlives its lock, at most one thing works on it at a time. *)
(* A pass hands the job on to a runner and the runner to a registration,   *)
(* so when the registration ends nothing is left that could take the job   *)
(* back, and no kick, heartbeat or upgrade makes anything new start.       *)


(* Jobs that only Casals deploys, and that are not retried or finalized.   *)
NobodyReopens ==
    /\ Interventions \subseteq {"cancel", "report_failure", "provision"}
    /\ "stale_lock" \notin Faults

Runners(r) == r.runner["armed"] + r.runner["running"]
Registrations(r) == r.registration["armed"] + r.registration["running"]

Single(r) ==
    /\ Reports(r) = 0
    /\ Passes(r) + Runners(r) + Registrations(r) <= 1
    /\ Passes(r) > 0 => r.task = "none"
    /\ Kickable(r) => r.task = "none" /\ r.pass["bootstrap"] = 0
    /\ r.task = "none" => Runners(r) + Registrations(r) = 0
    /\ r.task = "ended" => Runners(r) = 0
    /\ r.task \in {"waiting", "held"} => Registrations(r) = 0
    /\ r.status \in {"registering", "completed"} => r.task = "ended"

FinalInv == JobsInv /\ \A j \in Jobs : Single(job[j])

(* A handler leaves one thing working on the job, and a completed job      *)
(* completed.                                                              *)
Keeps(q, r) == Single(r) /\ (q.status = "completed" => r.status = "completed")

StepKeeps == \A j \in Jobs : Keeps(job[j], job'[j])

LEMMA KeepsByRecord ==
    ASSUME FinalInv, NEW j \in Jobs, NEW r, Becomes(j, r), Keeps(job[j], r)
    PROVE  StepKeeps
BY DEF FinalInv, JobsInv, Becomes, StepKeeps, Keeps

----------------------------------------------------------------------------
(* What is at work on a job does not change.                               *)
Same(q, r) ==
    /\ r.pass = q.pass /\ r.runner = q.runner /\ r.registration = q.registration
    /\ r.report = q.report /\ r.task = q.task

LEMMA SameKeeps ==
    ASSUME NEW q, NEW r, Single(q), Same(q, r),
           \/ r.status = q.status
           \/ q.status # "completed" /\ r.status \in {"failed", "cancelled"}
           \/ q.status # "completed" /\ q.task = "none" /\ r.status = "extensions"
           \/ q.status # "completed" /\ q.task = "none" /\ r.status = "provisioning"
              /\ q.pass["bootstrap"] = 0
    PROVE  Keeps(q, r)
BY DEF Same, Keeps, Single, Passes, Runners, Registrations, Reports, Kickable

LEMMA FailsSame ==
    ASSUME NEW r \in JobRecord
    PROVE  /\ Same(r, FailJob(r)) /\ FailJob(r).status = "failed"
           /\ Same(r, MarkFailed(r))
           /\ r.status \in Terminal => MarkFailed(r).status = r.status
           /\ MarkFailed(r).status \in {r.status, "failed"}
BY DEF Same, FailJob, MarkFailed, ArmSettlement, JobRecord

(* A completed job has no pass, no runner and no kick that would start one.*)
LEMMA CompletedRests ==
    ASSUME NEW r \in JobRecord, Single(r), r.status = "completed"
    PROVE  Passes(r) = 0 /\ Runners(r) = 0 /\ ~ Kickable(r)
BY DEF Single, JobRecord, Counters, Passes, PassPhases, Kickable

LEMMA CountsAreNat ==
    ASSUME NEW r \in JobRecord
    PROVE  /\ r.pass \in [PassPhases -> Nat]
           /\ r.runner \in [Legs -> Nat] /\ r.registration \in [Legs -> Nat]
           /\ Passes(r) \in Nat /\ Runners(r) \in Nat /\ Registrations(r) \in Nat
BY DEF JobRecord, Counters, Passes, PassPhases, Runners, Registrations, Legs

(* A sum that does not pass one has one summand at most.                   *)
LEMMA OneOfThree ==
    ASSUME NEW f \in [PassPhases -> Nat], NEW p \in PassPhases, f[p] > 0,
           f["declaring"] + f["reading"] + f["bootstrap"] <= 1
    PROVE  f[p] = 1 /\ \A q \in PassPhases \ {p} : f[q] = 0
<1>1. CASE p = "declaring"
  BY <1>1 DEF PassPhases
<1>2. CASE p = "reading"
  BY <1>2 DEF PassPhases
<1>3. CASE p = "bootstrap"
  BY <1>3 DEF PassPhases
<1> QED
  BY <1>1, <1>2, <1>3 DEF PassPhases

LEMMA SomeOfThree ==
    ASSUME NEW f \in [PassPhases -> Nat], NEW p \in PassPhases, f[p] > 0
    PROVE  f["declaring"] + f["reading"] + f["bootstrap"] > 0
<1>1. CASE p = "declaring"
  BY <1>1 DEF PassPhases
<1>2. CASE p = "reading"
  BY <1>2 DEF PassPhases
<1>3. CASE p = "bootstrap"
  BY <1>3 DEF PassPhases
<1> QED
  BY <1>1, <1>2, <1>3 DEF PassPhases

LEMMA OneOfTwo ==
    ASSUME NEW f \in [Legs -> Nat], NEW l \in Legs, f[l] > 0
    PROVE  /\ f["armed"] + f["running"] > 0
           /\ f["armed"] + f["running"] <= 1
                => f[l] = 1 /\ \A k \in Legs \ {l} : f[k] = 0
<1>1. CASE l = "armed"
  BY <1>1 DEF Legs
<1>2. CASE l = "running"
  BY <1>2 DEF Legs
<1> QED
  BY <1>1, <1>2 DEF Legs

(* Where a pass waits, nothing else works on the job, which has no task.   *)
LEMMA PassIsAlone ==
    ASSUME NEW r \in JobRecord, Single(r), NEW p \in PassPhases, r.pass[p] > 0
    PROVE  /\ r.task = "none" /\ r.status # "completed" /\ r.status # "registering"
           /\ Runners(r) = 0 /\ Registrations(r) = 0 /\ Reports(r) = 0
           /\ r.pass[p] = 1 /\ \A q \in PassPhases \ {p} : r.pass[q] = 0
<1>1. Passes(r) > 0
  BY CountsAreNat, SomeOfThree DEF Passes
<1>2. Passes(r) <= 1 /\ Runners(r) = 0 /\ Registrations(r) = 0
  BY <1>1, CountsAreNat DEF Single
<1>3. r.pass[p] = 1 /\ \A q \in PassPhases \ {p} : r.pass[q] = 0
  BY <1>2, CountsAreNat, OneOfThree DEF Passes
<1>4. r.task = "none"
  BY <1>1 DEF Single
<1>5. r.status # "completed" /\ r.status # "registering" /\ Reports(r) = 0
  BY <1>4 DEF Single
<1> QED
  BY <1>2, <1>3, <1>4, <1>5

(* The same of a runner.                                                   *)
LEMMA RunnerIsAlone ==
    ASSUME NEW r \in JobRecord, Single(r), NEW l \in Legs, r.runner[l] > 0
    PROVE  /\ r.task \notin {"none", "ended"} /\ r.status \notin {"registering", "completed"}
           /\ ~ Kickable(r)
           /\ Passes(r) = 0 /\ Registrations(r) = 0 /\ Reports(r) = 0
           /\ r.runner[l] = 1 /\ \A k \in Legs \ {l} : r.runner[k] = 0
<1>1. Runners(r) > 0
  BY CountsAreNat, OneOfTwo DEF Runners
<1>2. Runners(r) <= 1 /\ Passes(r) = 0 /\ Registrations(r) = 0
  BY <1>1, CountsAreNat DEF Single
<1>3. r.runner[l] = 1 /\ \A k \in Legs \ {l} : r.runner[k] = 0
  BY <1>2, CountsAreNat, OneOfTwo DEF Runners
<1>4. r.task \notin {"none", "ended"}
  BY <1>1, CountsAreNat DEF Single
<1>5. r.status \notin {"registering", "completed"} /\ ~ Kickable(r) /\ Reports(r) = 0
  BY <1>4 DEF Single
<1> QED
  BY <1>2, <1>3, <1>4, <1>5

----------------------------------------------------------------------------
(* The pass, from its start to its end.                                    *)
LEMMA PassStartedKeeps ==
    ASSUME NobodyReopens, NEW r, Sound(r), Single(r), CanStartPass(r), NEW s \in PassStarted(r)
    PROVE  Keeps(r, s)
<1>1. r \in JobRecord /\ Kickable(r) /\ r.lock # "fresh" /\ r.task = "none"
  BY DEF Sound, CanStartPass, Single
<1>2. ~ (Passes(r) > 0)
  BY <1>1 DEF NobodyReopens, Sound, HoldsLock
<1>3. /\ r.pass["declaring"] = 0 /\ r.pass["reading"] = 0 /\ r.pass["bootstrap"] = 0
      /\ r.pass \in [PassPhases -> Nat]
  BY <1>1, <1>2 DEF JobRecord, Counters, Passes, PassPhases
<1>4. s = [r EXCEPT !.lock = "fresh", !.pass["declaring"] = @ + 1]
  BY <1>1 DEF PassStarted
<1>5. /\ s.pass = [r.pass EXCEPT !["declaring"] = @ + 1]
      /\ s.runner = r.runner /\ s.registration = r.registration /\ s.report = r.report
      /\ s.task = r.task /\ s.status = r.status
  BY <1>1, <1>4 DEF JobRecord
<1>6. Passes(s) = 1 /\ s.pass["bootstrap"] = 0
  BY <1>3, <1>5 DEF Passes, PassPhases
<1>7. Reports(s) = 0 /\ Runners(s) = Runners(r) /\ Registrations(s) = Registrations(r)
  BY <1>5 DEF Single, Reports, Runners, Registrations
<1>8. Runners(r) = 0 /\ Registrations(r) = 0
  BY <1>1, CountsAreNat DEF Single
<1>9. r.status \in {"pending", "provisioning"}
  BY <1>1 DEF Kickable
<1> QED
  BY <1>1, <1>5, <1>6, <1>7, <1>8, <1>9 DEF Single, Keeps

LEMMA PassMovesSingle ==
    ASSUME NEW r \in JobRecord, Single(r), NEW p \in PassPhases, NEW q \in PassPhases \ {p},
           r.pass[p] > 0, NEW stand, q = "bootstrap" => ~ Kickable(r)
    PROVE  Single([r EXCEPT !.pass[p] = @ - 1, !.pass[q] = @ + 1, !.stand = stand])
<1> DEFINE s == [r EXCEPT !.pass[p] = @ - 1, !.pass[q] = @ + 1, !.stand = stand]
<1>1. /\ r.task = "none" /\ r.status # "completed" /\ r.status # "registering"
      /\ Runners(r) = 0 /\ Registrations(r) = 0 /\ Reports(r) = 0
      /\ r.pass[p] = 1 /\ \A k \in PassPhases \ {p} : r.pass[k] = 0
  BY PassIsAlone
<1>2. /\ s.pass = [r.pass EXCEPT ![p] = @ - 1, ![q] = @ + 1]
      /\ s.runner = r.runner /\ s.registration = r.registration /\ s.report = r.report
      /\ s.task = r.task /\ s.status = r.status
  BY DEF JobRecord
<1>3. s.pass[q] = 1 /\ \A k \in PassPhases \ {q} : s.pass[k] = 0
  BY <1>1, <1>2 DEF JobRecord, Counters
<1>4. Passes(s) = 1 /\ (q # "bootstrap" => s.pass["bootstrap"] = 0)
  BY <1>3 DEF Passes, PassPhases
<1>5. Kickable(s) <=> Kickable(r)
  BY <1>2 DEF Kickable
<1>6. Runners(s) = 0 /\ Registrations(s) = 0 /\ Reports(s) = 0
  BY <1>1, <1>2 DEF Runners, Registrations, Reports
<1>7. Single(s)
  <2> HIDE DEF s
  <2> QED
    BY <1>1, <1>2, <1>4, <1>5, <1>6 DEF Single
<1> QED
  BY <1>7

LEMMA LeavePassSingle ==
    ASSUME NEW r \in JobRecord, Single(r), NEW p \in PassPhases, r.pass[p] > 0
    PROVE  Single(LeavePass(r, p)) /\ r.status # "completed"
<1> DEFINE s == LeavePass(r, p)
<1>1. /\ r.task = "none" /\ r.status # "completed" /\ r.status # "registering"
      /\ Runners(r) = 0 /\ Registrations(r) = 0 /\ Reports(r) = 0
      /\ r.pass[p] = 1 /\ \A k \in PassPhases \ {p} : r.pass[k] = 0
  BY PassIsAlone
<1>2. /\ s.pass = [r.pass EXCEPT ![p] = @ - 1]
      /\ s.runner = r.runner /\ s.registration = r.registration /\ s.report = r.report
      /\ s.task = r.task /\ s.status = r.status
  BY DEF JobRecord, LeavePass
<1>3. \A k \in PassPhases : s.pass[k] = 0
  BY <1>1, <1>2 DEF JobRecord, Counters
<1>4. Passes(s) = 0 /\ s.pass["bootstrap"] = 0
  BY <1>3 DEF Passes, PassPhases
<1>5. Runners(s) = 0 /\ Registrations(s) = 0 /\ Reports(s) = 0
  BY <1>1, <1>2 DEF Runners, Registrations, Reports
<1>6. Single(s)
  <2> HIDE DEF s
  <2> QED
    BY <1>1, <1>2, <1>4, <1>5 DEF Single
<1> QED
  BY <1>1, <1>6

(* The pass that built the task leaves it with its runner.                 *)
LEMMA PassHandsOver ==
    ASSUME NEW r \in JobRecord, Single(r), r.pass["bootstrap"] > 0,
           NEW t \in {"queued", "active"}
    PROVE  Single(LeavePass(Resumed(r, t), "bootstrap"))
<1> DEFINE s == LeavePass(Resumed(r, t), "bootstrap")
<1>1. /\ r.task = "none" /\ r.status # "completed" /\ r.status # "registering"
      /\ Runners(r) = 0 /\ Registrations(r) = 0 /\ Reports(r) = 0
      /\ r.pass["bootstrap"] = 1 /\ \A k \in PassPhases \ {"bootstrap"} : r.pass[k] = 0
  BY PassIsAlone DEF PassPhases
<1>2. /\ s.pass = [r.pass EXCEPT !["bootstrap"] = @ - 1]
      /\ s.runner = [r.runner EXCEPT !["armed"] = @ + 1]
      /\ s.registration = r.registration /\ s.report = r.report
      /\ s.task = t /\ s.status = r.status
  BY DEF JobRecord, LeavePass, Resumed
<1>3. \A k \in PassPhases : s.pass[k] = 0
  BY <1>1, <1>2 DEF JobRecord, Counters
<1>4. Passes(s) = 0
  BY <1>3 DEF Passes, PassPhases
<1>5. r.runner \in [Legs -> Nat]
  BY DEF JobRecord, Counters
<1>6. Runners(s) = Runners(r) + 1
  BY <1>2, <1>5 DEF Runners, Legs
<1>7. Registrations(s) = 0 /\ Reports(s) = 0
  BY <1>1, <1>2 DEF Registrations, Reports
<1>8. ~ Kickable(s)
  BY <1>1, <1>2 DEF Single, Kickable
<1>9. Single(s)
  <2> HIDE DEF s
  <2> QED
    BY <1>1, <1>2, <1>4, <1>6, <1>7, <1>8 DEF Single
<1> QED
  BY <1>9

LEMMA PassKeeps ==
    ASSUME FinalInv, NEW j \in Jobs, PassResumes(j)
    PROVE  StepKeeps
<1> DEFINE q == job[j]
<1>1. q \in JobRecord /\ Single(q)
  BY DEF FinalInv, JobsInv
<1>2. /\ FailJob(q) \in JobRecord /\ MarkFailed(q) \in JobRecord
      /\ [q EXCEPT !.status = "extensions"] \in JobRecord
      /\ [q EXCEPT !.status = "provisioning", !.kicks = @ + 1] \in JobRecord
  <2>1. Sound(FailJob(q)) /\ Sound(MarkFailed(q))
    BY FailJobSound DEF FinalInv, JobsInv
  <2>2. FailJob(q) \in JobRecord /\ MarkFailed(q) \in JobRecord
    BY <2>1 DEF Sound
  <2>3. /\ [q EXCEPT !.status = "extensions"] \in JobRecord
        /\ [q EXCEPT !.status = "provisioning", !.kicks = @ + 1] \in JobRecord
    <3>1. q.kicks + 1 \in Nat /\ {"extensions", "provisioning"} \subseteq Statuses
      BY <1>1 DEF JobRecord, Statuses
    <3>2. \A s \in Statuses, k \in Nat : [q EXCEPT !.status = s, !.kicks = k] \in JobRecord
      BY <1>1 DEF JobRecord
    <3>3. \A s \in Statuses : [q EXCEPT !.status = s] \in JobRecord
      BY <1>1 DEF JobRecord
    <3> QED
      BY <3>1, <3>2, <3>3
  <2> QED
    BY <2>2, <2>3
<1>3. CASE PassDeclares(j)
  <2>1. Single([q EXCEPT !.pass["declaring"] = @ - 1, !.pass["reading"] = @ + 1,
                         !.stand = IF @ = "built" THEN @ ELSE "building"])
    BY <1>1, <1>3, PassMovesSingle DEF PassDeclares, PassPhases
  <2>2. q.status # "completed"
    BY <1>1, <1>3, PassIsAlone DEF PassDeclares, PassPhases
  <2> QED
    BY <1>3, <2>1, <2>2, KeepsByRecord DEF PassDeclares, Keeps
<1>4. CASE PassRaises(j)
  <2>1. PICK p \in {"declaring", "reading"} : q.pass[p] > 0 /\ Becomes(j, MarkFailed(LeavePass(q, p)))
    BY <1>4 DEF PassRaises
  <2>2. p \in PassPhases
    BY DEF PassPhases
  <2>3. Single(LeavePass(q, p)) /\ q.status # "completed" /\ LeavePass(q, p).status = q.status
    BY <1>1, <2>1, <2>2, LeavePassSingle DEF LeavePass, JobRecord
  <2>4. LeavePass(q, p) \in JobRecord
    <3>1. Sound(LeavePass(q, p))
      BY <2>1, <2>2, LeavePassSound DEF FinalInv, JobsInv
    <3> QED
      BY <3>1 DEF Sound
  <2>5. Keeps(LeavePass(q, p), MarkFailed(LeavePass(q, p)))
    BY <2>3, <2>4, FailsSame, SameKeeps
  <2> QED
    BY <2>1, <2>3, <2>5, KeepsByRecord DEF Keeps
<1>5. ASSUME q.pass["reading"] > 0
      PROVE  q.status # "completed" /\ q.task = "none" /\ q.pass["bootstrap"] = 0
  BY <1>1, <1>5, PassIsAlone DEF PassPhases
<1>6. CASE PassWaits(j)
  <2> DEFINE e == [q EXCEPT !.status = "provisioning", !.kicks = @ + 1]
  <2>1. Same(q, e) /\ e.status = "provisioning"
    BY <1>1 DEF Same, JobRecord
  <2>2. Single(e)
    BY <1>1, <1>5, <1>6, <2>1, SameKeeps DEF Keeps, PassWaits
  <2>3. Single(LeavePass(e, "reading"))
    BY <1>2, <1>6, <2>1, <2>2, LeavePassSingle DEF PassWaits, Same, PassPhases
  <2> QED
    BY <1>5, <1>6, <2>3, KeepsByRecord DEF PassWaits, Keeps
<1>7. ASSUME NEW p \in PassPhases, q.pass[p] > 0, Becomes(j, LeavePass(FailJob(q), p))
      PROVE  StepKeeps
  <2>1. q.status # "completed"
    BY <1>1, <1>7, PassIsAlone
  <2>2. Single(FailJob(q)) /\ FailJob(q).pass = q.pass
    BY <1>1, <2>1, FailsSame, SameKeeps DEF Keeps, Same
  <2>3. Single(LeavePass(FailJob(q), p))
    BY <1>2, <1>7, <2>2, LeavePassSingle
  <2> QED
    BY <1>7, <2>1, <2>3, KeepsByRecord DEF Keeps
<1>8. CASE PassFindsBroken(j)
  BY <1>7, <1>8 DEF PassFindsBroken, PassPhases
<1>9. CASE PassFindsBuilt(j)
  <2> DEFINE e == [q EXCEPT !.status = "extensions"]
  <2>1. Same(q, e) /\ e.status = "extensions"
    BY <1>1 DEF Same, JobRecord
  <2>2. Single(e)
    BY <1>1, <1>5, <1>9, <2>1, SameKeeps DEF Keeps, PassFindsBuilt
  <2>3. e.pass["reading"] > 0 /\ ~ Kickable(e) /\ e.task = "none"
    BY <1>5, <1>9, <2>1 DEF PassFindsBuilt, Same, Kickable
  <2>4. Single([e EXCEPT !.pass["reading"] = @ - 1, !.pass["bootstrap"] = @ + 1, !.stand = q.stand])
    BY <1>2, <2>2, <2>3, PassMovesSingle DEF PassPhases
  <2>5. [e EXCEPT !.pass["reading"] = @ - 1, !.pass["bootstrap"] = @ + 1, !.stand = q.stand]
        = [e EXCEPT !.pass["reading"] = @ - 1, !.pass["bootstrap"] = @ + 1]
    BY <1>1, <1>2 DEF JobRecord
  <2> QED
    BY <1>5, <1>9, <2>3, <2>4, <2>5, KeepsByRecord DEF PassFindsBuilt, Keeps
<1>10. CASE PassBuildsTask(j)
  <2>1. q.pass["bootstrap"] > 0 /\ q.status # "completed"
    BY <1>1, <1>10, PassIsAlone DEF PassBuildsTask, PassPhases
  <2>2. \A r \in NewTask(q, j) : Single(LeavePass(r, "bootstrap"))
    BY <1>1, <2>1, NewTaskIsResumed, PassHandsOver
  <2> QED
    BY <1>7, <1>10, <2>1, <2>2, KeepsByRecord DEF PassBuildsTask, PassPhases, Keeps
<1> QED
  BY <1>3, <1>4, <1>6, <1>8, <1>9, <1>10 DEF PassResumes

----------------------------------------------------------------------------
(* A new job, with at most a kick on its way.                              *)
LEMMA EnqueueKeeps ==
    ASSUME NobodyReopens, FinalInv, NEW j \in Jobs, Enqueue(j)
    PROVE  StepKeeps
<1>1. job[j].status # "completed"
  BY DEF Enqueue, EnqueueRejected, EnqueueCasals, EnqueueOffChain
<1>2. ASSUME NEW r, r.pass = NoJob.pass, r.runner = NoJob.runner, r.report = NoJob.report,
             r.registration = NoJob.registration, r.task = "none",
             r.status \notin {"registering", "completed"}
      PROVE  Single(r)
  BY <1>2 DEF Single, NoJob, Passes, Runners, Registrations, Reports, PassPhases, Legs,
              ReportPhases
<1>3. CASE EnqueueRejected(j)
  <2> DEFINE r == ArmSettlement(Enqueued("failed"), "failed")
  <2>1. Single(r)
    <3>1. /\ r.pass = NoJob.pass /\ r.runner = NoJob.runner /\ r.report = NoJob.report
          /\ r.registration = NoJob.registration /\ r.task = "none" /\ r.status = "failed"
      BY DEF ArmSettlement, Enqueued, NoJob
    <3> HIDE DEF r
    <3> QED
      BY <1>2, <3>1
  <2> QED
    BY <1>1, <1>3, <2>1, KeepsByRecord DEF EnqueueRejected, Keeps
<1>4. CASE EnqueueCasals(j)
  <2> DEFINE r == [Enqueued("provisioning") EXCEPT !.kicks = IF ProvisionViaCasals THEN 1 ELSE 0]
  <2>1. Single(r)
    <3>1. /\ r.pass = NoJob.pass /\ r.runner = NoJob.runner /\ r.report = NoJob.report
          /\ r.registration = NoJob.registration /\ r.task = "none"
          /\ r.status = "provisioning"
      BY DEF Enqueued, NoJob
    <3> HIDE DEF r
    <3> QED
      BY <1>2, <3>1
  <2> QED
    BY <1>1, <1>4, <2>1, KeepsByRecord DEF EnqueueCasals, Keeps
<1> QED
  BY <1>3, <1>4 DEF Enqueue, EnqueueOffChain, NobodyReopens

(* Handlers that only note something, or fail a job that is not terminal.  *)
LEMMA SameStepKeeps ==
    ASSUME FinalInv, NEW j \in Jobs, NEW r, Becomes(j, r), Same(job[j], r),
           \/ r.status = job[j].status
           \/ job[j].status # "completed" /\ r.status \in {"failed", "cancelled"}
    PROVE  StepKeeps
BY SameKeeps, KeepsByRecord DEF FinalInv

LEMMA MarkFailedSame ==
    ASSUME NEW q \in JobRecord
    PROVE  /\ Same(q, MarkFailed(q))
           /\ \/ MarkFailed(q).status = q.status
              \/ q.status # "completed" /\ MarkFailed(q).status = "failed"
BY FailsSame DEF Terminal

LEMMA KickKeeps ==
    ASSUME NobodyReopens, FinalInv, NEW j \in Jobs, Kick(j)
    PROVE  StepKeeps
<1> DEFINE q == job[j]
           r == [q EXCEPT !.kicks = @ - 1]
<1>1. q \in JobRecord /\ Single(q) /\ q.kicks > 0
  BY DEF FinalInv, JobsInv, Kick, KickStarts, KickSkips, KickFails
<1>2. r \in JobRecord /\ Sound(r)
  <2>1. q.kicks - 1 \in Nat
    BY <1>1 DEF JobRecord
  <2>2. Sound(r)
    BY <2>1, KicksSound DEF FinalInv, JobsInv
  <2> QED
    BY <2>2 DEF Sound
<1>3. Same(q, r) /\ r.status = q.status /\ r.lock = q.lock
  BY <1>1 DEF Same, JobRecord
<1>4. Single(r)
  BY <1>1, <1>3, SameKeeps DEF Keeps
<1>5. CASE KickStarts(j)
  <2>1. CanStartPass(r)
    BY <1>3, <1>5 DEF KickStarts, CanStartPass, Kickable
  <2>2. \A s \in PassStarted(r) : Keeps(q, s)
    BY <1>2, <1>3, <1>4, <2>1, PassStartedKeeps DEF Keeps
  <2> QED
    BY <1>5, <2>2, KeepsByRecord DEF KickStarts
<1>6. CASE KickSkips(j)
  BY <1>3, <1>6, SameStepKeeps DEF KickSkips
<1>7. CASE KickFails(j)
  <2>1. Same(q, MarkFailed(r))
        /\ (\/ MarkFailed(r).status = q.status
            \/ q.status # "completed" /\ MarkFailed(r).status = "failed")
    BY <1>2, <1>3, MarkFailedSame DEF Same
  <2> QED
    BY <1>7, <2>1, SameStepKeeps DEF KickFails
<1> QED
  BY <1>5, <1>6, <1>7 DEF Kick

(* A runner passes the job on to one runner, or to one registration.       *)
LEMMA RunnerKeeps ==
    ASSUME FinalInv, NEW j \in Jobs, Runner(j)
    PROVE  StepKeeps
<1> DEFINE q == job[j]
<1>1. q \in JobRecord /\ Single(q)
      /\ q.runner \in [Legs -> Nat] /\ q.registration \in [Legs -> Nat]
  BY CountsAreNat DEF FinalInv, JobsInv
<1>2. PICK l \in Legs : q.runner[l] > 0
  BY DEF Runner, RunnerStarts, RunnerRetries, RunnerFinishes, RunnerDies, Legs
<1>3. /\ q.task \notin {"none", "ended"} /\ q.status \notin {"registering", "completed"}
      /\ ~ Kickable(q) /\ Passes(q) = 0 /\ Registrations(q) = 0 /\ Reports(q) = 0
      /\ q.runner[l] = 1 /\ \A k \in Legs \ {l} : q.runner[k] = 0
  BY <1>1, <1>2, RunnerIsAlone
<1>4. q.runner["armed"] + q.runner["running"] = 1
  BY <1>1, <1>3 DEF Legs
<1>5. ASSUME NEW r, r.pass = q.pass, r.report = q.report, r.registration = q.registration,
             r.status \in {q.status, "failed"},
             \/ Runners(r) = 1 /\ r.task \notin {"none", "ended"}
             \/ Runners(r) = 0 /\ r.task = "ended"
      PROVE  Single(r)
  <2>1. Passes(r) = 0 /\ Registrations(r) = 0 /\ Reports(r) = 0
    BY <1>3, <1>5 DEF Passes, Registrations, Reports
  <2>2. ~ Kickable(r) /\ r.status \notin {"registering", "completed"}
    BY <1>3, <1>5 DEF Kickable
  <2> QED
    BY <1>5, <2>1, <2>2 DEF Single
<1>6. CASE RunnerStarts(j)
  <2> DEFINE g == [q.runner EXCEPT !["armed"] = @ - 1, !["running"] = @ + 1]
             e == [q EXCEPT !.task = "active", !.runner = g]
  <2>1. Becomes(j, e)
    <3> DEFINE m == [q EXCEPT !.runner["armed"] = @ - 1]
    <3>1. m.task # "ended" /\ [m EXCEPT !.task = "active", !.runner["running"] = @ + 1] = e
      BY <1>1, <1>3 DEF JobRecord, Legs
    <3> QED
      BY <1>6, <3>1 DEF RunnerStarts
  <2>2. /\ e.pass = q.pass /\ e.report = q.report /\ e.registration = q.registration
        /\ e.status = q.status /\ e.task = "active" /\ e.runner = g
    BY <1>1 DEF JobRecord
  <2>3. g["armed"] + g["running"] = 1
    BY <1>1, <1>4 DEF Legs
  <2>4. Single(e)
    <3> HIDE DEF e, g
    <3> QED
      BY <1>5, <2>2, <2>3 DEF Runners
  <2> QED
    BY <1>3, <2>1, <2>4, KeepsByRecord DEF Keeps
<1>7. CASE RunnerRetries(j)
  <2> DEFINE g == [q.runner EXCEPT !["running"] = @ - 1, !["armed"] = @ + 1]
             e == [q EXCEPT !.runner = g]
  <2>1. Becomes(j, e)
    BY <1>1, <1>7 DEF RunnerRetries, JobRecord
  <2>2. /\ e.pass = q.pass /\ e.report = q.report /\ e.registration = q.registration
        /\ e.status = q.status /\ e.task = q.task /\ e.runner = g
    BY <1>1 DEF JobRecord
  <2>3. g["armed"] + g["running"] = 1
    BY <1>1, <1>4 DEF Legs
  <2>4. Single(e)
    <3> HIDE DEF e, g
    <3> QED
      BY <1>3, <1>5, <2>2, <2>3 DEF Runners
  <2> QED
    BY <1>3, <2>1, <2>4, KeepsByRecord DEF Keeps
<1> DEFINE g == [q.runner EXCEPT !["running"] = @ - 1]
           e == [q EXCEPT !.runner["running"] = @ - 1, !.task = "ended"]
<1>8. ASSUME q.runner["running"] > 0
      PROVE  Single(e) /\ e \in JobRecord /\ Runners(e) = 0
  <2>1. /\ e.pass = q.pass /\ e.report = q.report /\ e.registration = q.registration
        /\ e.status = q.status /\ e.task = "ended" /\ e.runner = g
    BY <1>1 DEF JobRecord
  <2>2. g \in [Legs -> Nat] /\ g["armed"] + g["running"] = 0
    BY <1>1, <1>4, <1>8 DEF Legs
  <2>3. e \in JobRecord
    <3>1. \A h \in Counters(Legs) : [q EXCEPT !.runner = h, !.task = "ended"] \in JobRecord
      BY <1>1 DEF JobRecord, TaskStates
    <3> QED
      BY <2>2, <3>1 DEF Counters
  <2>4. Runners(e) = 0
    <3> HIDE DEF e, g
    <3> QED
      BY <2>1, <2>2 DEF Runners
  <2>5. Single(e)
    <3> HIDE DEF e, g
    <3> QED
      BY <1>5, <2>1, <2>4
  <2> QED
    BY <2>3, <2>4, <2>5
<1>9. CASE RunnerFinishes(j)
  <2>1. q.runner["running"] > 0 /\ Single(e) /\ e \in JobRecord /\ Runners(e) = 0
    BY <1>8, <1>9 DEF RunnerFinishes
  <2>2. e.status = q.status /\ e.task = "ended" /\ e.pass = q.pass /\ e.report = q.report
        /\ e.registration = q.registration
    BY <1>1 DEF JobRecord
  <2>3. Single(FailJob(e))
    <3> HIDE DEF e
    <3> QED
      BY <1>3, <2>1, <2>2, FailsSame, SameKeeps DEF Keeps
  <2> DEFINE h == [q.registration EXCEPT !["armed"] = @ + 1]
             n == [e EXCEPT !.status = "registering", !.registration = h]
  <2>4. Single(n)
    <3>1. /\ n.status = "registering" /\ n.registration = h /\ n.task = "ended"
          /\ n.pass = q.pass /\ n.report = q.report /\ n.runner = e.runner
      BY <1>1 DEF JobRecord
    <3>2. h["armed"] + h["running"] = 1
      BY <1>1, <1>3 DEF Registrations, Legs
    <3>3. Passes(n) = 0 /\ Reports(n) = 0 /\ Runners(n) = 0 /\ Registrations(n) = 1
      <4> HIDE DEF n, h, e
      <4> QED
        BY <1>3, <2>1, <3>1, <3>2 DEF Passes, Reports, Runners, Registrations
    <3>4. ~ Kickable(n)
      <4> HIDE DEF n
      <4> QED
        BY <3>1 DEF Kickable
    <3> HIDE DEF n
    <3> QED
      BY <3>1, <3>3, <3>4 DEF Single
  <2>5. n = [e EXCEPT !.status = "registering", !.registration["armed"] = @ + 1]
    BY <1>1 DEF JobRecord
  <2>6. Becomes(j, n) \/ Becomes(j, FailJob(e))
    BY <1>9, <2>5 DEF RunnerFinishes
  <2> HIDE DEF n, e
  <2> QED
    BY <1>3, <2>3, <2>4, <2>6, KeepsByRecord DEF Keeps
<1>10. CASE RunnerDies(j)
  <2>1. Becomes(j, e) /\ Single(e)
    BY <1>8, <1>10 DEF RunnerDies
  <2> HIDE DEF e
  <2> QED
    BY <1>3, <2>1, KeepsByRecord DEF Keeps
<1> QED
  BY <1>6, <1>7, <1>9, <1>10 DEF Runner

(* A registration that is on its way is the last thing: the task has ended.*)
LEMMA RegistrationKeeps ==
    ASSUME FinalInv, NEW j \in Jobs, Registration(j)
    PROVE  StepKeeps
<1> DEFINE q == job[j]
<1>1. q \in JobRecord /\ Single(q) /\ HasRunner(q)
      /\ q.runner \in [Legs -> Nat] /\ q.registration \in [Legs -> Nat]
      /\ Passes(q) \in Nat /\ Runners(q) \in Nat /\ Registrations(q) \in Nat
  BY CountsAreNat DEF FinalInv, JobsInv, Sound
<1>2. PICK l \in Legs : q.registration[l] > 0
  BY DEF Registration, RegistrationStarts, RegistrationEnds, Legs
<1>3. Registrations(q) = 1 /\ Passes(q) = 0 /\ Runners(q) = 0 /\ Reports(q) = 0
  <2>1. Registrations(q) > 0
    BY <1>1, <1>2, OneOfTwo DEF Registrations
  <2> QED
    BY <1>1, <2>1 DEF Single
<1>4. q.task = "ended" /\ ~ Kickable(q)
  <2>1. q.task # "none"
    BY <1>1, <1>3 DEF Single
  <2>2. q.task \notin {"queued", "active"}
    BY <1>1, <1>3 DEF HasRunner, Runners
  <2>3. q.task = "ended"
    BY <1>1, <1>3, <2>1, <2>2 DEF JobRecord, TaskStates, Single
  <2> QED
    BY <1>1, <2>3 DEF Single
<1>5. ASSUME NEW r, r.pass = q.pass, r.report = q.report, r.runner = q.runner,
             r.task = q.task, ~ Kickable(r), Registrations(r) \in {0, 1}
      PROVE  Single(r)
  <2>1. Passes(r) = 0 /\ Reports(r) = 0 /\ Runners(r) = 0
    BY <1>3, <1>5 DEF Passes, Reports, Runners
  <2> QED
    BY <1>4, <1>5, <2>1 DEF Single
<1>6. CASE RegistrationStarts(j)
  <2> DEFINE m == [q EXCEPT !.registration["armed"] = @ - 1]
             n == [m EXCEPT !.registration["running"] = @ + 1]
  <2>1. /\ m.registration = [q.registration EXCEPT !["armed"] = @ - 1]
        /\ m.pass = q.pass /\ m.report = q.report /\ m.runner = q.runner
        /\ m.task = q.task /\ m.status = q.status
    BY <1>1 DEF JobRecord
  <2>2. /\ n.registration = [q.registration EXCEPT !["armed"] = @ - 1, !["running"] = @ + 1]
        /\ n.pass = q.pass /\ n.report = q.report /\ n.runner = q.runner
        /\ n.task = q.task /\ n.status = q.status
    BY <1>1 DEF JobRecord, Legs
  <2>3. ~ Kickable(m) /\ ~ Kickable(n)
    BY <1>4, <2>1, <2>2 DEF Kickable
  <2>4. Registrations(m) = 0 /\ Registrations(n) = 1
    <3> HIDE DEF m, n
    <3> QED
      BY <1>1, <1>3, <2>1, <2>2 DEF Registrations, Legs
  <2>5. Single(m) /\ Single(n)
    <3> HIDE DEF m, n
    <3> QED
      BY <1>5, <2>1, <2>2, <2>3, <2>4
  <2>6. Becomes(j, m) \/ Becomes(j, n)
    BY <1>6 DEF RegistrationStarts
  <2> HIDE DEF m, n
  <2> QED
    BY <2>1, <2>2, <2>5, <2>6, KeepsByRecord DEF Keeps
<1>7. CASE RegistrationEnds(j)
  <2> DEFINE m == [q EXCEPT !.registration["running"] = @ - 1]
             c == [m EXCEPT !.status = "completed"]
  <2>1. /\ m.registration = [q.registration EXCEPT !["running"] = @ - 1]
        /\ m.pass = q.pass /\ m.report = q.report /\ m.runner = q.runner
        /\ m.task = q.task /\ m.status = q.status
    BY <1>1 DEF JobRecord
  <2>2. m \in JobRecord /\ Registrations(m) = 0
    <3> DEFINE g == [q.registration EXCEPT !["running"] = @ - 1]
    <3>1. g \in Counters(Legs) /\ g["armed"] + g["running"] = 0
      <4>1. q.registration["armed"] + q.registration["running"] = 1 /\ q.registration["running"] > 0
        BY <1>3, <1>7 DEF RegistrationEnds, Registrations
      <4>2. g["armed"] = q.registration["armed"] /\ g["running"] = q.registration["running"] - 1
        BY <1>1 DEF Legs
      <4>3. q.registration["armed"] \in Nat /\ q.registration["running"] \in Nat
        BY <1>1 DEF Legs
      <4>4. g \in [Legs -> Nat]
        <5>1. q.registration["running"] - 1 \in Nat
          BY <4>1, <4>3
        <5> QED
          BY <1>1, <5>1
      <4>5. g["armed"] + g["running"] = 0
        BY <4>1, <4>2, <4>3
      <4> QED
        BY <4>4, <4>5 DEF Counters
    <3>2. \A h \in Counters(Legs) : [q EXCEPT !.registration = h] \in JobRecord
      BY <1>1 DEF JobRecord
    <3>3. m \in JobRecord
      BY <3>1, <3>2
    <3> HIDE DEF m, g
    <3>4. Registrations(m) = g["armed"] + g["running"]
      <4>1. m.registration = g
        BY <2>1 DEF g
      <4> QED
        BY <4>1 DEF Registrations
    <3> QED
      BY <3>1, <3>3, <3>4
  <2>3. ~ Kickable(m)
    BY <1>4, <2>1 DEF Kickable
  <2>4. Single(m)
    <3> HIDE DEF m
    <3> QED
      BY <1>5, <2>1, <2>2, <2>3
  <2> DEFINE a == ArmSettlement(c, "succeeded")
  <2>5. /\ a.registration = m.registration /\ a.pass = m.pass /\ a.report = m.report
        /\ a.runner = m.runner /\ a.task = m.task /\ a.status = "completed"
    BY <2>2 DEF ArmSettlement, JobRecord
  <2>6. Single(a)
    <3>1. ~ Kickable(a) /\ Registrations(a) = 0
      <4> HIDE DEF a, m
      <4> QED
        BY <2>2, <2>5 DEF Kickable, Registrations
    <3> HIDE DEF a, m
    <3> QED
      BY <1>5, <2>1, <2>5, <3>1
  <2>7. Keeps(m, MarkFailed(m))
    <3> HIDE DEF m
    <3> QED
      BY <2>2, <2>4, MarkFailedSame, SameKeeps
  <2>8. Becomes(j, a) \/ Becomes(j, MarkFailed(m))
    BY <1>7 DEF RegistrationEnds
  <2>9. Keeps(q, a) /\ Keeps(q, MarkFailed(m))
    BY <2>1, <2>5, <2>6, <2>7 DEF Keeps
  <2> HIDE DEF a, m
  <2> QED
    BY <2>8, <2>9, KeepsByRecord
<1> QED
  BY <1>6, <1>7 DEF Registration

(* No report is ever in hand.                                              *)
LEMMA NoReport ==
    ASSUME FinalInv, NEW j \in Jobs
    PROVE  ~ ReportResumes(j)
<1>1. job[j].report \in [ReportPhases -> Nat] /\ Reports(job[j]) = 0
  BY DEF FinalInv, JobsInv, JobRecord, Counters, Single
<1>2. \A p \in ReportPhases : job[j].report[p] = 0
  BY <1>1 DEF Reports, ReportPhases
<1> QED
  BY <1>2 DEF ReportResumes, CanisterStatusRead, FrontendStatusRead, ReportBuildsTask, ReportPhases

LEMMA InterventionKeeps ==
    ASSUME NobodyReopens, FinalInv, NEW j \in Jobs, Intervention(j)
    PROVE  StepKeeps
<1> DEFINE q == job[j]
<1>1. q \in JobRecord /\ Sound(q) /\ Single(q)
  BY DEF FinalInv, JobsInv
<1>2. CASE ProvisionEndpoint(j)
  <2>1. CASE CanStartPass(q) /\ \E r \in PassStarted(q) : Becomes(j, r)
    BY <1>1, <2>1, PassStartedKeeps, KeepsByRecord
  <2>2. CASE Becomes(j, MarkFailed(q))
    BY <1>1, <2>2, MarkFailedSame, SameStepKeeps
  <2> QED
    BY <1>2, <2>1, <2>2 DEF ProvisionEndpoint
<1>3. CASE CancelDeployment(j)
  <2>1. Same(q, Cancelled(q)) /\ Cancelled(q).status = "cancelled" /\ q.status # "completed"
    BY <1>1, <1>3 DEF CancelDeployment, Cancelled, ArmSettlement, Kickable, Same, JobRecord
  <2> QED
    BY <1>3, <2>1, SameStepKeeps DEF CancelDeployment
<1>4. CASE ReportDeploymentFailure(j)
  <2>1. q.status # "completed" /\ Becomes(j, FailJob(q))
    BY <1>4 DEF ReportDeploymentFailure, Terminal
  <2> QED
    BY <1>1, <2>1, FailsSame, SameStepKeeps
<1>5. /\ ~ ReportCanisterReady(j) /\ ~ ReportFrontendVerified(j)
      /\ ~ FinalizeDeployment(j) /\ ~ RetryDeployment(j)
  BY DEF NobodyReopens, ReportCanisterReady, ReportFrontendVerified, FinalizeDeployment,
         RetryDeployment
<1> QED
  BY <1>2, <1>3, <1>4, <1>5 DEF Intervention

LEMMA SettlementKeeps ==
    ASSUME FinalInv, NEW j \in Jobs, NEW o \in Outcomes,
           SettlementFires(j, o) \/ SettlementReturns(j, o)
    PROVE  StepKeeps
<1> DEFINE q == job[j]
           r == [q EXCEPT !.settle[o] = @ - 1]
           c == [r EXCEPT !.calling[o] = @ + 1]
           n == [q EXCEPT !.calling[o] = @ - 1, !.notified = TRUE]
<1>1. q \in JobRecord
  BY DEF FinalInv, JobsInv
<1>2. Same(q, r) /\ r.status = q.status /\ Same(q, c) /\ c.status = q.status
      /\ Same(q, n) /\ n.status = q.status
  BY <1>1 DEF Same, JobRecord
<1>3. Becomes(j, r) \/ Becomes(j, c) \/ Becomes(j, n)
  BY DEF SettlementFires, SettlementReturns
<1> HIDE DEF r, c, n
<1> QED
  BY <1>2, <1>3, SameStepKeeps

LEMMA WorldKeeps ==
    ASSUME FinalInv, NEW j \in Jobs, LockGoesStale(j) \/ ConductorBuilds(j)
    PROVE  StepKeeps
<1>1. job[j] \in JobRecord
  BY DEF FinalInv, JobsInv
<1>2. \A s : /\ Same(job[j], [job[j] EXCEPT !.lock = s])
             /\ [job[j] EXCEPT !.lock = s].status = job[j].status
             /\ Same(job[j], [job[j] EXCEPT !.stand = s])
             /\ [job[j] EXCEPT !.stand = s].status = job[j].status
  BY <1>1 DEF Same, JobRecord
<1> QED
  BY <1>2, SameStepKeeps DEF LockGoesStale, ConductorBuilds

LEMMA HeartbeatKeeps == ASSUME FinalInv, Heartbeat PROVE StepKeeps
<1>1. PICK old \in SUBSET Jobs :
        job' = [j \in Jobs |-> Reconciled(Rekicked(job[j]), j \in old)]
  BY DEF Heartbeat
<1>2. ASSUME NEW j \in Jobs
      PROVE  Keeps(job[j], job'[j])
  <2> DEFINE q == job[j]
             r == Rekicked(q)
  <2>1. q \in JobRecord /\ Single(q)
    BY DEF FinalInv, JobsInv
  <2>2. r \in JobRecord /\ Same(q, r) /\ r.status = q.status
    <3>1. q.kicks + 1 \in Nat
      BY <2>1 DEF JobRecord
    <3>2. [q EXCEPT !.kicks = @ + 1] \in JobRecord
      BY <2>1, <3>1 DEF JobRecord
    <3>3. Same(q, [q EXCEPT !.kicks = @ + 1]) /\ [q EXCEPT !.kicks = @ + 1].status = q.status
      BY <2>1 DEF Same, JobRecord
    <3> QED
      BY <2>1, <3>2, <3>3 DEF Rekicked, Same
  <2>3. Stranded(r) => r.status = "extensions"
    BY DEF Stranded
  <2>4. job'[j] \in {r, FailJob(r)} /\ (job'[j] # r => r.status = "extensions")
    BY <1>1, <2>3 DEF Reconciled
  <2>5. Same(q, FailJob(r)) /\ FailJob(r).status = "failed"
    BY <2>2, FailsSame DEF Same
  <2> HIDE DEF r
  <2> QED
    BY <2>1, <2>2, <2>4, <2>5, SameKeeps
<1> QED
  BY <1>2 DEF StepKeeps

(* An upgrade drops all that was at work, and arms one runner for a task   *)
(* that has not ended, which is not the task of a completed job.           *)
LEMMA UpgradeKeeps == ASSUME FinalInv, Upgrade PROVE StepKeeps
<1>1. ASSUME NEW j \in Jobs
      PROVE  Keeps(job[j], job'[j])
  <2> DEFINE q == job[j]
             kept == Stored(q)
  <2>1. JobsInv /\ Single(q) /\ q \in JobRecord
    BY DEF FinalInv, JobsInv
  <2>2. /\ kept.pass = NoJob.pass /\ kept.runner = NoJob.runner
        /\ kept.report = NoJob.report /\ kept.registration = NoJob.registration
        /\ kept.status = q.status /\ kept.task = q.task
    BY DEF NoJob, Stored
  <2>3. /\ Passes(kept) = 0 /\ Runners(kept) = 0 /\ Registrations(kept) = 0
        /\ Reports(kept) = 0 /\ kept.pass["bootstrap"] = 0
    BY <2>2 DEF NoJob, Passes, Runners, Registrations, Reports, PassPhases, Legs, ReportPhases
  <2>4. Kickable(kept) <=> Kickable(q)
    BY <2>2 DEF Kickable
  <2>5. Single(kept)
    BY <2>1, <2>2, <2>3, <2>4 DEF Single
  <2>6. q.task \notin {"none", "ended"} =>
          ~ Kickable(q) /\ q.status \notin {"registering", "completed"}
    BY <2>1 DEF Single
  <2>7. ASSUME q.task \notin {"none", "ended"}, NEW t \in {"queued", "active"}
        PROVE  Single(Resumed(kept, t)) /\ Resumed(kept, t).status = q.status
    <3> DEFINE e == Resumed(kept, t)
    <3>1. /\ e.pass = kept.pass /\ e.report = kept.report
          /\ e.registration = kept.registration /\ e.status = q.status /\ e.task = t
          /\ e.runner["armed"] + e.runner["running"] = 1
      BY DEF Resumed, Stored, NoJob, Legs
    <3>2. /\ Passes(e) = 0 /\ Runners(e) = 1 /\ Registrations(e) = 0 /\ Reports(e) = 0
      BY <2>3, <3>1 DEF Passes, Runners, Registrations, Reports
    <3>3. ~ Kickable(e) /\ e.status \notin {"registering", "completed"}
      BY <2>6, <2>7, <3>1 DEF Kickable
    <3>4. Single(e)
      <4> HIDE DEF e, kept
      <4> QED
        BY <2>7, <3>1, <3>2, <3>3 DEF Single
    <3> QED
      BY <3>1, <3>4
  <2>8. ASSUME q.task \notin {"none", "ended"}, NEW t \in {"waiting", "held"}
        PROVE  Single([kept EXCEPT !.task = t]) /\ [kept EXCEPT !.task = t].status = q.status
    <3> DEFINE e == [kept EXCEPT !.task = t]
    <3>1. /\ e.pass = kept.pass /\ e.report = kept.report /\ e.runner = kept.runner
          /\ e.registration = kept.registration /\ e.status = q.status /\ e.task = t
      BY DEF Stored, NoJob
    <3>2. /\ Passes(e) = 0 /\ Runners(e) = 0 /\ Registrations(e) = 0 /\ Reports(e) = 0
      BY <2>3, <3>1 DEF Passes, Runners, Registrations, Reports
    <3>3. ~ Kickable(e) /\ e.status \notin {"registering", "completed"}
      BY <2>6, <2>8, <3>1 DEF Kickable
    <3>4. Single(e)
      <4> HIDE DEF e, kept
      <4> QED
        BY <2>8, <3>1, <3>2, <3>3 DEF Single
    <3> QED
      BY <3>1, <3>4
  <2>9. \/ job'[j] = kept
        \/ /\ q.task \notin {"none", "ended"}
           /\ \/ \E t \in {"queued", "active"} : job'[j] = Resumed(kept, t)
              \/ \E t \in {"waiting", "held"} : job'[j] = [kept EXCEPT !.task = t]
    BY <2>1, UpgradedJob
  <2> HIDE DEF kept
  <2> QED
    BY <2>2, <2>5, <2>7, <2>8, <2>9 DEF Keeps
<1> QED
  BY <1>1 DEF StepKeeps

----------------------------------------------------------------------------
LEMMA NextKeeps ==
    ASSUME NobodyReopens, FinalInv, Next
    PROVE  StepKeeps
<1>1. ASSUME NEW j \in Jobs, JobStep(j)
      PROVE  StepKeeps
  BY <1>1, KickKeeps, PassKeeps, WorldKeeps, RunnerKeeps, RegistrationKeeps, NoReport,
     InterventionKeeps DEF JobStep
<1> QED
  BY <1>1, EnqueueKeeps, SettlementKeeps, HeartbeatKeeps, UpgradeKeeps DEF Next

(* As long as Casals deploys, nobody retries or finalizes a job, and no    *)
(* pass outlives its lock, a completed job stays completed, whatever is    *)
(* kicked, cancelled, reported or upgraded meanwhile.                      *)
THEOREM CompletedJobsStay ==
    ASSUME NobodyReopens
    PROVE  Spec => CompletedIsFinal
<1>1. Init => FinalInv
  <2>1. Single(NoJob)
    BY DEF Single, NoJob, Passes, Runners, Registrations, Reports, Kickable, PassPhases, Legs,
           ReportPhases
  <2> QED
    BY <2>1, InitInv DEF Init, FinalInv
<1>2. FinalInv /\ [Next]_job => FinalInv'
  <2> SUFFICES ASSUME FinalInv, [Next]_job PROVE FinalInv'
    OBVIOUS
  <2>1. CASE Next
    BY <2>1, NextKeeps, NextInv DEF FinalInv, StepKeeps, Keeps
  <2>2. CASE UNCHANGED job
    BY <2>2, NextInv DEF FinalInv
  <2> QED
    BY <2>1, <2>2
<1>3. FinalInv /\ [Next]_job
        => [\A j \in Jobs : job[j].status = "completed" => job'[j].status = "completed"]_job
  BY NextKeeps DEF StepKeeps, Keeps
<1> QED
  BY <1>1, <1>2, <1>3, PTL DEF Spec, CompletedIsFinal

----------------------------------------------------------------------------
(***************************************************************************)
(* A job that runs its course: one that nobody interferes with and         *)
(* that no timer overtakes goes straight from provisioning to one outcome, *)
(* with one thing at work on it at a time, and reports that outcome once.  *)
(***************************************************************************)

(* Nobody intervenes, no pass outlives its lock, the heartbeat does not    *)
(* tick into a re-check or a resume, and the installer is not upgraded.    *)
Undisturbed ==
    /\ Interventions = {}
    /\ Faults \intersect {"stale_lock", "second_kick", "early_heartbeat", "upgrade"} = {}

No(S) == [x \in S |-> 0]
One(S, x) == [y \in S |-> IF y = x THEN 1 ELSE 0]

(* What is armed or suspended for the job.                                 *)
AtWork(r, kicks, pass, runner, registration) ==
    /\ r.kicks = kicks /\ r.pass = pass
    /\ r.runner = runner /\ r.registration = registration

Rests(r) == AtWork(r, 0, No(PassPhases), No(Legs), No(Legs))

(* The places on the way.                                                  *)
Awaits(r) ==
    /\ r.status = "provisioning" /\ r.task = "none" /\ r.lock = "free"
    /\ \E k \in {0, 1} : AtWork(r, k, No(PassPhases), No(Legs), No(Legs))

Provisions(r, p) ==
    /\ r.status = "provisioning" /\ r.task = "none" /\ r.lock = "fresh"
    /\ AtWork(r, 0, One(PassPhases, p), No(Legs), No(Legs))

Bootstraps(r) ==
    /\ r.status = "extensions" /\ r.task = "none" /\ r.lock = "fresh"
    /\ AtWork(r, 0, One(PassPhases, "bootstrap"), No(Legs), No(Legs))

Deploys(r, l) ==
    /\ r.status = "extensions"
    /\ r.task = "active" \/ (r.task = "queued" /\ l = "armed")
    /\ AtWork(r, 0, No(PassPhases), One(Legs, l), No(Legs))

Abandoned(r) == r.status = "extensions" /\ r.task = "ended" /\ Rests(r)

Registers(r, l) ==
    /\ r.status = "registering"
    /\ AtWork(r, 0, No(PassPhases), No(Legs), One(Legs, l))

Ended == {"completed", "failed"}

Straight(r) ==
    /\ r.report = No(ReportPhases)
    /\ \/ Awaits(r)
       \/ Provisions(r, "declaring") \/ Provisions(r, "reading")
       \/ Bootstraps(r)
       \/ Deploys(r, "armed") \/ Deploys(r, "running")
       \/ Abandoned(r)
       \/ Registers(r, "armed") \/ Registers(r, "running")
       \/ r.status \in Ended /\ Rests(r)

(* The outcome that the registry is told of a job that has ended.          *)
Due(s) == IF s = "completed" THEN "succeeded" ELSE "failed"

(* A handler moves the job on, and arms its settlement if it ends it.      *)
Proceeds(q, r) ==
    /\ Straight(r)
    /\ r.calling = q.calling /\ r.notified = q.notified
    /\ \/ /\ r.settle = q.settle
          /\ r.status = q.status \/ (q.status \notin Ended /\ r.status \notin Ended)
       \/ /\ q.status \notin Ended /\ r.status \in Ended
          /\ r.settle = [q.settle EXCEPT ![Due(r.status)] = @ + 1]

LEMMA NoneCounted == \A S : No(S) \in Counters(S)
BY DEF No, Counters

LEMMA Counts ==
    ASSUME NEW S, NEW x \in S
    PROVE  /\ No(S)[x] = 0 /\ One(S, x)[x] = 1
           /\ \A y \in S : One(S, x)[y] > 0 => y = x
           /\ \A c : c = One(S, x) => [c EXCEPT ![x] = @ - 1] = No(S)
           /\ \A c : c = No(S) => [c EXCEPT ![x] = @ + 1] = One(S, x)
           /\ \A c, y : c = One(S, x) /\ y \in S /\ y # x =>
                [c EXCEPT ![x] = @ - 1, ![y] = @ + 1] = One(S, y)
<1>1. /\ No(S)[x] = 0 /\ One(S, x)[x] = 1
      /\ \A y \in S : One(S, x)[y] > 0 => y = x
  BY DEF No, One
<1>2. ASSUME NEW c, c = One(S, x)
      PROVE  [c EXCEPT ![x] = @ - 1] = No(S)
  BY <1>2 DEF No, One
<1>3. ASSUME NEW c, c = No(S)
      PROVE  [c EXCEPT ![x] = @ + 1] = One(S, x)
  BY <1>3 DEF No, One
<1>4. ASSUME NEW c, c = One(S, x), NEW y \in S, y # x
      PROVE  [c EXCEPT ![x] = @ - 1, ![y] = @ + 1] = One(S, y)
  BY <1>4 DEF No, One
<1> QED
  BY <1>1, <1>2, <1>3, <1>4

(* What is at work on a job tells where it is.                             *)
LEMMA WhereItIs ==
    ASSUME NEW r, Straight(r)
    PROVE  /\ r.kicks > 0 => Awaits(r)
           /\ \A p \in PassPhases : r.pass[p] > 0 =>
                IF p = "bootstrap" THEN Bootstraps(r) ELSE Provisions(r, p)
           /\ \A l \in Legs : /\ r.runner[l] > 0 => Deploys(r, l)
                              /\ r.registration[l] > 0 => Registers(r, l)
           /\ \A p \in ReportPhases : ~ r.report[p] > 0
<1>1. \A p \in ReportPhases : ~ r.report[p] > 0
  BY Counts DEF Straight
<1>2. r.kicks > 0 => Awaits(r)
  BY DEF Straight, AtWork, Rests, Provisions, Bootstraps, Deploys, Abandoned, Registers
<1>3. ASSUME NEW p \in PassPhases, r.pass[p] > 0
      PROVE  IF p = "bootstrap" THEN Bootstraps(r) ELSE Provisions(r, p)
  <2>1. r.pass # No(PassPhases)
    BY <1>3, Counts
  <2>2. Provisions(r, "declaring") \/ Provisions(r, "reading") \/ Bootstraps(r)
    BY <2>1 DEF Straight, AtWork, Rests, Awaits, Deploys, Abandoned, Registers
  <2>3. \A q \in PassPhases : r.pass = One(PassPhases, q) => p = q
    BY <1>3, Counts
  <2> QED
    BY <2>2, <2>3 DEF Provisions, Bootstraps, AtWork, PassPhases
<1>4. ASSUME NEW l \in Legs, r.runner[l] > 0
      PROVE  Deploys(r, l)
  <2>1. r.runner # No(Legs)
    BY <1>4, Counts
  <2>2. Deploys(r, "armed") \/ Deploys(r, "running")
    BY <2>1 DEF Straight, AtWork, Rests, Awaits, Provisions, Bootstraps, Abandoned, Registers
  <2>3. \A m \in Legs : r.runner = One(Legs, m) => l = m
    BY <1>4, Counts
  <2> QED
    BY <2>2, <2>3 DEF Deploys, AtWork, Legs
<1>5. ASSUME NEW l \in Legs, r.registration[l] > 0
      PROVE  Registers(r, l)
  <2>1. r.registration # No(Legs)
    BY <1>5, Counts
  <2>2. Registers(r, "armed") \/ Registers(r, "running")
    BY <2>1 DEF Straight, AtWork, Rests, Awaits, Provisions, Bootstraps, Abandoned, Deploys
  <2>3. \A m \in Legs : r.registration = One(Legs, m) => l = m
    BY <1>5, Counts
  <2> QED
    BY <2>2, <2>3 DEF Registers, AtWork, Legs
<1> QED
  BY <1>1, <1>2, <1>3, <1>4, <1>5

ProceedsOn(j) == \E r : Becomes(j, r) /\ Proceeds(job[j], r)

(* What ends a job: its settlement is armed, and nothing else changes.     *)
LEMMA FailJobProceeds ==
    ASSUME NEW q \in JobRecord, NEW r \in JobRecord, Rests(r), r.report = No(ReportPhases),
           r.settle = q.settle, r.calling = q.calling, r.notified = q.notified,
           q.status \notin Ended
    PROVE  Proceeds(q, FailJob(r))
<1>1. /\ FailJob(r).status = "failed"
      /\ FailJob(r).settle = [r.settle EXCEPT !["failed"] = @ + 1]
      /\ FailJob(r).calling = r.calling /\ FailJob(r).notified = r.notified
      /\ FailJob(r).report = r.report
      /\ FailJob(r).kicks = r.kicks /\ FailJob(r).pass = r.pass
      /\ FailJob(r).runner = r.runner /\ FailJob(r).registration = r.registration
  BY DEF FailJob, ArmSettlement, JobRecord
<1>2. Straight(FailJob(r))
  BY <1>1 DEF Straight, Rests, AtWork, Ended
<1> QED
  BY <1>1, <1>2 DEF Proceeds, Due, Ended

LEMMA KickProceeds ==
    ASSUME JobsInv, NEW j \in Jobs, Straight(job[j]), Kick(j)
    PROVE  ProceedsOn(j)
<1> DEFINE q == job[j]
           r == [job[j] EXCEPT !.kicks = @ - 1]
<1>1. q \in JobRecord /\ q.kicks > 0
  BY DEF JobsInv, Kick, KickStarts, KickSkips, KickFails
<1>2. Awaits(q) /\ q.report = No(ReportPhases)
  BY <1>1, WhereItIs DEF Straight
<1>3. q.kicks = 1 /\ q.status = "provisioning" /\ q.task = "none" /\ q.lock = "free"
      /\ AtWork(q, 1, No(PassPhases), No(Legs), No(Legs))
  BY <1>1, <1>2 DEF Awaits, AtWork
<1>4. /\ r \in JobRecord /\ Rests(r) /\ r.report = q.report
      /\ r.settle = q.settle /\ r.calling = q.calling /\ r.notified = q.notified
      /\ r.status = q.status /\ r.task = q.task
  BY <1>1, <1>3 DEF JobRecord, Rests, AtWork
<1>5. CASE KickStarts(j)
  <2> DEFINE s == [r EXCEPT !.lock = "fresh", !.pass["declaring"] = @ + 1]
  <2>1. Becomes(j, s)
    BY <1>3, <1>4, <1>5 DEF KickStarts, PassStarted
  <2>2. /\ s.status = "provisioning" /\ s.task = "none" /\ s.lock = "fresh"
        /\ s.kicks = r.kicks /\ s.pass = [r.pass EXCEPT !["declaring"] = @ + 1]
        /\ s.runner = r.runner /\ s.registration = r.registration /\ s.report = r.report
        /\ s.settle = r.settle /\ s.calling = r.calling /\ s.notified = r.notified
    BY <1>3, <1>4 DEF JobRecord
  <2>3. s.pass = One(PassPhases, "declaring")
    BY <1>4, <2>2, Counts DEF Rests, AtWork, PassPhases
  <2> HIDE DEF s
  <2>4. Provisions(s, "declaring")
    BY <1>4, <2>2, <2>3 DEF Provisions, Rests, AtWork
  <2> QED
    BY <1>2, <1>3, <1>4, <2>1, <2>2, <2>4 DEF ProceedsOn, Proceeds, Straight
<1>6. CASE KickSkips(j)
  BY <1>3, <1>6 DEF KickSkips
<1>7. CASE KickFails(j)
  <2>1. Becomes(j, FailJob(r))
    BY <1>3, <1>4, <1>7 DEF KickFails, MarkFailed, Terminal
  <2>2. Proceeds(q, FailJob(r))
    BY <1>1, <1>2, <1>3, <1>4, FailJobProceeds DEF Ended
  <2> QED
    BY <2>1, <2>2 DEF ProceedsOn
<1> QED
  BY <1>5, <1>6, <1>7 DEF Kick

LEMMA PassProceeds ==
    ASSUME JobsInv, NEW j \in Jobs, Straight(job[j]), PassResumes(j)
    PROVE  ProceedsOn(j)
<1> DEFINE q == job[j]
<1>1. q \in JobRecord /\ q.report = No(ReportPhases)
  BY DEF JobsInv, Straight
<1>2. CASE PassDeclares(j)
  <2> DEFINE s == [q EXCEPT !.pass["declaring"] = @ - 1, !.pass["reading"] = @ + 1,
                            !.stand = IF @ = "built" THEN @ ELSE "building"]
  <2>1. Becomes(j, s) /\ q.pass["declaring"] > 0
    BY <1>2 DEF PassDeclares
  <2>2. Provisions(q, "declaring")
    BY <2>1, WhereItIs DEF PassPhases
  <2>3. /\ s.status = q.status /\ s.task = q.task /\ s.lock = q.lock
        /\ s.kicks = q.kicks
        /\ s.pass = [q.pass EXCEPT !["declaring"] = @ - 1, !["reading"] = @ + 1]
        /\ s.runner = q.runner /\ s.registration = q.registration /\ s.report = q.report
        /\ s.settle = q.settle /\ s.calling = q.calling /\ s.notified = q.notified
    BY <1>1 DEF JobRecord
  <2>4. s.pass = One(PassPhases, "reading")
    BY <2>2, <2>3, Counts DEF Provisions, AtWork, PassPhases
  <2> HIDE DEF s
  <2>5. Provisions(s, "reading")
    BY <2>2, <2>3, <2>4 DEF Provisions, AtWork
  <2> QED
    BY <1>1, <2>1, <2>2, <2>3, <2>5 DEF ProceedsOn, Proceeds, Straight
<1>3. ASSUME NEW p \in {"declaring", "reading"}, q.pass[p] > 0
      PROVE  /\ Provisions(q, p)
             /\ Proceeds(q, FailJob(LeavePass(q, p)))
             /\ LeavePass(q, p).status = "provisioning"
             /\ LeavePass(FailJob(q), p) = FailJob(LeavePass(q, p))
  <2>1. Provisions(q, p)
    BY <1>3, WhereItIs DEF PassPhases
  <2>2. /\ LeavePass(q, p).status = q.status
        /\ LeavePass(q, p).kicks = q.kicks
        /\ LeavePass(q, p).pass = [q.pass EXCEPT ![p] = @ - 1]
        /\ LeavePass(q, p).runner = q.runner /\ LeavePass(q, p).registration = q.registration
        /\ LeavePass(q, p).report = q.report /\ LeavePass(q, p).settle = q.settle
        /\ LeavePass(q, p).calling = q.calling /\ LeavePass(q, p).notified = q.notified
    BY <1>1 DEF LeavePass, JobRecord
  <2>3. Rests(LeavePass(q, p))
    BY <2>1, <2>2, Counts DEF Provisions, AtWork, Rests, PassPhases
  <2>4. LeavePass(q, p) \in JobRecord
    BY <1>1, <1>3, LeavePassTyped DEF PassPhases
  <2>5. LeavePass(FailJob(q), p) = FailJob(LeavePass(q, p))
    BY <1>1 DEF LeavePass, FailJob, ArmSettlement, JobRecord
  <2> QED
    BY <1>1, <2>1, <2>2, <2>3, <2>4, <2>5, FailJobProceeds DEF Provisions, Ended
<1>4. CASE PassRaises(j)
  BY <1>3, <1>4 DEF PassRaises, MarkFailed, Terminal, ProceedsOn
<1>5. CASE PassFindsBroken(j)
  BY <1>3, <1>5 DEF PassFindsBroken, ProceedsOn
<1>6. CASE PassWaits(j)
  <2> DEFINE s == LeavePass([q EXCEPT !.status = "provisioning", !.kicks = @ + 1], "reading")
  <2>1. Becomes(j, s) /\ Provisions(q, "reading")
    BY <1>3, <1>6 DEF PassWaits
  <2>2. /\ s.status = "provisioning" /\ s.task = q.task /\ s.lock = "free"
        /\ s.kicks = q.kicks + 1
        /\ s.pass = [q.pass EXCEPT !["reading"] = @ - 1]
        /\ s.runner = q.runner /\ s.registration = q.registration /\ s.report = q.report
        /\ s.settle = q.settle /\ s.calling = q.calling /\ s.notified = q.notified
    BY <1>1 DEF LeavePass, JobRecord
  <2>3. s.pass = No(PassPhases)
    BY <2>1, <2>2, Counts DEF Provisions, AtWork, PassPhases
  <2> HIDE DEF s
  <2>4. Awaits(s)
    BY <2>1, <2>2, <2>3 DEF Provisions, Awaits, AtWork
  <2> QED
    BY <1>1, <2>1, <2>2, <2>4 DEF ProceedsOn, Proceeds, Straight, Provisions
<1>7. CASE PassFindsBuilt(j)
  <2> DEFINE e == [q EXCEPT !.status = "extensions"]
             s == [e EXCEPT !.pass["reading"] = @ - 1, !.pass["bootstrap"] = @ + 1]
  <2>1. Provisions(q, "reading")
    BY <1>3, <1>7 DEF PassFindsBuilt
  <2>2. Becomes(j, s)
    BY <1>1, <1>7, <2>1 DEF PassFindsBuilt, Provisions, JobRecord
  <2>3. /\ s.status = "extensions" /\ s.task = q.task /\ s.lock = q.lock
        /\ s.kicks = q.kicks
        /\ s.pass = [q.pass EXCEPT !["reading"] = @ - 1, !["bootstrap"] = @ + 1]
        /\ s.runner = q.runner /\ s.registration = q.registration /\ s.report = q.report
        /\ s.settle = q.settle /\ s.calling = q.calling /\ s.notified = q.notified
    BY <1>1 DEF JobRecord
  <2>4. s.pass = One(PassPhases, "bootstrap")
    BY <2>1, <2>3, Counts DEF Provisions, AtWork, PassPhases
  <2> HIDE DEF s
  <2>5. Bootstraps(s)
    BY <2>1, <2>3, <2>4 DEF Provisions, Bootstraps, AtWork
  <2> QED
    BY <1>1, <2>1, <2>2, <2>3, <2>5 DEF ProceedsOn, Proceeds, Straight, Provisions, Ended
<1>8. CASE PassBuildsTask(j)
  <2> DEFINE s(t) == LeavePass(Resumed(q, t), "bootstrap")
             d == LeavePass(q, "bootstrap")
  <2>1. q.pass["bootstrap"] > 0
    BY <1>8 DEF PassBuildsTask
  <2>2. Bootstraps(q)
    BY <2>1, WhereItIs DEF PassPhases
  <2>3. ASSUME NEW t \in {"queued", "active"}, Becomes(j, s(t))
        PROVE  ProceedsOn(j)
    <3> DEFINE e == s(t)
    <3>1. /\ e.status = q.status /\ e.task = t /\ e.kicks = q.kicks
          /\ e.pass = [q.pass EXCEPT !["bootstrap"] = @ - 1]
          /\ e.runner = [q.runner EXCEPT !["armed"] = @ + 1]
          /\ e.registration = q.registration /\ e.report = q.report
          /\ e.settle = q.settle /\ e.calling = q.calling /\ e.notified = q.notified
      BY <1>1 DEF LeavePass, Resumed, JobRecord
    <3>2. e.pass = No(PassPhases) /\ e.runner = One(Legs, "armed")
      BY <2>2, <3>1, Counts DEF Bootstraps, AtWork, PassPhases, Legs
    <3> HIDE DEF e
    <3>3. Deploys(e, "armed")
      BY <2>2, <3>1, <3>2 DEF Bootstraps, Deploys, AtWork
    <3> QED
      BY <1>1, <2>3, <3>1, <3>3 DEF e, ProceedsOn, Proceeds, Straight
  <2>4. CASE Becomes(j, LeavePass(FailJob(q), "bootstrap"))
    <3>1. /\ d.status = q.status /\ d.kicks = q.kicks
          /\ d.pass = [q.pass EXCEPT !["bootstrap"] = @ - 1]
          /\ d.runner = q.runner /\ d.registration = q.registration /\ d.report = q.report
          /\ d.settle = q.settle /\ d.calling = q.calling /\ d.notified = q.notified
          /\ LeavePass(FailJob(q), "bootstrap") = FailJob(d)
      BY <1>1 DEF LeavePass, FailJob, ArmSettlement, JobRecord
    <3>2. d \in JobRecord
      BY <1>1, <2>1, LeavePassTyped DEF PassPhases
    <3> HIDE DEF d
    <3>3. Rests(d)
      BY <2>2, <3>1, Counts DEF Bootstraps, AtWork, Rests, PassPhases
    <3>4. Proceeds(q, FailJob(d))
      BY <1>1, <2>2, <3>1, <3>2, <3>3, FailJobProceeds DEF Bootstraps, Ended
    <3> QED
      BY <2>4, <3>1, <3>4 DEF ProceedsOn
  <2> QED
    BY <1>8, <2>3, <2>4, NewTaskIsResumed DEF PassBuildsTask
<1> QED
  BY <1>2, <1>4, <1>5, <1>6, <1>7, <1>8 DEF PassResumes

(* Time and the conductor change the lock of a job without a pass, and its *)
(* stand.                                                                  *)
LEMMA WorldProceeds ==
    ASSUME Undisturbed, JobsInv, NEW j \in Jobs, Straight(job[j]),
           LockGoesStale(j) \/ ConductorBuilds(j)
    PROVE  ProceedsOn(j)
<1> DEFINE q == job[j]
<1>1. q \in JobRecord
  BY DEF JobsInv
<1>2. CASE LockGoesStale(j)
  <2> DEFINE s == [q EXCEPT !.lock = "stale"]
  <2>1. Becomes(j, s) /\ q.lock = "fresh" /\ ~ Passes(q) > 0
    BY <1>2 DEF LockGoesStale, Undisturbed
  <2>2. /\ s.status = q.status /\ s.task = q.task /\ s.kicks = q.kicks /\ s.pass = q.pass
        /\ s.runner = q.runner /\ s.registration = q.registration /\ s.report = q.report
        /\ s.settle = q.settle /\ s.calling = q.calling /\ s.notified = q.notified
    BY <1>1 DEF JobRecord
  <2>3. \A p \in PassPhases : q.pass # One(PassPhases, p)
    <3>1. q.pass \in [PassPhases -> Nat]
      BY <1>1 DEF JobRecord, Counters
    <3>2. \A p \in PassPhases : ~ q.pass[p] > 0
      BY <2>1, <3>1, SomeOfThree DEF Passes
    <3> QED
      BY <3>2, Counts
  <2>4. ~ Awaits(q) /\ ~ Bootstraps(q) /\ \A p \in PassPhases : ~ Provisions(q, p)
    BY <2>1, <2>3 DEF Awaits, Bootstraps, Provisions, AtWork, PassPhases
  <2> HIDE DEF s
  <2>5. Straight(s)
    BY <2>2, <2>4 DEF Straight, Deploys, Abandoned, Registers, Rests, AtWork, PassPhases
  <2> QED
    BY <2>1, <2>2, <2>5 DEF ProceedsOn, Proceeds
<1>3. CASE ConductorBuilds(j)
  <2>1. PICK d \in StandStates : Becomes(j, [q EXCEPT !.stand = d])
    BY <1>3 DEF ConductorBuilds, StandStates
  <2> DEFINE s == [q EXCEPT !.stand = d]
  <2>2. /\ s.status = q.status /\ s.task = q.task /\ s.kicks = q.kicks /\ s.pass = q.pass
        /\ s.lock = q.lock
        /\ s.runner = q.runner /\ s.registration = q.registration /\ s.report = q.report
        /\ s.settle = q.settle /\ s.calling = q.calling /\ s.notified = q.notified
    BY <1>1 DEF JobRecord
  <2> HIDE DEF s
  <2>3. Straight(s)
    BY <2>2 DEF Straight, Awaits, Provisions, Bootstraps, Deploys, Abandoned, Registers, Rests,
       AtWork
  <2> QED
    BY <2>1, <2>2, <2>3 DEF ProceedsOn, Proceeds, s
<1> QED
  BY <1>2, <1>3

LEMMA RunnerProceeds ==
    ASSUME JobsInv, NEW j \in Jobs, Straight(job[j]), Runner(j)
    PROVE  ProceedsOn(j)
<1> DEFINE q == job[j]
<1>1. q \in JobRecord /\ q.report = No(ReportPhases)
  BY DEF JobsInv, Straight
<1>2. CASE RunnerStarts(j)
  <2> DEFINE r == [q EXCEPT !.runner["armed"] = @ - 1]
             s == [r EXCEPT !.task = "active", !.runner["running"] = @ + 1]
  <2>1. Deploys(q, "armed")
    BY <1>2, WhereItIs DEF RunnerStarts, Legs
  <2>2. Becomes(j, s)
    BY <1>1, <1>2, <2>1 DEF RunnerStarts, Deploys, JobRecord
  <2>3. /\ s.status = q.status /\ s.task = "active" /\ s.kicks = q.kicks /\ s.pass = q.pass
        /\ r.runner = [q.runner EXCEPT !["armed"] = @ - 1]
        /\ s.runner = [r.runner EXCEPT !["running"] = @ + 1]
        /\ s.registration = q.registration /\ s.report = q.report
        /\ s.settle = q.settle /\ s.calling = q.calling /\ s.notified = q.notified
    BY <1>1 DEF JobRecord
  <2>4. s.runner = One(Legs, "running")
    <3> HIDE DEF r, s
    <3>1. q.runner = One(Legs, "armed")
      BY <2>1 DEF Deploys, AtWork
    <3>2. r.runner = No(Legs)
      BY <2>3, <3>1, Counts DEF Legs
    <3> QED
      BY <2>3, <3>2, Counts DEF Legs
  <2> HIDE DEF s
  <2>5. Deploys(s, "running")
    BY <2>1, <2>3, <2>4 DEF Deploys, AtWork
  <2> QED
    BY <1>1, <2>2, <2>3, <2>5 DEF ProceedsOn, Proceeds, Straight
<1>3. ASSUME q.runner["running"] > 0
      PROVE  Deploys(q, "running") /\ q.task = "active"
  BY <1>3, WhereItIs DEF Legs, Deploys
<1>4. CASE RunnerRetries(j)
  <2> DEFINE s == [q EXCEPT !.runner["running"] = @ - 1, !.runner["armed"] = @ + 1]
  <2>1. Becomes(j, s) /\ Deploys(q, "running") /\ q.task = "active"
    BY <1>3, <1>4 DEF RunnerRetries
  <2>2. /\ s.status = q.status /\ s.task = q.task /\ s.kicks = q.kicks /\ s.pass = q.pass
        /\ s.runner = [q.runner EXCEPT !["running"] = @ - 1, !["armed"] = @ + 1]
        /\ s.registration = q.registration /\ s.report = q.report
        /\ s.settle = q.settle /\ s.calling = q.calling /\ s.notified = q.notified
    BY <1>1 DEF JobRecord
  <2>3. s.runner = One(Legs, "armed")
    BY <2>1, <2>2, Counts DEF Deploys, AtWork, Legs
  <2> HIDE DEF s
  <2>4. Deploys(s, "armed")
    BY <2>1, <2>2, <2>3 DEF Deploys, AtWork
  <2> QED
    BY <1>1, <2>1, <2>2, <2>4 DEF ProceedsOn, Proceeds, Straight
<1>5. CASE RunnerFinishes(j) \/ RunnerDies(j)
  <2> DEFINE e == [q EXCEPT !.runner["running"] = @ - 1, !.task = "ended"]
             s == [e EXCEPT !.status = "registering", !.registration["armed"] = @ + 1]
  <2>1. Deploys(q, "running")
    BY <1>3, <1>5 DEF RunnerFinishes, RunnerDies
  <2>2. Becomes(j, s) \/ Becomes(j, FailJob(e)) \/ Becomes(j, e)
    BY <1>5 DEF RunnerFinishes, RunnerDies
  <2>3. /\ e.status = q.status /\ e.task = "ended" /\ e.kicks = q.kicks /\ e.pass = q.pass
        /\ e.runner = [q.runner EXCEPT !["running"] = @ - 1]
        /\ e.registration = q.registration /\ e.report = q.report
        /\ e.settle = q.settle /\ e.calling = q.calling /\ e.notified = q.notified
    BY <1>1 DEF JobRecord
  <2>4. /\ s.status = "registering" /\ s.kicks = e.kicks /\ s.pass = e.pass
        /\ s.runner = e.runner
        /\ s.registration = [e.registration EXCEPT !["armed"] = @ + 1] /\ s.report = e.report
        /\ s.settle = e.settle /\ s.calling = e.calling /\ s.notified = e.notified
    BY <1>1 DEF JobRecord
  <2>5. e.runner = No(Legs) /\ s.registration = One(Legs, "armed")
    BY <2>1, <2>3, <2>4, Counts DEF Deploys, AtWork, Legs
  <2>6. e \in JobRecord
    <3>1. [q.runner EXCEPT !["running"] = @ - 1] \in Counters(Legs)
      <4>1. [q.runner EXCEPT !["running"] = @ - 1] = No(Legs)
        BY <2>1, Counts DEF Deploys, AtWork, Legs
      <4> QED
        BY <4>1, NoneCounted
    <3>2. \A c \in Counters(Legs) : [q EXCEPT !.runner = c, !.task = "ended"] \in JobRecord
      BY <1>1 DEF JobRecord, TaskStates
    <3> QED
      BY <3>1, <3>2
  <2> HIDE DEF e, s
  <2>7. Rests(e) /\ Abandoned(e) /\ Registers(s, "armed")
    BY <2>1, <2>3, <2>4, <2>5 DEF Deploys, Rests, Abandoned, Registers, AtWork
  <2>8. Proceeds(q, FailJob(e))
    BY <1>1, <2>1, <2>3, <2>6, <2>7, FailJobProceeds DEF Deploys, Ended
  <2>9. Proceeds(q, e) /\ Proceeds(q, s)
    BY <1>1, <2>1, <2>3, <2>4, <2>7 DEF Proceeds, Straight, Deploys, Ended
  <2> QED
    BY <2>2, <2>8, <2>9 DEF ProceedsOn
<1> QED
  BY <1>2, <1>4, <1>5 DEF Runner

LEMMA RegistrationProceeds ==
    ASSUME JobsInv, NEW j \in Jobs, Straight(job[j]), Registration(j)
    PROVE  ProceedsOn(j)
<1> DEFINE q == job[j]
<1>1. q \in JobRecord /\ q.report = No(ReportPhases)
  BY DEF JobsInv, Straight
<1>2. CASE RegistrationStarts(j)
  <2> DEFINE r == [q EXCEPT !.registration["armed"] = @ - 1]
             s == [r EXCEPT !.registration["running"] = @ + 1]
  <2>1. Registers(q, "armed")
    BY <1>2, WhereItIs DEF RegistrationStarts, Legs
  <2>2. Becomes(j, s)
    BY <1>1, <1>2, <2>1 DEF RegistrationStarts, Registers, Terminal, JobRecord
  <2>3. /\ s.status = q.status /\ s.kicks = q.kicks /\ s.pass = q.pass
        /\ r.registration = [q.registration EXCEPT !["armed"] = @ - 1]
        /\ s.registration = [r.registration EXCEPT !["running"] = @ + 1]
        /\ s.runner = q.runner /\ s.report = q.report
        /\ s.settle = q.settle /\ s.calling = q.calling /\ s.notified = q.notified
    BY <1>1 DEF JobRecord
  <2>4. s.registration = One(Legs, "running")
    <3> HIDE DEF r, s
    <3>1. q.registration = One(Legs, "armed")
      BY <2>1 DEF Registers, AtWork
    <3>2. r.registration = No(Legs)
      BY <2>3, <3>1, Counts DEF Legs
    <3> QED
      BY <2>3, <3>2, Counts DEF Legs
  <2> HIDE DEF s
  <2>5. Registers(s, "running")
    BY <2>1, <2>3, <2>4 DEF Registers, AtWork
  <2> QED
    BY <1>1, <2>2, <2>3, <2>5 DEF ProceedsOn, Proceeds, Straight
<1>3. CASE RegistrationEnds(j)
  <2> DEFINE r == [q EXCEPT !.registration["running"] = @ - 1]
             s == ArmSettlement([r EXCEPT !.status = "completed"], "succeeded")
  <2>1. Registers(q, "running")
    BY <1>3, WhereItIs DEF RegistrationEnds, Legs
  <2>2. /\ r.status = q.status /\ r.kicks = q.kicks /\ r.pass = q.pass
        /\ r.registration = [q.registration EXCEPT !["running"] = @ - 1]
        /\ r.runner = q.runner /\ r.report = q.report
        /\ r.settle = q.settle /\ r.calling = q.calling /\ r.notified = q.notified
    BY <1>1 DEF JobRecord
  <2>3. /\ s.status = "completed" /\ s.kicks = r.kicks /\ s.pass = r.pass
        /\ s.registration = r.registration /\ s.runner = r.runner /\ s.report = r.report
        /\ s.settle = [r.settle EXCEPT !["succeeded"] = @ + 1]
        /\ s.calling = r.calling /\ s.notified = r.notified
    BY <1>1 DEF ArmSettlement, JobRecord
  <2>4. r.registration = No(Legs)
    BY <2>1, <2>2, Counts DEF Registers, AtWork, Legs
  <2>5. r \in JobRecord
    <3>1. [q.registration EXCEPT !["running"] = @ - 1] \in Counters(Legs)
      <4>1. [q.registration EXCEPT !["running"] = @ - 1] = No(Legs)
        BY <2>1, Counts DEF Registers, AtWork, Legs
      <4> QED
        BY <4>1, NoneCounted
    <3>2. \A c \in Counters(Legs) : [q EXCEPT !.registration = c] \in JobRecord
      BY <1>1 DEF JobRecord
    <3> QED
      BY <3>1, <3>2
  <2>6. Becomes(j, s) \/ Becomes(j, FailJob(r))
    BY <1>3, <2>1, <2>2 DEF RegistrationEnds, MarkFailed, Registers, Terminal
  <2> HIDE DEF r, s
  <2>7. Rests(r) /\ Rests(s)
    BY <2>1, <2>2, <2>3, <2>4 DEF Registers, Rests, AtWork
  <2>8. Proceeds(q, FailJob(r))
    BY <1>1, <2>1, <2>2, <2>5, <2>7, FailJobProceeds DEF Registers, Ended
  <2>9. Proceeds(q, s)
    BY <1>1, <2>1, <2>2, <2>3, <2>7 DEF Proceeds, Straight, Registers, Ended, Due
  <2> QED
    BY <2>6, <2>8, <2>9 DEF ProceedsOn
<1> QED
  BY <1>2, <1>3 DEF Registration

(* Nothing of an off-chain deployer or of an operator is under way.        *)
LEMMA JobStepProceeds ==
    ASSUME Undisturbed, JobsInv, NEW j \in Jobs, Straight(job[j]), JobStep(j)
    PROVE  ProceedsOn(j)
<1>1. ~ ReportResumes(j)
  BY WhereItIs DEF ReportResumes, CanisterStatusRead, FrontendStatusRead, ReportBuildsTask,
     ReportPhases
<1>2. ~ Intervention(j)
  BY DEF Undisturbed, Intervention, ProvisionEndpoint, ReportCanisterReady,
     ReportFrontendVerified, FinalizeDeployment, ReportDeploymentFailure, RetryDeployment
<1> QED
  BY <1>1, <1>2, KickProceeds, PassProceeds, WorldProceeds, RunnerProceeds, RegistrationProceeds
  DEF JobStep

(* The heartbeat starts a waiting pass, and fails a job whose runner died. *)
LEMMA HeartbeatProceeds ==
    ASSUME Undisturbed, JobsInv, Heartbeat, NEW j \in Jobs, Straight(job[j])
    PROVE  Proceeds(job[j], job'[j])
<1> DEFINE q == job[j]
           k == [q EXCEPT !.kicks = @ + 1]
<1>1. q \in JobRecord /\ q.report = No(ReportPhases)
  BY DEF JobsInv, Straight
<1>2. PICK old \in SUBSET Jobs :
        job' = [i \in Jobs |-> Reconciled(Rekicked(job[i]), i \in old)]
  BY DEF Heartbeat
<1>3. job'[j] \in {Rekicked(q), FailJob(Rekicked(q))}
      /\ (job'[j] # Rekicked(q) => Stranded(Rekicked(q)))
  BY <1>2 DEF Reconciled
<1>4. /\ k.status = q.status /\ k.task = q.task /\ k.lock = q.lock /\ k.kicks = q.kicks + 1
      /\ k.pass = q.pass /\ k.runner = q.runner /\ k.registration = q.registration
      /\ k.report = q.report
      /\ k.settle = q.settle /\ k.calling = q.calling /\ k.notified = q.notified
  BY <1>1 DEF JobRecord
<1>5. /\ Awaits(q) => q.lock = "free" /\ q.status = "provisioning"
      /\ Bootstraps(q) => q.lock = "fresh"
      /\ \A l \in Legs : Deploys(q, l) =>
           q.task = "active" \/ (q.task = "queued" /\ l = "armed" /\ q.runner["armed"] = 1)
  BY Counts DEF Awaits, Bootstraps, Deploys, AtWork, Legs
<1>6. CASE Rekicked(q) = k /\ k # q
  <2>1. Kickable(q) /\ q.lock # "fresh" /\ ~ q.kicks > 0
    BY <1>6 DEF Rekicked, Undisturbed
  <2>2. Awaits(q) /\ q.kicks = 0
    BY <2>1 DEF Straight, Kickable, Awaits, Provisions, Bootstraps, Deploys, Abandoned, Registers,
       Ended, AtWork
  <2> HIDE DEF k
  <2>3. Awaits(k)
    BY <1>4, <2>2 DEF Awaits, AtWork
  <2>4. ~ Stranded(k)
    BY <2>3 DEF Awaits, Stranded
  <2> QED
    BY <1>1, <1>3, <1>4, <1>6, <2>2, <2>3, <2>4 DEF Proceeds, Straight
<1>7. CASE Rekicked(q) = q /\ ~ Stranded(q)
  BY <1>3, <1>7 DEF Proceeds
<1>8. CASE Rekicked(q) = q /\ Stranded(q)
  <2>1. q.status = "extensions" /\ q.lock # "fresh" /\ q.task \in {"none", "queued", "waiting", "ended"}
        /\ ~ q.runner["armed"] > 0
    BY <1>8 DEF Stranded, Undisturbed
  <2>2. Abandoned(q)
    BY <1>5, <2>1 DEF Straight, Awaits, Provisions, Deploys, Registers, Ended, Legs
  <2>3. Proceeds(q, FailJob(q))
    BY <1>1, <2>1, <2>2, FailJobProceeds DEF Abandoned, Ended
  <2> QED
    BY <1>3, <1>8, <2>3 DEF Proceeds
<1>9. Rekicked(q) = k \/ Rekicked(q) = q
  BY DEF Rekicked
<1> QED
  BY <1>3, <1>6, <1>7, <1>8, <1>9
=============================================================================
