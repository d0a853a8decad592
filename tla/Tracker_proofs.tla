--------------------------- MODULE Tracker_proofs ---------------------------
(***************************************************************************)
(* What the page that follows one deployment keeps true, for any number of *)
(* jobs, visits, polls in flight and attempts, and any steps of the task.  *)
(*                                                                         *)
(* What a page shows is a record of the past.  The proofs order the        *)
(* records of a job: a poll's record is no later than the installer's, and *)
(* the row of a visit no later than the records still on their way to it.  *)
(***************************************************************************)
EXTENDS Tracker, FiniteSetTheorems, TLAPS

(* A task with all of its steps.                                           *)
Built == [DOMAIN StepKinds -> StepStates]
Completed(task) == StepsIn(task, "completed")

InBootstrap == {"extensions", "registering"}

----------------------------------------------------------------------------
(* The order of the records of one job: first by the end of the last       *)
(* attempt, then by the phase of the attempt after it.                     *)
Rank(s) ==
    CASE s = "pending" -> 1 [] s = "provisioning" -> 2 [] s = "verifying" -> 3
      [] s = "extensions" -> 4 [] s = "registering" -> 5 [] s = "gone" -> 6
      [] OTHER -> 0

MadeRank(made) == CASE made = "nothing" -> 0 [] made = "canisters" -> 1 [] made = "realm" -> 2

NoLater(r, q) ==
    \/ r.ended < q.ended
    \/ /\ r.ended = q.ended
       /\ Rank(r.status) <= Rank(q.status)
       /\ MadeRank(r.made) <= MadeRank(q.made)

LEMMA NoLaterTransitive ==
    ASSUME NEW r \in Records, NEW q \in Records, NEW p \in Records, NoLater(r, q), NoLater(q, p)
    PROVE  NoLater(r, p)
<1>1. \A s \in LifeStatuses : Rank(s) \in Nat
  BY DEF Rank
<1>2. \A x \in Made : MadeRank(x) \in Nat
  BY DEF Made, MadeRank
<1> QED
  BY <1>1, <1>2 DEF NoLater, Records

LEMMA NoLaterReflexive ==
    ASSUME NEW r \in Records
    PROVE  NoLater(r, r)
<1>1. Rank(r.status) \in Nat /\ MadeRank(r.made) \in Nat
  BY DEF Rank, MadeRank, Made, Records
<1> QED
  BY <1>1 DEF NoLater, Records

----------------------------------------------------------------------------
(* The jobs.                                                               *)

(* What is said of a record: it ended at a time gone by, and if it is a    *)
(* failure it has an end; a job that waits for its canisters has none; a   *)
(* job in its bootstrap has a task.                                        *)
SoundAbout(s, r, t) ==
    /\ r.ended <= t
    /\ s \in Failures => r.ended > 0
    /\ s = "pending" => r.made = "nothing"
    /\ s \in InBootstrap => r.task \in Built

JobsSound ==
    /\ JobQueriesTypeOK
    /\ \A j \in Jobs : SoundAbout(life[j], about[j], now)

(* What no move of job j takes back.                                       *)
MovesOn(j) ==
    /\ now <= now'
    /\ NoLater(Record(j), Record(j)')
    /\ Completed(about[j].task) \subseteq Completed(about'[j].task)
    /\ about[j].task \in Built => about'[j].task \in Built

LEMMA RecordTyped ==
    ASSUME JobQueriesTypeOK, NEW j \in Jobs
    PROVE  Record(j) \in Records
BY DEF JobQueriesTypeOK, Record, Records, About

(* One job changes to status s and fields r.                               *)
LEMMA ChangeIsSound ==
    ASSUME JobsSound, NEW j \in Jobs, NEW s \in LifeStatuses, NEW r \in About,
           life' = [life EXCEPT ![j] = s], about' = [about EXCEPT ![j] = r],
           now' \in 0 .. MaxTime, now <= now',
           SoundAbout(s, r, now'),
           \/ r.ended = about[j].ended /\ Rank(life[j]) <= Rank(s)
           \/ r.ended > now,
           MadeRank(about[j].made) <= MadeRank(r.made),
           Completed(about[j].task) \subseteq Completed(r.task),
           about[j].task \in Built => r.task \in Built
    PROVE  JobsSound' /\ \A i \in Jobs : MovesOn(i)
<1> USE DEF JobsSound
<1>1. JobQueriesTypeOK'
  BY DEF JobQueriesTypeOK
<1>2. \A i \in Jobs : SoundAbout(life'[i], about'[i], now')
  BY JobQueriesAssumption DEF SoundAbout, JobQueriesTypeOK, About
<1>3. ASSUME NEW i \in Jobs
      PROVE  MovesOn(i)
  <2>1. CASE i = j
    <3>1. /\ Record(j) = [status |-> life[j], error |-> about[j].error,
                 created |-> about[j].created, ended |-> about[j].ended,
                 made |-> about[j].made, task |-> about[j].task]
          /\ Record(j)' = [status |-> s, error |-> r.error, created |-> r.created,
                 ended |-> r.ended, made |-> r.made, task |-> r.task]
      BY DEF Record, JobQueriesTypeOK
    <3>2. about[j].ended <= now /\ about[j].ended \in Nat /\ r.ended \in Nat /\ now \in Nat
      BY DEF SoundAbout, JobQueriesTypeOK, About
    <3>3. NoLater(Record(j), Record(j)')
      BY <3>1, <3>2 DEF NoLater
    <3> QED
      BY <2>1, <3>3 DEF MovesOn, JobQueriesTypeOK
  <2>2. CASE i # j
    <3>1. Record(i)' = Record(i) /\ about'[i] = about[i]
      BY <2>2 DEF Record, JobQueriesTypeOK
    <3> QED
      BY <3>1, RecordTyped, NoLaterReflexive DEF MovesOn
  <2> QED
    BY <2>1, <2>2
<1> QED
  BY <1>1, <1>2, <1>3

(* The steps of a task.                                                    *)
LEMMA EmptyTask ==
    \A s : StepsIn(NoTask, s) = {}
BY DEF StepsIn, NoTask

LEMMA ResumedIsBuilt ==
    ASSUME NEW task \in Tasks
    PROVE  ResumedTask(task) \in Built /\ Completed(task) \subseteq Completed(ResumedTask(task))
<1>1. CASE task = NoTask
  BY <1>1, EmptyTask DEF ResumedTask, Built, StepStates, Completed
<1>2. CASE task # NoTask
  <2>1. task \in Built
    BY <1>2 DEF Tasks, Built
  <2>2. ResumedTask(task) = [i \in DOMAIN StepKinds |->
            IF task[i] = "completed" THEN "completed" ELSE "pending"]
    BY <1>2, <2>1 DEF ResumedTask, Built
  <2> QED
    BY <2>1, <2>2 DEF Built, StepStates, Completed, StepsIn
<1> QED
  BY <1>1, <1>2

(* A step that has not completed changes its state.                        *)
LEMMA StepIsSound ==
    ASSUME JobsSound, NEW j \in Jobs, NEW i, NEW old \in StepStates, old # "completed",
           i \in StepsIn(about[j].task, old), NEW state \in StepStates,
           Steps(j, [about[j] EXCEPT !.task[i] = state])
    PROVE  JobsSound' /\ \A k \in Jobs : MovesOn(k)
<1> DEFINE task == [about[j].task EXCEPT ![i] = state]
           r == [about[j] EXCEPT !.task[i] = state]
<1>1. about[j] \in About /\ life[j] \in LifeStatuses /\ now \in 0 .. MaxTime
      /\ SoundAbout(life[j], about[j], now)
  BY DEF JobsSound, JobQueriesTypeOK
<1>2. about[j].task \in Built
  BY <1>1, EmptyTask DEF About, Tasks, Built
<1>3. task \in Built /\ Completed(about[j].task) \subseteq Completed(task)
  BY <1>2 DEF Built, Completed, StepsIn
<1>4. r = [about[j] EXCEPT !.task = task]
  BY <1>1 DEF About
<1> HIDE DEF task, r
<1>5. r \in About /\ r.ended = about[j].ended /\ r.made = about[j].made /\ r.task = task
  BY <1>1, <1>3, <1>4 DEF About, Tasks, Built
<1>6. SoundAbout(life[j], r, now)
  BY <1>1, <1>3, <1>5 DEF SoundAbout
<1>7. /\ life' = [life EXCEPT ![j] = life[j]] /\ about' = [about EXCEPT ![j] = r] /\ now' = now
  BY DEF Steps, r, JobsSound, JobQueriesTypeOK
<1>8. Rank(life[j]) \in Nat /\ MadeRank(about[j].made) \in Nat /\ now \in Nat
  BY <1>1, JobQueriesAssumption DEF Rank, MadeRank, About, Made
<1>9. /\ now' \in 0 .. MaxTime /\ now <= now' /\ SoundAbout(life[j], r, now')
      /\ Rank(life[j]) <= Rank(life[j]) /\ MadeRank(about[j].made) <= MadeRank(r.made)
  BY <1>1, <1>5, <1>6, <1>7, <1>8
<1> QED
  BY <1>1, <1>2, <1>3, <1>5, <1>7, <1>9, ChangeIsSound

(* The job keeps its task and what is made, and its attempt goes on, or    *)
(* the next one begins, without a new end.                                 *)
LEMMA PhaseIsSound ==
    ASSUME JobsSound, NEW j \in Jobs, NEW s \in LifeStatuses, NEW r \in About,
           r.ended = about[j].ended, r.task = about[j].task,
           MadeRank(about[j].made) <= MadeRank(r.made),
           Moves(j, s, r) \/ Passes(j, s, r),
           Rank(life[j]) <= Rank(s),
           s \in Failures => life[j] \in Failures,
           s = "pending" => r.made = "nothing",
           s \in InBootstrap => life[j] \in InBootstrap
    PROVE  JobsSound' /\ \A k \in Jobs : MovesOn(k)
<1>1. now \in 0 .. MaxTime /\ now \in Nat /\ about[j].ended \in Nat
      /\ SoundAbout(life[j], about[j], now)
  BY JobQueriesAssumption DEF JobsSound, JobQueriesTypeOK, About
<1>2. /\ life' = [life EXCEPT ![j] = s] /\ about' = [about EXCEPT ![j] = r]
      /\ now' \in 0 .. MaxTime /\ now <= now'
  BY <1>1, JobQueriesAssumption DEF Moves, Passes, LifeStep
<1>3. SoundAbout(s, r, now')
  BY <1>1, <1>2, JobQueriesAssumption DEF SoundAbout
<1> QED
  BY <1>2, <1>3, ChangeIsSound

(* The attempt ends: the time is written into the record.                  *)
LEMMA EndIsSound ==
    ASSUME JobsSound, NEW j \in Jobs, NEW s \in EndedStatuses, NEW e \in Errors,
           Passes(j, s, [about[j] EXCEPT !.error = e, !.ended = now + 1])
    PROVE  JobsSound' /\ \A k \in Jobs : MovesOn(k)
<1> DEFINE Ended(t) == [about[j] EXCEPT !.error = e, !.ended = t]
           r == Ended(now + 1)
<1>1. now \in 0 .. MaxTime /\ now \in Nat /\ about[j] \in About /\ now + 1 \in Nat
  BY JobQueriesAssumption DEF JobsSound, JobQueriesTypeOK
<1>2. \A t \in Nat : /\ Ended(t) \in About /\ Ended(t).ended = t
                    /\ Ended(t).made = about[j].made /\ Ended(t).task = about[j].task
  BY <1>1 DEF About
<1> HIDE DEF Ended
<1>0. r \in About /\ r.ended = now + 1 /\ r.made = about[j].made /\ r.task = about[j].task
  BY <1>1, <1>2
<1> HIDE DEF r
<1>3. /\ life' = [life EXCEPT ![j] = s] /\ about' = [about EXCEPT ![j] = r]
      /\ now' \in 0 .. MaxTime /\ now' = now + 1 /\ now <= now'
  BY <1>1, JobQueriesAssumption DEF Passes, LifeStep, r, Ended
<1>4. s \in LifeStatuses /\ s # "pending" /\ s \notin InBootstrap
  BY DEF LifeStatuses, EndedStatuses, InBootstrap
<1>5. SoundAbout(s, r, now')
  BY <1>0, <1>1, <1>3, <1>4 DEF SoundAbout
<1>6. MadeRank(about[j].made) \in Nat
  BY <1>1 DEF MadeRank, About, Made
<1>7. r.ended > now /\ MadeRank(about[j].made) <= MadeRank(r.made)
  BY <1>0, <1>1, <1>6
<1> QED
  BY <1>0, <1>3, <1>4, <1>5, <1>7, ChangeIsSound

LEMMA JobMovesOn ==
    ASSUME JobsSound, NEW j \in Jobs, InstallerMoves(j) \/ DeletesJob(j)
    PROVE  JobsSound' /\ \A k \in Jobs : MovesOn(k)
<1>1. about[j] \in About /\ life[j] \in LifeStatuses /\ now \in 0 .. MaxTime /\ now \in Nat
      /\ SoundAbout(life[j], about[j], now)
  BY JobQueriesAssumption DEF JobsSound, JobQueriesTypeOK
<1>2. MadeRank(about[j].made) \in 0 .. 2
  BY <1>1 DEF About, Made, MadeRank
<1> USE DEF Errors
<1>3. CASE EnqueuesJob(j)
  <2> DEFINE r == [NoRecord EXCEPT !.created = now + 1]
  <2>1. r \in About /\ r.ended = 0 /\ r.made = "nothing" /\ r.task = NoTask
    BY <1>1 DEF About, NoRecord, Tasks, Made
  <2>2. PICK s \in {"provisioning", "pending"} : Passes(j, s, r)
    BY <1>3 DEF EnqueuesJob
  <2>3. about[j] = NoRecord /\ life[j] = "none"
    BY <1>3 DEF EnqueuesJob
  <2> HIDE DEF r
  <2> QED
    BY <1>2, <2>1, <2>2, <2>3, PhaseIsSound
    DEF NoRecord, LifeStatuses, LiveStatuses, Failures, InBootstrap, Rank
<1>4. CASE MakesCanisters(j)
  <2> DEFINE r == [about[j] EXCEPT !.made = "canisters"]
  <2>1. /\ r \in About /\ r.ended = about[j].ended /\ r.made = "canisters"
        /\ r.task = about[j].task
    BY <1>1 DEF About, Made
  <2>2. life[j] = "pending" /\ about[j].made = "nothing" /\ Moves(j, "verifying", r)
    BY <1>1, <1>4 DEF MakesCanisters, SoundAbout
  <2> HIDE DEF r
  <2> QED
    BY <2>1, <2>2, PhaseIsSound
    DEF LifeStatuses, LiveStatuses, Failures, InBootstrap, Rank, MadeRank
<1>5. CASE FailsVerification(j)
  BY <1>5, EndIsSound DEF FailsVerification, EndedStatuses
<1>6. CASE StartsBootstrap(j)
  <2> DEFINE r == [about[j] EXCEPT !.made = "realm", !.task = ResumedTask(about[j].task)]
  <2>1. /\ ResumedTask(about[j].task) \in Built
        /\ Completed(about[j].task) \subseteq Completed(ResumedTask(about[j].task))
    BY <1>1, ResumedIsBuilt DEF About
  <2>2. /\ r \in About /\ r.ended = about[j].ended /\ r.made = "realm"
        /\ r.task = ResumedTask(about[j].task)
    BY <1>1, <2>1 DEF About, Made, Tasks, Built
  <2>3. life[j] \in {"provisioning", "verifying"} /\ Moves(j, "extensions", r)
    BY <1>6 DEF StartsBootstrap
  <2> HIDE DEF r
  <2>4. /\ life' = [life EXCEPT ![j] = "extensions"] /\ about' = [about EXCEPT ![j] = r]
        /\ now' = now
    BY <2>3 DEF Moves, LifeStep
  <2>5. SoundAbout("extensions", r, now')
    BY <1>1, <2>1, <2>2, <2>4 DEF SoundAbout, Failures
  <2>6. Rank(life[j]) <= Rank("extensions") /\ "extensions" \in LifeStatuses
    BY <2>3 DEF Rank, LifeStatuses, LiveStatuses
  <2>7. MadeRank("realm") = 2
    BY DEF MadeRank
  <2>8. now' \in 0 .. MaxTime /\ now <= now' /\ MadeRank(about[j].made) <= MadeRank(r.made)
    BY <1>1, <1>2, <2>2, <2>4, <2>7
  <2> QED
    BY <2>1, <2>2, <2>4, <2>5, <2>6, <2>8, ChangeIsSound
<1>7. CASE StartsStep(j)
  BY <1>7, StepIsSound DEF StartsStep, StepStates
<1>8. CASE EndsStep(j)
  BY <1>8, StepIsSound DEF EndsStep, StepStates
<1>9. CASE EndsBootstrap(j)
  <2>1. CASE BootstrapBroken(about[j].task)
    BY <1>9, <2>1, EndIsSound DEF EndsBootstrap, EndedStatuses
  <2>2. CASE ~ BootstrapBroken(about[j].task)
    <3>1. PICK r \in {about[j], [about[j] EXCEPT !.error = "partial"]} :
             Moves(j, "registering", r)
      BY <1>9, <2>2 DEF EndsBootstrap
    <3>2. /\ r \in About /\ r.ended = about[j].ended /\ r.made = about[j].made
          /\ r.task = about[j].task
      BY <1>1, <3>1 DEF About
    <3>3. life[j] = "extensions"
      BY <1>9 DEF EndsBootstrap
    <3> QED
      BY <1>2, <3>1, <3>2, <3>3, PhaseIsSound
      DEF LifeStatuses, LiveStatuses, Failures, InBootstrap, Rank
  <2> QED
    BY <2>1, <2>2
<1>10. CASE Registers(j)
  BY <1>10, EndIsSound DEF Registers, EndedStatuses
<1>11. CASE FailsJob(j)
  BY <1>11, EndIsSound DEF FailsJob, FailureErrors, EndedStatuses
<1>12. CASE CancelsJob(j)
  BY <1>12, EndIsSound DEF CancelsJob, EndedStatuses
<1>13. CASE RetriesJob(j) \/ RevivesJob(j)
  BY <1>1, <1>2, <1>13, PhaseIsSound
  DEF RetriesJob, RevivesJob, LifeStatuses, LiveStatuses, Failures, InBootstrap, Rank
<1>14. CASE DeletesJob(j)
  BY <1>1, <1>2, <1>14, PhaseIsSound
  DEF DeletesJob, LifeStatuses, Failures, InBootstrap, Rank
<1> QED
  BY <1>3, <1>4, <1>5, <1>6, <1>7, <1>8, <1>9, <1>10, <1>11, <1>12, <1>13, <1>14
  DEF InstallerMoves

----------------------------------------------------------------------------
(* Retries.                                                                *)

LEMMA StagesTyped ==
    ASSUME NEW r \in Records, r.status \notin {"none", "gone"}
    PROVE  ActiveStage(r) \in Stages
<1>1. StageOfStatus(r.status) \in Stages
  BY DEF StageOfStatus, Stages, Records, LifeStatuses, LiveStatuses, EndedStatuses
<1>2. \A n \in Stages : Min({n, 4}) \in Stages
  BY DEF Min, Stages
<1> QED
  BY <1>1, <1>2 DEF ActiveStage, Stages

LEMMA RememberedTyped ==
    ASSUME NEW r \in Records, NEW m \in Memory, NEW t \in Nat
    PROVE  Remembered(m, r, t) \in Memory
BY DEF Remembered, Memory, Records, NoMemory, Errors

(* A memory that knows of a failure knows when it was, and all it knows is *)
(* of times gone by.                                                       *)
MemoryTimed(m, t) ==
    /\ m.auto \/ m.lastError # "none" => m.failedAt > 0
    /\ m.failedAt <= t
    /\ m.auto => m.startedAt <= t /\ m.startedAt >= m.failedAt

StagesTimed(m, times) ==
    m.auto => \A i \in Stages \ {0} : times[i] > 0 => times[i] >= m.startedAt

LEMMA MemoryStaysTimed ==
    ASSUME NEW r \in Records, NEW m \in Memory, NEW t \in Nat,
           r.status \in Failures => r.ended > 0, r.ended <= t, MemoryTimed(m, t)
    PROVE  MemoryTimed(Remembered(m, r, t), t)
<1> DEFINE n == Remembered(m, r, t)
<1>1. CASE IsComplete(r)
  BY <1>1 DEF Remembered, NoMemory, MemoryTimed
<1>2. CASE ~ IsComplete(r) /\ r.status \in Failures
  <2>1. n.auto = FALSE
    BY <1>2, Zenon DEF Remembered
  <2>2. n.failedAt = r.ended
    BY <1>2 DEF Remembered
  <2> QED
    BY <1>2, <2>1, <2>2 DEF MemoryTimed, Records
<1>3. CASE /\ ~ IsComplete(r) /\ r.status \notin Failures
           /\ Active(r) /\ (m.lastError # "none" \/ r.ended > 0)
  <2>1. /\ n.failedAt = IF m.failedAt > 0 THEN m.failedAt ELSE r.ended
        /\ n.startedAt = IF m.auto THEN m.startedAt ELSE t
    BY <1>3 DEF Remembered
  <2> HIDE DEF n
  <2>2. m.auto => n.failedAt = m.failedAt /\ n.startedAt = m.startedAt
    BY <2>1 DEF MemoryTimed
  <2>3. n.failedAt > 0 /\ n.failedAt <= t
    BY <1>3, <2>1 DEF MemoryTimed, Memory, Records
  <2>4. ~ m.auto => n.startedAt = t
    BY <2>1
  <2>5. m.auto => n.startedAt <= t /\ n.startedAt >= n.failedAt
    BY <2>2 DEF MemoryTimed
  <2>6. ~ m.auto => n.startedAt <= t /\ n.startedAt >= n.failedAt
    BY <2>3, <2>4
  <2> QED
    BY <2>3, <2>5, <2>6 DEF MemoryTimed, n
<1>4. CASE /\ ~ IsComplete(r) /\ r.status \notin Failures
           /\ ~ (Active(r) /\ (m.lastError # "none" \/ r.ended > 0))
  BY <1>4 DEF Remembered
<1> QED
  BY <1>1, <1>2, <1>3, <1>4

LEMMA ObservedTyped ==
    ASSUME memory \in Memory, stageTimes \in [Stages -> Nat], now \in Nat, NEW r \in Records
    PROVE  Observed(r, stageTimes) \in [Stages -> Nat]
BY DEF Observed, Stages, Records

(* A stage is timed by now at the latest, and from now on when a retry is  *)
(* seen for the first time.                                                *)
LEMMA StagesStayTimed ==
    ASSUME memory \in Memory, stageTimes \in [Stages -> Nat], now \in Nat, NEW r \in Records,
           MemoryTimed(memory, now), StagesTimed(memory, stageTimes)
    PROVE  StagesTimed(Remembered(memory, r, now), Observed(r, stageTimes))
<1> DEFINE n == Remembered(memory, r, now)
           kept == IF ForgetsStages(memory, r) THEN [i \in Stages |-> 0] ELSE stageTimes
<1>1. \A i \in Stages \ {0} : Observed(r, stageTimes)[i] \in {kept[i], now, 0}
  BY DEF Observed, Stages
<1>2. CASE IsComplete(r)
  <2>1. n.auto = FALSE
    BY <1>2, Zenon DEF Remembered, NoMemory
  <2> QED
    BY <2>1 DEF StagesTimed
<1>3. CASE ~ IsComplete(r) /\ r.status \in Failures
  <2>1. n.auto = FALSE
    BY <1>3, Zenon DEF Remembered
  <2> QED
    BY <2>1 DEF StagesTimed
<1>4. CASE /\ ~ IsComplete(r) /\ r.status \notin Failures /\ ~ memory.auto
           /\ Active(r) /\ (memory.lastError # "none" \/ r.ended > 0)
  <2>1. n.startedAt = now
    BY <1>4 DEF Remembered
  <2>2. \A i \in Stages : kept[i] = 0
    BY <1>4 DEF ForgetsStages
  <2> HIDE DEF kept, n
  <2>3. \A i \in Stages \ {0} :
          Observed(r, stageTimes)[i] > 0 => Observed(r, stageTimes)[i] >= n.startedAt
    BY <1>1, <2>1, <2>2
  <2> QED
    BY <2>3 DEF StagesTimed, n
<1>5. CASE /\ ~ IsComplete(r) /\ r.status \notin Failures
           /\ memory.auto \/ ~ (Active(r) /\ (memory.lastError # "none" \/ r.ended > 0))
  <2>1. n.auto => memory.auto
    <3>1. CASE memory.auto
      BY <3>1
    <3>2. CASE ~ memory.auto
      <4>1. n = memory
        BY <1>5, <3>2 DEF Remembered
      <4> QED
        BY <4>1, <3>2, Zenon
    <3> QED
      BY <3>1, <3>2
  <2>2. memory.auto => n.startedAt = memory.startedAt
    BY <1>5 DEF Remembered
  <2>3. kept = stageTimes
    BY <1>5 DEF ForgetsStages
  <2> HIDE DEF kept, n
  <2>4. ASSUME n.auto, NEW i \in Stages \ {0}, Observed(r, stageTimes)[i] > 0
        PROVE  Observed(r, stageTimes)[i] >= n.startedAt
    <3>1. /\ memory.startedAt <= now /\ n.startedAt = memory.startedAt
          /\ stageTimes[i] > 0 => stageTimes[i] >= memory.startedAt
      BY <2>1, <2>2, <2>4 DEF MemoryTimed, StagesTimed
    <3> QED
      BY <1>1, <2>3, <2>4, <3>1 DEF Memory
  <2> QED
    BY <2>4 DEF StagesTimed, n
<1> QED
  BY <1>2, <1>3, <1>4, <1>5

----------------------------------------------------------------------------
(* The progress bar.                                                       *)

LEMMA DivisionIsMonotone ==
    ASSUME NEW a \in Nat, NEW b \in Nat, a <= b, NEW d \in Nat \ {0}
    PROVE  a \div d \in Nat /\ a \div d <= b \div d
OBVIOUS

LEMMA DivisionIsBounded ==
    ASSUME NEW d \in Nat \ {0}
    PROVE  /\ (2 * (42 * d) + d) \div (2 * d) = 42
           /\ (2 * (42 * d + 50 * d) + d) \div (2 * d) = 92
OBVIOUS

LEMMA ExtensionSlice ==
    ASSUME NEW total \in Nat, NEW done \in 0 .. total
    PROVE  ExtensionPercent(done, total) \in 42 .. 92
<1>1. CASE total = 0
  BY <1>1 DEF ExtensionPercent
<1>2. CASE total # 0
  <2>1. /\ (2 * (42 * total + 50 * done) + total) \in Nat
        /\ (2 * (42 * total) + total) \in Nat
        /\ (2 * (42 * total + 50 * total) + total) \in Nat
        /\ 2 * total \in Nat \ {0}
        /\ 2 * (42 * total) + total <= 2 * (42 * total + 50 * done) + total
        /\ 2 * (42 * total + 50 * done) + total <= 2 * (42 * total + 50 * total) + total
    BY <1>2
  <2>2. /\ (2 * (42 * total) + total) \div (2 * total) = 42
        /\ (2 * (42 * total + 50 * total) + total) \div (2 * total) = 92
    BY <1>2, DivisionIsBounded
  <2>3. ExtensionPercent(done, total) = (2 * (42 * total + 50 * done) + total) \div (2 * total)
    BY <1>2 DEF ExtensionPercent
  <2>4. /\ 42 <= ExtensionPercent(done, total) /\ ExtensionPercent(done, total) \in Nat
    BY <2>1, <2>2, <2>3, DivisionIsMonotone
  <2>5. ExtensionPercent(done, total) <= 92
    BY <2>1, <2>2, <2>3, DivisionIsMonotone
  <2> QED
    BY <2>4, <2>5
<1> QED
  BY <1>1, <1>2

LEMMA ExtensionAdvances ==
    ASSUME NEW total \in Nat, NEW done \in 0 .. total, NEW more \in done .. total
    PROVE  ExtensionPercent(done, total) <= ExtensionPercent(more, total)
<1>1. CASE total = 0
  BY <1>1 DEF ExtensionPercent
<1>2. CASE total # 0
  <2>1. /\ (2 * (42 * total + 50 * done) + total) \in Nat
        /\ (2 * (42 * total + 50 * more) + total) \in Nat
        /\ 2 * total \in Nat \ {0}
        /\ 2 * (42 * total + 50 * done) + total <= 2 * (42 * total + 50 * more) + total
    BY <1>2
  <2>2. (2 * (42 * total + 50 * done) + total) \div (2 * total)
          <= (2 * (42 * total + 50 * more) + total) \div (2 * total)
    BY <2>1, DivisionIsMonotone
  <2> QED
    BY <1>2, <2>2 DEF ExtensionPercent
<1> QED
  BY <1>1, <1>2

LEMMA StepsCounted ==
    /\ Len(StepKinds) \in Nat
    /\ DOMAIN StepKinds = 1 .. Len(StepKinds)
    /\ IsFiniteSet(DOMAIN StepKinds)
    /\ Cardinality(DOMAIN StepKinds) = Len(StepKinds)
<1>1. Len(StepKinds) \in Nat /\ DOMAIN StepKinds = 1 .. Len(StepKinds)
  BY JobQueriesAssumption
<1>2. \A n \in Nat : IsFiniteSet(1 .. n) /\ Cardinality(1 .. n) = n
  <2> SUFFICES ASSUME NEW n \in Nat PROVE IsFiniteSet(1 .. n) /\ Cardinality(1 .. n) = n
    OBVIOUS
  <2>1. IsFiniteSet(1 .. n) /\ Cardinality(1 .. n) = IF 1 > n THEN 0 ELSE n - 1 + 1
    BY FS_Interval
  <2> QED
    BY <2>1
<1> QED
  BY <1>1, <1>2

LEMMA TotalIsSteps ==
    ASSUME NEW task \in Tasks
    PROVE  ExtensionTotal(task) = Len(StepKinds)
<1>1. Len(task) \in {0, Len(StepKinds)}
  <2>1. CASE task = NoTask
    BY <2>1 DEF NoTask
  <2>2. CASE task # NoTask
    <3>1. task \in [1 .. Len(StepKinds) -> StepStates]
      BY <2>2, StepsCounted DEF Tasks
    <3> QED
      BY <3>1, StepsCounted
  <2> QED
    BY <2>1, <2>2
<1>2. \A n \in Nat : \A k \in {0, n} : Max({k, n}) = n
  BY DEF Max
<1> QED
  BY <1>1, <1>2, StepsCounted DEF ExtensionTotal

LEMMA CompletedCounted ==
    ASSUME NEW task \in Tasks
    PROVE  /\ IsFiniteSet(Completed(task))
           /\ Cardinality(Completed(task)) \in 0 .. Len(StepKinds)
<1>1. Completed(task) \subseteq DOMAIN StepKinds
  BY EmptyTask DEF Tasks, Completed, StepsIn
<1>2. /\ IsFiniteSet(Completed(task))
      /\ Cardinality(Completed(task)) <= Cardinality(DOMAIN StepKinds)
  BY <1>1, StepsCounted, FS_Subset
<1> QED
  BY <1>2, StepsCounted, FS_CardinalityType

LEMMA DoneCounted ==
    ASSUME NEW r \in Records, NEW task \in Tasks
    PROVE  ExtensionDone(r, task) \in 0 .. Len(StepKinds)
BY TotalIsSteps, CompletedCounted, StepsCounted DEF ExtensionDone, Completed

LEMMA PercentTyped ==
    ASSUME NEW r \in Records, NEW task \in Tasks
    PROVE  Percent(r, task) \in 0 .. 100
<1>1. ExtensionPercent(ExtensionDone(r, task), ExtensionTotal(task)) \in 42 .. 92
  BY DoneCounted, TotalIsSteps, StepsCounted, ExtensionSlice
<1>2. Percent(r, task) \in {3, 5, 7, 26, 35, 38, 42, 96, 100,
                           ExtensionPercent(ExtensionDone(r, task), ExtensionTotal(task))}
  <2> HIDE DEF ExtensionPercent
  <2> QED
    BY Zenon DEF Percent
<1> QED
  BY <1>1, <1>2

(* Before the bootstrap the bar knows only the phase and what is made.     *)
LEMMA EarlyPercent ==
    ASSUME NEW r \in Records, NEW task \in Tasks, Active(r), r.status \notin InBootstrap
    PROVE  Percent(r, task) =
             IF r.status = "pending" /\ r.made = "nothing" THEN 3
             ELSE IF r.status = "verifying" /\ r.made = "realm" THEN 42
             ELSE IF r.made = "nothing" THEN 7 ELSE IF r.made = "canisters" THEN 26 ELSE 35
<1>1. r.status \in {"pending", "provisioning", "verifying"} /\ r.made \in Made
  BY DEF Active, LiveStatuses, InBootstrap, Records
<1> QED
  BY <1>1 DEF Percent, IsComplete, Made

(* From the bootstrap on it knows the steps that have completed.           *)
LEMMA BootstrapPercent ==
    ASSUME NEW r \in Records, NEW task \in Built, r.status \in InBootstrap
    PROVE  Percent(r, task) =
             IF Len(StepKinds) = 0 /\ r.status = "registering" THEN 96
             ELSE ExtensionPercent(Cardinality(Completed(task)), Len(StepKinds))
<1>1. task \in Tasks
  BY DEF Built, Tasks
<1>2. ExtensionTotal(task) = Len(StepKinds) /\ Len(StepKinds) \in Nat
  BY <1>1, TotalIsSteps, StepsCounted
<1>3. CASE Len(StepKinds) = 0
  <2>1. \A d : ExtensionPercent(d, Len(StepKinds)) = 42
    BY <1>3 DEF ExtensionPercent
  <2> QED
    BY <1>2, <1>3, <2>1 DEF Percent, IsComplete, InBootstrap
<1>4. CASE Len(StepKinds) # 0
  <2>1. task # NoTask
    BY <1>2, <1>4, StepsCounted DEF Built, NoTask
  <2>2. ExtensionDone(r, task) = Cardinality(Completed(task))
    BY <2>1 DEF ExtensionDone, Completed
  <2> QED
    BY <1>2, <1>4, <2>2 DEF Percent, IsComplete, InBootstrap
<1> QED
  BY <1>3, <1>4

LEMMA PercentAdvances ==
    ASSUME NEW r \in Records, NEW t \in Tasks, NEW q \in Records, NEW u \in Tasks,
           Active(r), Active(q), r.ended = q.ended, NoLater(r, q),
           r.status \in InBootstrap => t \in Built,
           q.status \in InBootstrap => u \in Built /\ Completed(t) \subseteq Completed(u)
    PROVE  Percent(r, t) <= Percent(q, u)
<1>1. /\ Rank(r.status) <= Rank(q.status) /\ MadeRank(r.made) <= MadeRank(q.made)
      /\ {r.status, q.status} \subseteq LiveStatuses /\ {r.made, q.made} \subseteq Made
  BY DEF NoLater, Records, Active
<1>2. CASE r.status \notin InBootstrap /\ q.status \notin InBootstrap
  BY <1>1, <1>2, EarlyPercent DEF Rank, MadeRank, LiveStatuses, InBootstrap, Made
<1>3. CASE r.status \notin InBootstrap /\ q.status \in InBootstrap
  <2>1. Percent(r, t) \in {3, 7, 26, 35, 42}
    BY <1>3, EarlyPercent
  <2>2. Percent(q, u) \in {96} \union 42 .. 92
    BY <1>3, BootstrapPercent, ExtensionSlice, CompletedCounted, StepsCounted
  <2> QED
    BY <2>1, <2>2
<1>4. CASE r.status \in InBootstrap /\ q.status \in InBootstrap
  <2>1. Cardinality(Completed(t)) <= Cardinality(Completed(u))
    BY <1>4, CompletedCounted, FS_Subset
  <2>2. /\ Cardinality(Completed(t)) \in 0 .. Len(StepKinds)
        /\ Cardinality(Completed(u)) \in Cardinality(Completed(t)) .. Len(StepKinds)
    BY <2>1, CompletedCounted, StepsCounted
  <2>3. ExtensionPercent(Cardinality(Completed(t)), Len(StepKinds))
          <= ExtensionPercent(Cardinality(Completed(u)), Len(StepKinds))
    BY <2>2, StepsCounted, ExtensionAdvances
  <2>4. CASE Len(StepKinds) = 0
    <3>1. \A d : ExtensionPercent(d, Len(StepKinds)) = 42
      BY <2>4 DEF ExtensionPercent
    <3> QED
      BY <1>1, <1>4, <2>4, <3>1, BootstrapPercent DEF Rank, InBootstrap
  <2>5. CASE Len(StepKinds) # 0
    BY <1>4, <2>3, <2>5, BootstrapPercent
  <2> QED
    BY <2>4, <2>5
<1>5. CASE r.status \in InBootstrap /\ q.status \notin InBootstrap
  BY <1>1, <1>5 DEF Rank, InBootstrap, LiveStatuses
<1> QED
  BY <1>2, <1>3, <1>4, <1>5

LEMMA StagesAdvance ==
    ASSUME NEW r \in Records, NEW q \in Records, Active(r), Active(q), r.ended = q.ended,
           NoLater(r, q), NEW i \in Stages, StageState(r, i) = "done"
    PROVE  StageState(q, i) = "done"
<1>1. Rank(r.status) <= Rank(q.status) /\ {r.status, q.status} \subseteq LiveStatuses
  BY DEF NoLater, Records, Active
<1>2. \A p \in {r, q} : ~ IsComplete(p) /\ ~ IsFailedRow(p) /\ ~ FinishedWithErrors(p)
  BY <1>1 DEF IsComplete, IsFailedRow, FinishedWithErrors, Failures, LiveStatuses
<1>3. \A p \in {r, q} : ActiveStage(p) = StageOfStatus(p.status)
  BY <1>2 DEF ActiveStage
<1>4. StageOfStatus(r.status) <= StageOfStatus(q.status)
      /\ {StageOfStatus(r.status), StageOfStatus(q.status)} \subseteq Stages
  BY <1>1 DEF StageOfStatus, Rank, LiveStatuses, Stages
<1>5. i < ActiveStage(r)
  BY <1>2 DEF StageState
<1> QED
  BY <1>3, <1>4, <1>5 DEF StageState, Stages

(* A row that counts as running is that of a job that runs.                *)
LEMMA ActiveRowOfRunningJob ==
    ASSUME NEW r \in Records, NEW task, NEW m, r.status \notin {"none", "gone"},
           IsActive(Row(r, task, m))
    PROVE  Active(r)
<1>1. Row(r, task, m).label = Label(r, m)
  BY DEF Row
<1>2. ~ IsComplete(r) /\ ~ IsFailedRow(r)
  BY <1>1 DEF IsActive, Label
<1> QED
  BY <1>2 DEF IsComplete, IsFailedRow, FinishedWithErrors, Failures, Active, Records,
     LifeStatuses, EndedStatuses

----------------------------------------------------------------------------
(* The page.                                                               *)

PageTyped ==
    /\ mount \in [Visits -> MountPhases]
    /\ onScreen \in Visits \union {0}
    /\ DOMAIN shown = Visits
    /\ polls \in [Visits \X Slots -> Poll]
    /\ memory \in Memory
    /\ stageTimes \in [Stages -> Nat]

(* What a poll carries is of the job's past.                               *)
PollInOrder(v, s) ==
    LET p == polls[<<v, s>>] IN
    p # Idle =>
        /\ p.record.status \notin {"none", "gone"}
        /\ p.record.status \in Failures => p.record.ended > 0
        /\ NoLater(p.record, Record(Tracked))
        /\ Completed(p.task) \subseteq Completed(about[Tracked].task)
        /\ p.record.status \in InBootstrap =>
             about[Tracked].task \in Built /\ (p.phase = "answered" => p.task \in Built)

(* The row made of record r and a task is of the job's past, and, if polls *)
(* do not overlap, of the past of the poll that follows it.                *)
RowFollows(v, r, task) ==
    /\ r.status \notin {"none", "gone"}
    /\ NoLater(r, Record(Tracked))
    /\ Completed(task) \subseteq Completed(about[Tracked].task)
    /\ r.status \in InBootstrap => task \in Built
    /\ Overlap = 1 => \A s \in Slots :
         polls[<<v, s>>] # Idle =>
           /\ NoLater(r, polls[<<v, s>>].record)
           /\ polls[<<v, s>>].phase = "answered" /\ polls[<<v, s>>].record.status \in InBootstrap
                => Completed(task) \subseteq Completed(polls[<<v, s>>].task)

RowInOrder(v) ==
    shown[v] # NoRow => \E r \in Records, task \in Tasks, m \in Memory :
        shown[v] = Row(r, task, m) /\ RowFollows(v, r, task)

AllInOrder ==
    /\ \A v \in Visits, s \in Slots : PollInOrder(v, s)
    /\ \A v \in Visits : RowInOrder(v)

RetriesTimed == MemoryTimed(memory, now) /\ StagesTimed(memory, stageTimes)

TrackerInv == JobsSound /\ PageTyped /\ AllInOrder /\ RetriesTimed

LEMMA NothingMoves ==
    ASSUME JobsSound, UNCHANGED installer
    PROVE  JobsSound' /\ \A j \in Jobs : MovesOn(j)
<1>1. JobsSound'
  BY DEF JobsSound, JobQueriesTypeOK, installer
<1>2. now \in Nat
  BY JobQueriesAssumption DEF JobsSound, JobQueriesTypeOK
<1>3. ASSUME NEW j \in Jobs PROVE MovesOn(j)
  <2>1. Record(j)' = Record(j) /\ Record(j) \in Records
    BY RecordTyped DEF Record, installer, JobsSound
  <2> QED
    BY <1>2, <2>1, NoLaterReflexive DEF MovesOn, installer
<1> QED
  BY <1>1, <1>3

LEMMA TimesPass ==
    ASSUME JobsSound, JobsSound', PageTyped, RetriesTimed, MovesOn(Tracked),
           UNCHANGED <<memory, stageTimes>>
    PROVE  RetriesTimed'
<1>1. now \in Nat /\ now' \in Nat /\ now <= now'
  BY JobQueriesAssumption DEF JobsSound, JobQueriesTypeOK, MovesOn
<1>2. MemoryTimed(memory, now')
  BY <1>1 DEF RetriesTimed, MemoryTimed, PageTyped, Memory
<1> QED
  BY <1>2 DEF RetriesTimed, MemoryTimed, StagesTimed

(* Polls that are not heard of and rows that are not touched stay in       *)
(* order, whatever the installer does.                                     *)
LEMMA PollStaysInOrder ==
    ASSUME TrackerInv, JobsSound', MovesOn(Tracked), NEW v \in Visits, NEW s \in Slots,
           polls'[<<v, s>>] \in {polls[<<v, s>>], Idle}
    PROVE  PollInOrder(v, s)'
<1> SUFFICES ASSUME polls'[<<v, s>>] = polls[<<v, s>>], polls[<<v, s>>] # Idle
             PROVE  PollInOrder(v, s)'
  BY DEF PollInOrder
<1> DEFINE p == polls[<<v, s>>]
<1>1. p.record \in Records
  BY DEF TrackerInv, PageTyped, Poll, Idle
<1>2. Record(Tracked) \in Records /\ Record(Tracked)' \in Records
  <2>1. \A j \in Jobs : Record(j)' \in Records
    BY DEF JobsSound, JobQueriesTypeOK, Record, Records, About
  <2> QED
    BY <2>1, RecordTyped, TrackerAssumption DEF TrackerInv, JobsSound
<1>3. PollInOrder(v, s)
  BY DEF TrackerInv, AllInOrder
<1>4. NoLater(p.record, Record(Tracked)')
  BY <1>1, <1>2, <1>3, NoLaterTransitive DEF PollInOrder, MovesOn
<1> QED
  BY <1>3, <1>4 DEF PollInOrder, MovesOn

LEMMA RowStaysInOrder ==
    ASSUME TrackerInv, JobsSound', MovesOn(Tracked), NEW v \in Visits,
           shown'[v] \in {shown[v], NoRow},
           \A s \in Slots : polls'[<<v, s>>] \in {polls[<<v, s>>], Idle}
    PROVE  RowInOrder(v)'
<1> SUFFICES ASSUME shown'[v] = shown[v], shown[v] # NoRow
             PROVE  RowInOrder(v)'
  BY DEF RowInOrder
<1>1. PICK r \in Records, task \in Tasks, m \in Memory :
         shown[v] = Row(r, task, m) /\ RowFollows(v, r, task)
  BY DEF TrackerInv, AllInOrder, RowInOrder
<1>2. Record(Tracked) \in Records /\ Record(Tracked)' \in Records
  <2>1. \A j \in Jobs : Record(j)' \in Records
    BY DEF JobsSound, JobQueriesTypeOK, Record, Records, About
  <2> QED
    BY <2>1, RecordTyped, TrackerAssumption DEF TrackerInv, JobsSound
<1>3. NoLater(r, Record(Tracked)')
  BY <1>1, <1>2, NoLaterTransitive DEF RowFollows, MovesOn
<1>4. RowFollows(v, r, task)'
  BY <1>1, <1>3 DEF RowFollows, MovesOn
<1> QED
  BY <1>1, <1>4 DEF RowInOrder

LEMMA AllStayInOrder ==
    ASSUME TrackerInv, JobsSound', MovesOn(Tracked),
           \A v \in Visits : shown'[v] \in {shown[v], NoRow},
           \A v \in Visits, s \in Slots : polls'[<<v, s>>] \in {polls[<<v, s>>], Idle}
    PROVE  AllInOrder'
BY PollStaysInOrder, RowStaysInOrder DEF AllInOrder

(* The installer is asked for the record.                                  *)
LEMMA RecordReadInv ==
    ASSUME TrackerInv, NEW v \in Visits, NEW s \in Slots, ReadsRecord(v, s)
    PROVE  TrackerInv'
<1> DEFINE r == Record(Tracked)
           p == [phase |-> IF FetchesTask(r) THEN "read" ELSE "answered",
                 record |-> r, task |-> NoTask]
<1>1. JobsSound' /\ MovesOn(Tracked)
  BY NothingMoves, TrackerAssumption DEF TrackerInv, ReadsRecord
<1>2. /\ r \in Records /\ Record(Tracked)' = r /\ r.status = life[Tracked]
      /\ r.ended = about[Tracked].ended /\ r.task = about[Tracked].task
  BY RecordTyped, TrackerAssumption DEF TrackerInv, JobsSound, ReadsRecord, installer, Record
<1>3. SoundAbout(r.status, about[Tracked], now) /\ r.status \notin {"none", "gone"}
  BY <1>2, TrackerAssumption DEF TrackerInv, JobsSound, ReadsRecord
<1> HIDE DEF r
<1>4. /\ p \in Poll /\ p.record = r /\ p.task = NoTask
      /\ p.phase = "answered" => r.status \notin InBootstrap
  BY <1>2 DEF Poll, Tasks, FetchesTask, InBootstrap
<1> HIDE DEF p
<1>5. polls \in [Visits \X Slots -> Poll] /\ polls' = [polls EXCEPT ![<<v, s>>] = p]
  BY DEF TrackerInv, PageTyped, ReadsRecord, p, r
<1>6. /\ polls'[<<v, s>>] = p
      /\ \A u \in Visits, k \in Slots : <<u, k>> # <<v, s>> => polls'[<<u, k>>] = polls[<<u, k>>]
  BY <1>5
<1>7. PageTyped'
  BY <1>4, <1>5 DEF TrackerInv, PageTyped, ReadsRecord
<1>8. ASSUME NEW u \in Visits, NEW k \in Slots
      PROVE  PollInOrder(u, k)'
  <2>1. CASE <<u, k>> = <<v, s>>
    <3>1. NoLater(r, r)
      BY <1>2, NoLaterReflexive
    <3>2. Completed(p.task) = {}
      BY <1>4, EmptyTask DEF Completed
    <3>3. UNCHANGED about
      BY DEF ReadsRecord, installer
    <3> QED
      BY <1>2, <1>3, <1>4, <1>6, <2>1, <3>1, <3>2, <3>3 DEF PollInOrder, SoundAbout
  <2>2. CASE <<u, k>> # <<v, s>>
    BY <1>1, <1>6, <2>2, PollStaysInOrder
  <2> QED
    BY <2>1, <2>2
<1>9. ASSUME NEW u \in Visits
      PROVE  RowInOrder(u)'
  <2> SUFFICES ASSUME shown[u] # NoRow
               PROVE  RowInOrder(u)'
    BY DEF RowInOrder, ReadsRecord
  <2>1. PICK q \in Records, task \in Tasks, m \in Memory :
           shown[u] = Row(q, task, m) /\ RowFollows(u, q, task)
    BY DEF TrackerInv, AllInOrder, RowInOrder
  <2>2. UNCHANGED <<shown, about>>
    BY DEF ReadsRecord, installer
  <2>3. RowFollows(u, q, task)'
    <3>1. ASSUME Overlap = 1, NEW k \in Slots, polls'[<<u, k>>] # Idle
          PROVE  /\ NoLater(q, polls'[<<u, k>>].record)
                 /\ polls'[<<u, k>>].phase = "answered"
                      /\ polls'[<<u, k>>].record.status \in InBootstrap
                    => Completed(task) \subseteq Completed(polls'[<<u, k>>].task)
      <4>1. CASE <<u, k>> = <<v, s>>
        BY <1>4, <1>6, <2>1, <4>1 DEF RowFollows, r
      <4>2. CASE <<u, k>> # <<v, s>>
        BY <1>6, <2>1, <3>1, <4>2 DEF RowFollows
      <4> QED
        BY <4>1, <4>2
    <3> QED
      BY <1>2, <2>1, <2>2, <3>1 DEF RowFollows, r
  <2> QED
    BY <2>1, <2>2, <2>3 DEF RowInOrder
<1>10. RetriesTimed'
  BY <1>1, TimesPass DEF TrackerInv, ReadsRecord
<1> QED
  BY <1>1, <1>7, <1>8, <1>9, <1>10 DEF TrackerInv, AllInOrder

(* And then, perhaps, for the task.                                        *)
LEMMA TaskReadInv ==
    ASSUME TrackerInv, NEW v \in Visits, NEW s \in Slots, ReadsTask(v, s)
    PROVE  TrackerInv'
<1> DEFINE old == polls[<<v, s>>]
           p == [old EXCEPT !.phase = "answered", !.task = about[Tracked].task]
<1>1. JobsSound' /\ MovesOn(Tracked)
  BY NothingMoves, TrackerAssumption DEF TrackerInv, ReadsTask
<1>2. /\ Record(Tracked)' = Record(Tracked) /\ UNCHANGED <<about, shown>>
      /\ about[Tracked].task \in Tasks
  BY TrackerAssumption
  DEF TrackerInv, JobsSound, JobQueriesTypeOK, About, ReadsTask, installer, Record
<1>3. old \in Poll /\ old # Idle /\ PollInOrder(v, s)
  BY DEF TrackerInv, PageTyped, AllInOrder, ReadsTask, Idle
<1>4. p \in Poll /\ p.record = old.record /\ p.task = about[Tracked].task
  BY <1>2, <1>3 DEF Poll, Idle
<1>5. polls \in [Visits \X Slots -> Poll] /\ polls' = [polls EXCEPT ![<<v, s>>] = p]
  BY DEF TrackerInv, PageTyped, ReadsTask
<1>6. /\ polls'[<<v, s>>] = p
      /\ \A u \in Visits, k \in Slots : <<u, k>> # <<v, s>> => polls'[<<u, k>>] = polls[<<u, k>>]
  BY <1>5
<1> HIDE DEF p
<1>7. PageTyped'
  BY <1>4, <1>5 DEF TrackerInv, PageTyped, ReadsTask
<1>8. ASSUME NEW u \in Visits, NEW k \in Slots
      PROVE  PollInOrder(u, k)'
  <2>1. CASE <<u, k>> = <<v, s>>
    BY <1>2, <1>3, <1>4, <1>6, <2>1 DEF PollInOrder
  <2>2. CASE <<u, k>> # <<v, s>>
    BY <1>1, <1>6, <2>2, PollStaysInOrder
  <2> QED
    BY <2>1, <2>2
<1>9. ASSUME NEW u \in Visits
      PROVE  RowInOrder(u)'
  <2> SUFFICES ASSUME shown[u] # NoRow
               PROVE  RowInOrder(u)'
    BY <1>2 DEF RowInOrder
  <2>1. PICK q \in Records, task \in Tasks, m \in Memory :
           shown[u] = Row(q, task, m) /\ RowFollows(u, q, task)
    BY DEF TrackerInv, AllInOrder, RowInOrder
  <2>3. RowFollows(u, q, task)'
    <3>1. ASSUME Overlap = 1, NEW k \in Slots, polls'[<<u, k>>] # Idle
          PROVE  /\ NoLater(q, polls'[<<u, k>>].record)
                 /\ polls'[<<u, k>>].phase = "answered"
                      /\ polls'[<<u, k>>].record.status \in InBootstrap
                    => Completed(task) \subseteq Completed(polls'[<<u, k>>].task)
      <4>1. CASE <<u, k>> = <<v, s>>
        BY <1>3, <1>4, <1>6, <2>1, <3>1, <4>1 DEF RowFollows
      <4>2. CASE <<u, k>> # <<v, s>>
        BY <1>6, <2>1, <3>1, <4>2 DEF RowFollows
      <4> QED
        BY <4>1, <4>2
    <3> QED
      BY <1>2, <2>1, <3>1 DEF RowFollows
  <2> QED
    BY <1>2, <2>1, <2>3 DEF RowInOrder
<1>10. RetriesTimed'
  BY <1>1, TimesPass DEF TrackerInv, ReadsTask
<1> QED
  BY <1>1, <1>7, <1>8, <1>9, <1>10 DEF TrackerInv, AllInOrder

(* A load or a poll is answered: the row is that of the past it carries.   *)
LEMMA ShowsInv ==
    ASSUME TrackerInv, NEW v \in Visits, NEW s \in Slots, Shows(v, s),
           mount' \in [Visits -> MountPhases]
    PROVE  TrackerInv'
<1> DEFINE p == polls[<<v, s>>]
           m == Remembered(memory, p.record, now)
<1>1. JobsSound' /\ MovesOn(Tracked) /\ now \in Nat
  BY NothingMoves, TrackerAssumption, JobQueriesAssumption
  DEF TrackerInv, Shows, JobsSound, JobQueriesTypeOK
<1>2. /\ p \in Poll /\ p # Idle /\ PollInOrder(v, s) /\ p.phase = "answered"
      /\ p.record \in Records /\ p.task \in Tasks
  BY DEF TrackerInv, PageTyped, AllInOrder, Shows, Poll, Idle
<1>3. Record(Tracked)' = Record(Tracked) /\ UNCHANGED <<about, now, onScreen>>
  BY DEF Shows, installer, Record
<1>4. polls \in [Visits \X Slots -> Poll] /\ polls' = [polls EXCEPT ![<<v, s>>] = Idle]
  BY DEF TrackerInv, PageTyped, Shows
<1>5. \A u \in Visits, k \in Slots : polls'[<<u, k>>] \in {polls[<<u, k>>], Idle}
  BY <1>4
<1>6. m \in Memory /\ memory' = m /\ stageTimes' = Observed(p.record, stageTimes)
  BY <1>1, <1>2, RememberedTyped DEF TrackerInv, PageTyped, Shows
<1>7. /\ DOMAIN shown' = Visits /\ shown'[v] \in {Row(p.record, p.task, m), NoRow}
      /\ \A u \in Visits : u # v => shown'[u] = shown[u]
  BY DEF TrackerInv, PageTyped, Shows
<1>8. PageTyped'
  BY <1>1, <1>2, <1>3, <1>4, <1>6, <1>7, ObservedTyped DEF TrackerInv, PageTyped, Poll, Idle
<1>9. \A u \in Visits, k \in Slots : PollInOrder(u, k)'
  BY <1>1, <1>5, PollStaysInOrder
<1>10. RowInOrder(v)'
  <2> SUFFICES ASSUME shown'[v] = Row(p.record, p.task, m)
               PROVE  RowInOrder(v)'
    BY <1>7 DEF RowInOrder
  <2>1. PICK r \in Records, task \in Tasks, n \in Memory : r = p.record /\ task = p.task /\ n = m
    BY <1>2, <1>6
  <2>2. Overlap = 1 => \A k \in Slots : polls'[<<v, k>>] = Idle
    BY <1>4 DEF Slots
  <2>3. RowFollows(v, r, task)'
    BY <1>2, <1>3, <2>1, <2>2 DEF RowFollows, PollInOrder
  <2>4. shown'[v] = Row(r, task, n)
    BY <2>1
  <2> QED
    BY <2>3, <2>4 DEF RowInOrder
<1>11. \A u \in Visits : u # v => RowInOrder(u)'
  BY <1>1, <1>5, <1>7, RowStaysInOrder
<1>12. RetriesTimed'
  <2>1. Record(Tracked).ended = about[Tracked].ended /\ about[Tracked].ended \in Nat
        /\ about[Tracked].ended <= now
    BY TrackerAssumption
    DEF TrackerInv, JobsSound, SoundAbout, Record, JobQueriesTypeOK, About
  <2>2. p.record.ended <= now /\ (p.record.status \in Failures => p.record.ended > 0)
    BY <1>1, <1>2, <2>1 DEF PollInOrder, NoLater, Records
  <2>3. MemoryTimed(m, now)
    BY <1>1, <1>2, <2>2, MemoryStaysTimed DEF TrackerInv, RetriesTimed, PageTyped
  <2>4. StagesTimed(m, Observed(p.record, stageTimes))
    BY <1>1, <1>2, StagesStayTimed DEF TrackerInv, RetriesTimed, PageTyped
  <2> QED
    BY <1>3, <1>6, <2>3, <2>4 DEF RetriesTimed
<1> QED
  BY <1>1, <1>8, <1>9, <1>10, <1>11, <1>12 DEF TrackerInv, AllInOrder

(* The visits.                                                             *)
LEMMA VisitInv ==
    ASSUME TrackerInv, NEW v \in Visits,
           \/ OpensPage(v) \/ FindsNoJob(v) \/ StartsPolling(v) \/ LeavesPage(v)
           \/ \E s \in Slots : LosesQuery(v, s)
    PROVE  TrackerInv'
<1>1. JobsSound' /\ MovesOn(Tracked)
  BY NothingMoves, TrackerAssumption
  DEF TrackerInv, OpensPage, FindsNoJob, StartsPolling, LeavesPage, LosesQuery
<1>2. UNCHANGED <<memory, stageTimes>>
  BY DEF OpensPage, FindsNoJob, StartsPolling, LeavesPage, LosesQuery
<1>3. /\ polls' \in [Visits \X Slots -> Poll]
      /\ \A u \in Visits, k \in Slots : polls'[<<u, k>>] \in {polls[<<u, k>>], Idle}
  <2>0. polls \in [Visits \X Slots -> Poll] /\ Idle \in Poll
    BY DEF TrackerInv, PageTyped, Poll, Idle
  <2>1. polls' = polls \/ \E s \in Slots : polls' = [polls EXCEPT ![<<v, s>>] = Idle]
    BY DEF OpensPage, FindsNoJob, StartsPolling, LeavesPage, LosesQuery
  <2> QED
    BY <2>0, <2>1
<1>4. DOMAIN shown' = Visits /\ \A u \in Visits : shown'[u] \in {shown[u], NoRow}
  BY DEF TrackerInv, PageTyped, OpensPage, FindsNoJob, StartsPolling, LeavesPage, Unmounts,
     LosesQuery
<1>5. mount' \in [Visits -> MountPhases] /\ onScreen' \in Visits \union {0}
  BY DEF TrackerInv, PageTyped, MountPhases, OpensPage, FindsNoJob, StartsPolling, LeavesPage,
     Unmounts, LosesQuery
<1>6. PageTyped'
  BY <1>2, <1>3, <1>4, <1>5 DEF TrackerInv, PageTyped
<1> QED
  BY <1>1, <1>2, <1>3, <1>4, <1>6, AllStayInOrder, TimesPass DEF TrackerInv

(* The installer works on a job, or removes it for its owner.              *)
LEMMA InstallerInv ==
    ASSUME TrackerInv,
           (\E j \in Jobs : InstallerWorksOn(j)) \/ (\E v \in Visits : RemovesJob(v))
    PROVE  TrackerInv'
<1>1. JobsSound' /\ MovesOn(Tracked)
  BY JobMovesOn, TrackerAssumption DEF TrackerInv, InstallerWorksOn, RemovesJob
<1>2. UNCHANGED <<polls, memory, stageTimes>>
  BY DEF InstallerWorksOn, RemovesJob, page
<1>3. DOMAIN shown' = Visits /\ \A u \in Visits : shown'[u] \in {shown[u], NoRow}
  BY DEF TrackerInv, PageTyped, InstallerWorksOn, RemovesJob, Unmounts, page
<1>4. mount' \in [Visits -> MountPhases] /\ onScreen' \in Visits \union {0}
  BY DEF TrackerInv, PageTyped, MountPhases, InstallerWorksOn, RemovesJob, Unmounts, page
<1>5. PageTyped'
  BY <1>2, <1>3, <1>4 DEF TrackerInv, PageTyped
<1> QED
  BY <1>1, <1>2, <1>3, <1>5, AllStayInOrder, TimesPass DEF TrackerInv

LEMMA TrackerInvInit == TrackerInit => TrackerInv
<1> SUFFICES ASSUME TrackerInit PROVE TrackerInv
  OBVIOUS
<1>1. NoRecord \in About
  BY DEF NoRecord, About, Errors, Made, Tasks
<1>2. JobsSound
  BY <1>1, JobQueriesAssumption
  DEF TrackerInit, JobQueriesInit, LifeInit, JobsSound, JobQueriesTypeOK, LifeStatuses,
      SoundAbout, NoRecord, Failures, InBootstrap
<1>3. PageTyped
  BY DEF TrackerInit, PageTyped, MountPhases, Poll, Idle, Memory, NoMemory, Errors
<1>4. AllInOrder
  BY DEF TrackerInit, AllInOrder, PollInOrder, RowInOrder
<1>5. RetriesTimed
  BY JobQueriesAssumption
  DEF TrackerInit, JobQueriesInit, RetriesTimed, MemoryTimed, StagesTimed, NoMemory
<1> QED
  BY <1>2, <1>3, <1>4, <1>5 DEF TrackerInv

LEMMA TrackerInvNext == TrackerInv /\ [TrackerNext]_trackerVars => TrackerInv'
<1> SUFFICES ASSUME TrackerInv, [TrackerNext]_trackerVars PROVE TrackerInv'
  OBVIOUS
<1>1. CASE UNCHANGED trackerVars
  <2>1. JobsSound' /\ MovesOn(Tracked)
    BY <1>1, NothingMoves, TrackerAssumption DEF TrackerInv, trackerVars
  <2>2. UNCHANGED <<mount, onScreen, shown, polls, memory, stageTimes>>
    BY <1>1 DEF trackerVars, page
  <2>3. PageTyped'
    BY <2>2 DEF TrackerInv, PageTyped
  <2> QED
    BY <2>1, <2>2, <2>3, AllStayInOrder, TimesPass DEF TrackerInv
<1>2. ASSUME NEW v \in Visits, NEW s \in Slots, Loads(v) \/ Ticks(v, s)
      PROVE  TrackerInv'
  <2>1. 1 \in Slots
    BY TrackerAssumption DEF Slots
  <2> QED
    BY <1>2, <2>1, RecordReadInv DEF Loads, Ticks
<1>3. ASSUME NEW v \in Visits, NEW s \in Slots, LoadShows(v) \/ TickShows(v, s)
      PROVE  TrackerInv'
  <2>1. 1 \in Slots
    BY TrackerAssumption DEF Slots
  <2>2. mount' \in [Visits -> MountPhases]
    BY <1>3 DEF TrackerInv, PageTyped, MountPhases, LoadShows, TickShows
  <2> QED
    BY <1>3, <2>1, <2>2, ShowsInv DEF LoadShows, TickShows
<1>4. 1 \in Slots
  BY TrackerAssumption DEF Slots
<1> QED
  BY <1>1, <1>2, <1>3, <1>4, TaskReadInv, VisitInv, InstallerInv DEF TrackerNext

----------------------------------------------------------------------------
(* Theorems.                                                               *)

(* The invariant holds for any number of jobs, visits, polls in flight and *)
(* attempts.                                                               *)
THEOREM TrackerInvariant == TrackerSpec => []TrackerInv
BY TrackerInvInit, TrackerInvNext, PTL DEF TrackerSpec

(* The page's state is well typed: above all, the progress bar stays from  *)
(* 0 to 100, for any number of steps, done, failed or not fetched.         *)
THEOREM TrackerTyping == TrackerSpec => []TrackerTypeOK
<1>1. TrackerInv => TrackerTypeOK
  <2> SUFFICES ASSUME TrackerInv PROVE TrackerTypeOK
    OBVIOUS
  <2>1. ASSUME NEW v \in Visits, shown[v] # NoRow
        PROVE  shown[v].percent \in 0 .. 100
    <3>1. PICK r \in Records, task \in Tasks, m \in Memory : shown[v] = Row(r, task, m)
      BY <2>1 DEF TrackerInv, AllInOrder, RowInOrder
    <3> QED
      BY <3>1, PercentTyped DEF Row
  <2> QED
    BY <2>1 DEF TrackerInv, PageTyped, JobsSound, TrackerTypeOK
<1> QED
  BY <1>1, TrackerInvariant, PTL

(* The clock of a retry starts after the failure it follows, and no stage  *)
(* is timed from before it, for any number of visits and of polls that are *)
(* answered in any order.                                                  *)
THEOREM RetriesAreTimedFromFailures == TrackerSpec => []RetryClockFollowsFailure
<1>1. TrackerInv => RetryClockFollowsFailure
  BY DEF TrackerInv, RetriesTimed, MemoryTimed, StagesTimed, RetryClockFollowsFailure
<1> QED
  BY <1>1, TrackerInvariant, PTL

(* A row changes to nothing, or to what a poll brings.                     *)
LEMMA RowsComeFromPolls ==
    ASSUME TrackerInv, [TrackerNext]_trackerVars, NEW v \in Visits
    PROVE  shown'[v] \in {shown[v], NoRow} \/ \E s \in Slots : Shows(v, s)
<1>1. 1 \in Slots
  BY TrackerAssumption DEF Slots
<1>2. ASSUME NEW u \in Visits, NEW s \in Slots, Shows(u, s), u # v
      PROVE  shown'[v] = shown[v]
  BY <1>2 DEF Shows, TrackerInv, PageTyped
<1>3. ASSUME NEW u \in Visits,
             OpensPage(u) \/ Loads(u) \/ FindsNoJob(u) \/ StartsPolling(u) \/ LeavesPage(u)
             \/ RemovesJob(u)
      PROVE  shown'[v] \in {shown[v], NoRow}
  BY <1>3
  DEF TrackerInv, PageTyped, OpensPage, Loads, FindsNoJob, StartsPolling, LeavesPage, RemovesJob,
      Unmounts, ReadsRecord
<1>4. ASSUME NEW u \in Visits, NEW s \in Slots,
             ReadsTask(u, s) \/ LosesQuery(u, s) \/ Ticks(u, s)
      PROVE  shown' = shown
  BY <1>4 DEF ReadsTask, LosesQuery, Ticks, ReadsRecord
<1>5. ASSUME NEW u \in Visits, NEW s \in Slots, LoadShows(u) \/ TickShows(u, s)
      PROVE  Shows(u, 1) \/ Shows(u, s)
  BY <1>5 DEF LoadShows, TickShows
<1>6. CASE UNCHANGED trackerVars \/ \E j \in Jobs : InstallerWorksOn(j)
  BY <1>6 DEF InstallerWorksOn, trackerVars, page
<1> QED
  BY <1>1, <1>2, <1>3, <1>4, <1>5, <1>6 DEF TrackerNext

(* As long as no poll overtakes another, the bar never goes back within an *)
(* attempt and no stage that was done is taken back, for any number of     *)
(* steps, of visits and of turns that the deployment takes.                *)
THEOREM BarMovesForward == ASSUME Overlap = 1 PROVE TrackerSpec => ProgressMovesForward
<1> DEFINE Forward(v) ==
        /\ shown[v] # NoRow /\ shown'[v] # NoRow
        /\ IsActive(shown[v]) /\ IsActive(shown'[v])
        /\ shown[v].ended = shown'[v].ended
        => /\ shown'[v].percent >= shown[v].percent
           /\ \A i \in Stages : shown[v].stages[i] = "done" => shown'[v].stages[i] = "done"
<1>1. ASSUME TrackerInv, [TrackerNext]_trackerVars, NEW v \in Visits
      PROVE  Forward(v)
  <2> SUFFICES ASSUME shown[v] # NoRow, shown'[v] # NoRow,
                      IsActive(shown[v]), IsActive(shown'[v]),
                      shown[v].ended = shown'[v].ended
               PROVE  /\ shown'[v].percent >= shown[v].percent
                      /\ \A i \in Stages :
                           shown[v].stages[i] = "done" => shown'[v].stages[i] = "done"
    OBVIOUS
  <2>1. PICK r \in Records, task \in Tasks, m \in Memory :
           shown[v] = Row(r, task, m) /\ RowFollows(v, r, task)
    BY <1>1 DEF TrackerInv, AllInOrder, RowInOrder
  <2>2. /\ shown[v].percent = Percent(r, task) /\ shown[v].ended = r.ended
        /\ \A i \in Stages : shown[v].stages[i] = StageState(r, i)
    BY <2>1 DEF Row
  <2>3. CASE shown'[v] = shown[v]
    BY <2>1, <2>2, <2>3, PercentTyped
  <2>4. CASE \E s \in Slots : Shows(v, s) /\ shown'[v] # shown[v]
    <3>1. PICK s \in Slots : Shows(v, s)
      BY <2>4
    <3> DEFINE p == polls[<<v, s>>]
    <3>2. /\ p # Idle /\ p.phase = "answered" /\ PollInOrder(v, s)
          /\ p.record \in Records /\ p.task \in Tasks
      BY <1>1, <3>1 DEF TrackerInv, PageTyped, AllInOrder, Shows, Poll, Idle
    <3>3. PICK q \in Records, u \in Tasks : q = p.record /\ u = p.task
      BY <3>2
    <3>4. PICK n : shown'[v] = Row(q, u, n)
      BY <1>1, <3>1, <3>3 DEF Shows, TrackerInv, PageTyped
    <3>5. /\ shown'[v].percent = Percent(q, u) /\ shown'[v].ended = q.ended
          /\ \A i \in Stages : shown'[v].stages[i] = StageState(q, i)
      BY <3>4 DEF Row
    <3>6. Active(r) /\ Active(q)
      BY <2>1, <3>2, <3>3, <3>4, ActiveRowOfRunningJob DEF RowFollows, PollInOrder
    <3>7. /\ NoLater(r, q)
          /\ r.status \in InBootstrap => task \in Built
          /\ q.status \in InBootstrap => u \in Built /\ Completed(task) \subseteq Completed(u)
      BY <2>1, <3>2, <3>3 DEF RowFollows, PollInOrder
    <3>8. Percent(r, task) <= Percent(q, u)
      BY <2>2, <3>5, <3>6, <3>7, PercentAdvances
    <3>9. \A i \in Stages : StageState(r, i) = "done" => StageState(q, i) = "done"
      BY <2>2, <3>5, <3>6, <3>7, StagesAdvance
    <3>10. Percent(r, task) \in Int /\ Percent(q, u) \in Int
      BY PercentTyped
    <3> QED
      BY <2>2, <3>5, <3>8, <3>9, <3>10
  <2> QED
    BY <1>1, <2>3, <2>4, RowsComeFromPolls
<1>2. TrackerInv /\ [TrackerNext]_trackerVars => \A v \in Visits : Forward(v)
  BY <1>1
<1> QED
  BY <1>2, TrackerInvariant, PTL DEF TrackerSpec, ProgressMovesForward

=============================================================================
