------------------------ MODULE UpdatePipelineProofs ------------------------
(* What holds of UpdatePipeline for all values of its constants.             *)
EXTENDS UpdatePipeline, TLAPS

-----------------------------------------------------------------------------
(* The invariants *)

\* Only these steps work on a run that is shown as in progress.
Working == {"fetch", "land", "collect", "look", "flip", "record", "flipped"}

Records == [outcome: {"none", "started", "ok", "failed"}, target: MaybeVersion]
Reports == [outcome: {"none", "ok", "failed"}, target: MaybeVersion]
Servers == [version: MaybeVersion, stopping: BOOLEAN, report: Reports]
Runs == [phase: {"none", "failed", "restart"} \cup Unfinished, target: MaybeVersion]
Installs == [step: Steps, target: MaybeVersion, old: MaybeVersion]
Relaunches == [1 .. MaxRuns -> {"none", "stop", "wait", "launch"}]
Uses == [runs: 0 .. MaxRuns, crashes: 0 .. MaxCrashes]
Mishaps == {"started astray", "not put back", "cut off after flip"}
Types ==
  /\ versions \subseteq Versions /\ pointer \in MaybeVersion
  /\ journal \in Records /\ server \in Servers
  /\ run \in Runs /\ install \in Installs
  /\ relaunch \in Relaunches /\ ran \subseteq Versions /\ used \in Uses
  /\ mishaps \subseteq Mishaps

\* A run in progress is worked on, and only a server that runs has a fiber,
\* whose target is newer than the server.
RunHasFiber ==
  /\ run.phase \in Unfinished => install.step \in Working
  /\ ~Up => server = NoServer /\ run = NoRun /\ install = Idle
  /\ install.step \notin {"idle", "resolve"}
       => install.target \in Versions /\ install.target > server.version

\* Nothing that has run is newer than `v`.
Reaches(v) == \A w \in ran : w <= v

\* What runs is on disk and is the newest that has run; what may be booted
\* next, or put back as the pointer, is at least as new.
Forward ==
  /\ Up => server.version \in versions \cap ran /\ Reaches(server.version)
  /\ pointer # None => Reaches(pointer)
  /\ pointer = None => \E v \in versions : Reaches(v)
  /\ install.old # None => Reaches(install.old)

\* What the journal and the server's report call installed has run.
Honest ==
  /\ journal.outcome = "ok" => journal.target \in ran
  /\ ReportIsTrue

\* From the flip to the revert the pointer names the target of the run.
Flipped == {"record", "flipped", "spawn", "revert"}
BeforeFlip == {"fetch", "land", "collect", "look", "drop", "flip"}

\* There is a tree, and a run that may flip has landed its own.
Landed ==
  /\ versions # {}
  /\ install.step \in {"collect", "look", "flip"} => install.target \in versions

\* While no run started astray the pointer's tree is there; a run finds the
\* pointer at the version that runs, and so does what it may put back.
Straight ==
  "started astray" \notin mishaps =>
    /\ pointer # None => pointer \in versions
    /\ install.step \in BeforeFlip => pointer \in {server.version, None}
    /\ install.step \in BeforeFlip \cup Flipped
         => install.old \in {server.version, None}

\* A run that has failed works no more, but for the collection of a superseded
\* payload; without a mishap it has left the pointer as it was.
FailedStopped ==
  /\ run.phase = "failed" => install.step \in {"idle", "resolve", "drop"}
  /\ mishaps = {} /\ (run.phase = "failed" \/ install.step = "record failure")
       => pointer \in {server.version, None}

-----------------------------------------------------------------------------
(* Types *)

LEMMA Memory ==
  /\ NoRun \in Runs /\ Idle \in Installs /\ NoServer \in Servers
  /\ NoRecord \in Records
BY DEF NoRun, Idle, NoServer, NoRecord, Runs, Installs, Servers, Reports, Records,
       MaybeVersion, Steps

LEMMA GotoType ==
  ASSUME install \in Installs, NEW step \in Steps, Goto(step)
  PROVE  install' \in Installs /\ install'.step = step
         /\ install'.target = install.target /\ install'.old = install.old
BY DEF Goto, Installs

LEMMA PhaseType ==
  ASSUME run \in Runs, NEW phase \in {"none", "failed", "restart"} \cup Unfinished,
         run' = [run EXCEPT !.phase = phase]
  PROVE  run' \in Runs /\ run'.phase = phase
BY DEF Runs

LEMMA ReconciledType ==
  ASSUME NEW record \in Records, NEW v \in Versions
  PROVE  Reconciled(record, v) \in Reports
BY DEF Reconciled, Record, MaybeVersion, Records, Reports

LEMMA RecordType ==
  ASSUME NEW outcome \in {"none", "started", "ok", "failed"}, NEW v \in MaybeVersion,
         journal \in Records, JournalBecomes(Record(outcome, v))
  PROVE  journal' \in Records
BY DEF Record, Records, JournalBecomes

LEMMA BootTypes ==
  ASSUME Types, Boot
  PROVE  /\ versions' \subseteq Versions /\ ran' \subseteq Versions
         /\ journal' \in Records /\ server' \in Servers
<1>1. PICK v \in BootTargets \cap versions :
        /\ server' = [version |-> v, report |-> Reconciled(journal, v), stopping |-> FALSE]
        /\ ran' = ran \cup {v}
        /\ JournalBecomes(Reconciled(journal, v))
        /\ versions' \in IF Reconciled(journal, v).outcome = "ok"
                         THEN Collected({v}) ELSE {versions}
  BY DEF Boot
<1>2. v \in Versions /\ v \in MaybeVersion
  BY DEF Types, MaybeVersion
<1>3. Reconciled(journal, v) \in Reports
  BY <1>2, ReconciledType DEF Types
<1>4. versions' \subseteq Versions
  BY <1>1 DEF Types, Collected
<1>5. journal' \in Records
  BY <1>1, <1>3 DEF Types, JournalBecomes, Records, Reports
<1>6. server' \in Servers
  BY <1>1, <1>2, <1>3 DEF Servers
<1> QED
  BY <1>1, <1>2, <1>4, <1>5, <1>6 DEF Types

\* The steps that change nothing but the fiber and the run.
FiberStep ==
  \/ Press \/ Retry \/ CheckSettles \/ Refuse \/ FetchFails \/ LandFails
  \/ Supersede \/ GoOn \/ FlipFails \/ Restart \/ SpawnFails \/ Deadline

LEMMA FiberStepTypes ==
  ASSUME Types, FiberStep
  PROVE  Types'
<1>1. run' \in Runs /\ install' \in Installs
  <2> USE DEF Types, Fails, EndsWith, Phase
  <2>1. CASE Press
    BY <2>1, Memory, GotoType, PhaseType DEF Press, Steps, Unfinished
  <2>2. CASE Retry
    BY <2>2, Memory, GotoType, PhaseType DEF Retry, Steps, Unfinished
  <2>3. CASE CheckSettles
    BY <2>3, Memory, GotoType, PhaseType DEF CheckSettles, Steps, Unfinished
  <2>4. CASE Refuse
    BY <2>4, Memory, GotoType, PhaseType DEF Refuse, Steps, Unfinished
  <2>5. CASE FetchFails
    BY <2>5, Memory, GotoType, PhaseType DEF FetchFails, Steps, Unfinished
  <2>6. CASE LandFails
    BY <2>6, Memory, GotoType, PhaseType DEF LandFails, Steps, Unfinished
  <2>7. CASE Supersede
    BY <2>7, Memory, GotoType, PhaseType DEF Supersede, Steps, Unfinished
  <2>8. CASE GoOn
    BY <2>8, Memory, GotoType, PhaseType DEF GoOn, Steps, Unfinished
  <2>9. CASE FlipFails
    BY <2>9, Memory, GotoType, PhaseType DEF FlipFails, Steps, Unfinished
  <2>10. CASE Restart
    BY <2>10, Memory, GotoType, PhaseType DEF Restart, Steps, Unfinished
  <2>11. CASE SpawnFails
    BY <2>11, Memory, GotoType, PhaseType DEF SpawnFails, Steps, Unfinished
  <2>12. CASE Deadline
    BY <2>12, Memory, GotoType, PhaseType DEF Deadline, Steps, Unfinished
  <2> QED
    BY <2>1, <2>2, <2>3, <2>4, <2>5, <2>6, <2>7, <2>8, <2>9, <2>10, <2>11, <2>12 DEF FiberStep
<1>2. /\ UNCHANGED <<disk, server, relaunch, ran, used>>
      /\ mishaps' \in {mishaps, mishaps \cup {"cut off after flip"}}
  BY DEF FiberStep, Happens, SameServer, Press, Retry, CheckSettles, Refuse, FetchFails, LandFails, Supersede, GoOn, FlipFails, Restart, SpawnFails, Deadline
<1> QED
  BY <1>1, <1>2 DEF Types, Mishaps, disk

LEMMA DownType ==
  ASSUME Types, Down
  PROVE  versions' \subseteq Versions /\ pointer' \in MaybeVersion
         /\ journal' \in Records /\ server' \in Servers /\ run' \in Runs
         /\ install' \in Installs /\ ran' \subseteq Versions
         /\ mishaps' \subseteq Mishaps
BY Memory DEF Down, Types, disk

\* The other steps of a run, but for its start.
DiskStep ==
  \/ Clear \/ Land \/ Collect \/ Drop \/ Flip \/ RecordStart \/ Spawn \/ Revert
  \/ RecordFailure

LEMMA StartIs ==
  ASSUME Start
  PROVE  \E v \in Versions :
           /\ v > server.version
           /\ run' = [phase |-> "download", target |-> v]
           /\ install' = [step |-> "fetch", target |-> v, old |-> pointer]
BY DEF Start

LEMMA StartFrame ==
  ASSUME Start
  PROVE  /\ UNCHANGED <<versions, pointer, journal, server, relaunch, ran>>
         /\ mishaps \subseteq mishaps' /\ install.step = "resolve"
         /\ mishaps' \subseteq mishaps \cup {"started astray"}
BY DEF Start, Happens, disk, At

LEMMA StartBegins ==
  ASSUME Start
  PROVE  /\ run'.phase = "download" /\ install'.step = "fetch"
         /\ install'.old = pointer
<1>1. PICK v \in Versions :
        /\ run' = [phase |-> "download", target |-> v]
        /\ install' = [step |-> "fetch", target |-> v, old |-> pointer]
  BY StartIs
<1> QED
  BY <1>1

LEMMA StartStraight ==
  ASSUME Start
  PROVE  "started astray" \notin mishaps' => pointer \in {server.version, None}
BY DEF Start, Happens, Astray

LEMMA StartTypes ==
  ASSUME UpdateAssumption, Types, Start
  PROVE  Types'
<1>1. PICK v \in Versions :
        /\ run' = [phase |-> "download", target |-> v]
        /\ install' = [step |-> "fetch", target |-> v, old |-> pointer]
  BY DEF Start
<1>2. run' \in Runs /\ install' \in Installs
  BY <1>1 DEF Types, Runs, Installs, MaybeVersion, Steps, Unfinished
<1>3. used' \in Uses
  <2>1. /\ used' = [used EXCEPT !.runs = @ + 1] /\ used.runs < MaxRuns
        /\ MaxRuns \in Nat
    BY DEF Start, UpdateAssumption
  <2> QED
    BY <2>1 DEF Types, Uses
<1> QED
  BY <1>2, <1>3, StartFrame DEF Types, Mishaps

LEMMA DiskStepTypes ==
  ASSUME Types, RunHasFiber, DiskStep
  PROVE  Types'
<1>1. install.target \in MaybeVersion /\ install.old \in MaybeVersion
  BY DEF Types, Installs
<1>2. \A keep : \A left \in Collected(keep) : left \subseteq Versions
  BY DEF Collected, Types
<1>3. CASE Clear
  BY <1>3, GotoType DEF Clear, Types, SameServer, Steps
<1>4. CASE Land
  <2>1. install.target \in Versions
    BY <1>4 DEF Land, At, RunHasFiber
  <2> QED
    BY <1>4, <2>1, GotoType DEF Land, Types, SameServer, Steps
<1>5. CASE Collect
  BY <1>5, <1>2, GotoType, PhaseType DEF Collect, Types, SameServer, Steps, Phase, Unfinished
<1>6. CASE Drop
  BY <1>6, <1>2, Memory DEF Drop, Types, SameServer
<1>7. CASE Flip
  BY <1>7, <1>1, GotoType DEF Flip, Types, SameServer, Steps
<1>8. CASE RecordStart
  BY <1>8, <1>1, GotoType, RecordType DEF RecordStart, Types, SameServer, Steps
<1>9. CASE Spawn
  <2>1. server' \in Servers
    BY <1>9 DEF Spawn, Types, Servers
  <2>2. relaunch' \in Relaunches
    BY <1>9 DEF Spawn, Types, Relaunches
  <2> QED
    BY <1>9, <2>1, <2>2, Memory DEF Spawn, Types, disk
<1>10. CASE Revert
  BY <1>10, <1>1, GotoType DEF Revert, Happens, Types, Mishaps, Steps
<1>11. CASE RecordFailure
  BY <1>11, <1>1, Memory, PhaseType, RecordType
     DEF RecordFailure, Types, SameServer, Fails, EndsWith
<1> QED
  BY <1>3, <1>4, <1>5, <1>6, <1>7, <1>8, <1>9, <1>10, <1>11 DEF DiskStep

LEMMA ProcessStepTypes ==
  ASSUME UpdateAssumption, Types, Launch \/ Crash \/ StopSelf \/ RelaunchStep
  PROVE  Types'
<1>1. CASE Launch
  BY <1>1, BootTypes DEF Launch, Types, Boot
<1>2. CASE Crash
  <2>1. used' \in Uses
    BY <1>2 DEF Crash, Types, Uses, UpdateAssumption
  <2> QED
    BY <1>2, <2>1, DownType DEF Crash, Types
<1>3. CASE StopSelf
  BY <1>3, DownType DEF StopSelf, Types
<1>4. CASE RelaunchStep
  <2>1. PICK r \in 1 .. MaxRuns :
          \/ StopServer(r) \/ PortFree(r) \/ PortBusy(r)
          \/ Relaunch(r) \/ RelaunchEnds(r)
    BY <1>4 DEF RelaunchStep
  <2>2. \A step \in {"none", "stop", "wait", "launch"} :
          RelaunchGoes(r, step) => relaunch' \in Relaunches
    BY DEF RelaunchGoes, Types, Relaunches
  <2>3. CASE StopServer(r)
    BY <2>3, <2>2, DownType DEF StopServer, Types
  <2>4. CASE PortFree(r)
    BY <2>4, <2>2 DEF PortFree, Types, disk
  <2>5. CASE PortBusy(r)
    <3>1. PICK v \in IF journal = NoRecord THEN BootTargets ELSE {journal.target} :
            JournalBecomes(Record("failed", v))
      BY <2>5 DEF PortBusy
    <3>2. v \in MaybeVersion
      BY <3>1 DEF BootTargets, Types, Records, MaybeVersion
    <3>3. journal' \in Records
      BY <3>1, <3>2, RecordType DEF Types
    <3> QED
      BY <2>5, <2>2, <3>3 DEF PortBusy, Types
  <2>6. CASE Relaunch(r)
    BY <2>6, <2>2, BootTypes DEF Relaunch, Types, Boot
  <2>7. CASE RelaunchEnds(r)
    BY <2>7, <2>2 DEF RelaunchEnds, Types, disk
  <2> QED
    BY <2>1, <2>3, <2>4, <2>5, <2>6, <2>7
<1> QED
  BY <1>1, <1>2, <1>3, <1>4

LEMMA StepKinds ==
  ASSUME Next
  PROVE  FiberStep \/ DiskStep \/ Start \/ Launch \/ Crash \/ StopSelf \/ RelaunchStep
BY DEF Next, RunStep, AfterFlip, FiberStep, DiskStep

LEMMA TypesStep ==
  ASSUME UpdateAssumption, Types, RunHasFiber, [Next]_vars
  PROVE  Types'
<1>1. CASE UNCHANGED vars
  BY <1>1 DEF vars, Types
<1> QED
  BY <1>1, StepKinds, FiberStepTypes, DiskStepTypes, StartTypes, ProcessStepTypes

-----------------------------------------------------------------------------
(* The run and its fiber *)

LEMMA FiberUp ==
  ASSUME RunHasFiber, FiberStep \/ DiskStep \/ Start
  PROVE  Up
<1>1. ~Up => install.step = "idle" /\ run.phase = "none"
  BY DEF RunHasFiber, Idle, NoRun
<1>2. CASE FiberStep
  BY <1>1, <1>2 DEF FiberStep, At, Interruptible, Press, Retry, CheckSettles, Refuse, FetchFails, LandFails, Supersede, GoOn, FlipFails, Restart, SpawnFails, Deadline
<1>3. CASE DiskStep \/ Start
  BY <1>1, <1>3 DEF DiskStep, At, Start, Clear, Land, Collect, Drop, Flip, RecordStart, Spawn, Revert, RecordFailure
<1> QED
  BY <1>2, <1>3

LEMMA FiberStepHasFiber ==
  ASSUME Types, RunHasFiber, FiberStep
  PROVE  RunHasFiber'
<1>1. Up /\ server' = server
  BY FiberUp DEF FiberStep, SameServer, Press, Retry, CheckSettles, Refuse, FetchFails, LandFails, Supersede, GoOn, FlipFails, Restart, SpawnFails, Deadline
<1>2. run'.phase \in Unfinished => install'.step \in Working
  <2>0. Idle.step = "idle" /\ NoRun.phase = "none"
    BY DEF Idle, NoRun
  <2> USE <2>0 DEF RunHasFiber, Types, Fails, EndsWith, Phase, At, Working, Unfinished
  <2>1. CASE Press
    BY <2>1, GotoType, PhaseType DEF Press, Steps
  <2>2. CASE Retry
    BY <2>2, GotoType, PhaseType DEF Retry, Steps
  <2>3. CASE CheckSettles
    BY <2>3, GotoType, PhaseType DEF CheckSettles, Steps
  <2>4. CASE Refuse
    BY <2>4, GotoType, PhaseType DEF Refuse, Steps
  <2>5. CASE FetchFails
    BY <2>5, GotoType, PhaseType DEF FetchFails, Steps
  <2>6. CASE LandFails
    BY <2>6, GotoType, PhaseType DEF LandFails, Steps
  <2>7. CASE Supersede
    BY <2>7, GotoType, PhaseType DEF Supersede, Steps
  <2>8. CASE GoOn
    BY <2>8, GotoType, PhaseType DEF GoOn, Steps
  <2>9. CASE FlipFails
    BY <2>9, GotoType, PhaseType DEF FlipFails, Steps
  <2>10. CASE Restart
    BY <2>10, GotoType, PhaseType DEF Restart, Steps
  <2>11. CASE SpawnFails
    BY <2>11, GotoType, PhaseType DEF SpawnFails, Steps
  <2>12. CASE Deadline
    BY <2>12, GotoType, PhaseType DEF Deadline, Steps, Interruptible
  <2> QED
    BY <2>1, <2>2, <2>3, <2>4, <2>5, <2>6, <2>7, <2>8, <2>9, <2>10, <2>11, <2>12 DEF FiberStep
<1>3. \/ install' = Idle
      \/ install'.step = "resolve"
      \/ install'.target = install.target /\ install.step \notin {"idle", "resolve"}
      \/ install' = install
  BY GotoType DEF FiberStep, Fails, EndsWith, At, Steps, Types, Press, Retry, CheckSettles, Refuse, FetchFails, LandFails, Supersede, GoOn, FlipFails, Restart, SpawnFails, Deadline
<1> QED
  BY <1>1, <1>2, <1>3 DEF RunHasFiber, Up, Idle

LEMMA DiskStepHasFiber ==
  ASSUME Types, RunHasFiber, DiskStep
  PROVE  RunHasFiber'
<1>1. Up /\ server'.version = server.version
  BY FiberUp DEF DiskStep, SameServer, Types, Servers, Clear, Land, Collect, Drop, Flip, RecordStart, Spawn, Revert, RecordFailure
<1>2. run'.phase \in Unfinished => install'.step \in Working
  <2>0. Idle.step = "idle"
    BY DEF Idle
  <2> USE <2>0 DEF RunHasFiber, Types, Fails, EndsWith, Phase, At, Working, Unfinished
  <2>1. CASE Clear
    BY <2>1, GotoType, PhaseType DEF Clear, Steps
  <2>2. CASE Land
    BY <2>2, GotoType, PhaseType DEF Land, Steps
  <2>3. CASE Collect
    BY <2>3, GotoType, PhaseType DEF Collect, Steps
  <2>4. CASE Drop
    BY <2>4, GotoType, PhaseType DEF Drop, Steps
  <2>5. CASE Flip
    BY <2>5, GotoType, PhaseType DEF Flip, Steps
  <2>6. CASE RecordStart
    BY <2>6, GotoType, PhaseType DEF RecordStart, Steps
  <2>7. CASE Spawn
    BY <2>7, GotoType, PhaseType DEF Spawn, Steps
  <2>8. CASE Revert
    BY <2>8, GotoType, PhaseType DEF Revert, Steps
  <2>9. CASE RecordFailure
    BY <2>9, GotoType, PhaseType DEF RecordFailure, Steps
  <2> QED
    BY <2>1, <2>2, <2>3, <2>4, <2>5, <2>6, <2>7, <2>8, <2>9 DEF DiskStep
<1>3. \/ install' = Idle
      \/ install'.target = install.target /\ install.step \notin {"idle", "resolve"}
  BY GotoType DEF DiskStep, Fails, EndsWith, At, Steps, Types, Clear, Land, Collect, Drop, Flip, RecordStart, Spawn, Revert, RecordFailure
<1> QED
  BY <1>1, <1>2, <1>3 DEF RunHasFiber, Up, Idle

LEMMA StartHasFiber ==
  ASSUME RunHasFiber, Start
  PROVE  RunHasFiber'
<1>1. Up /\ server' = server
  BY FiberUp, StartFrame
<1>2. PICK v \in Versions :
        /\ v > server.version
        /\ run' = [phase |-> "download", target |-> v]
        /\ install' = [step |-> "fetch", target |-> v, old |-> pointer]
  BY StartIs
<1>3. install'.step = "fetch" /\ install'.target = v
  BY <1>2
<1> QED
  BY <1>1, <1>2, <1>3 DEF RunHasFiber, Working, Up

\* The process of the server starts, ends, or is not concerned.
LEMMA ProcessSteps ==
  ASSUME Launch \/ Crash \/ StopSelf \/ RelaunchStep
  PROVE  \/ ~Up /\ Boot
         \/ Down
         \/ /\ UNCHANGED <<versions, pointer, server, run, install, ran, mishaps>>
            /\ \/ UNCHANGED journal
               \/ \E v : JournalBecomes(Record("failed", v))
BY DEF Launch, Crash, StopSelf, RelaunchStep, StopServer, PortFree, PortBusy,
       Relaunch, RelaunchEnds, disk

LEMMA BootHasFiber ==
  ASSUME Types, UpdateAssumption, RunHasFiber, ~Up, Boot
  PROVE  RunHasFiber'
<1>1. install' = Idle /\ run' = NoRun
  BY DEF Boot, RunHasFiber
<1>2. server'.version # None
  <2>1. PICK v \in versions : server'.version = v
    BY DEF Boot
  <2> QED
    BY <2>1 DEF Types, UpdateAssumption
<1> QED
  BY <1>1, <1>2 DEF RunHasFiber, Up, Idle, NoRun, Unfinished

LEMMA ProcessStepHasFiber ==
  ASSUME UpdateAssumption, Types, RunHasFiber,
         Launch \/ Crash \/ StopSelf \/ RelaunchStep
  PROVE  RunHasFiber'
<1>1. CASE Down
  BY <1>1 DEF Down, RunHasFiber, Up, Idle, NoRun, Unfinished
<1>2. CASE UNCHANGED <<versions, pointer, server, run, install, ran>>
  BY <1>2 DEF RunHasFiber, Up
<1> QED
  BY <1>1, <1>2, ProcessSteps, BootHasFiber

\* What every later proof starts from.
Base == Types /\ RunHasFiber

LEMMA BaseInit == UpdateAssumption /\ Init => Base
<1> SUFFICES ASSUME UpdateAssumption, Init PROVE Base
  OBVIOUS
<1>1. versions \subseteq Versions /\ pointer \in MaybeVersion
  BY DEF Init, MaybeVersion
<1>2. relaunch \in Relaunches
  BY DEF Init, Relaunches
<1>3. used \in Uses
  <2>1. 0 \in 0 .. MaxRuns /\ 0 \in 0 .. MaxCrashes
    BY DEF UpdateAssumption
  <2>2. used = [runs |-> 0, crashes |-> 0]
    BY DEF Init
  <2> QED
    BY <2>1, <2>2 DEF Uses
<1> QED
  BY <1>1, <1>2, <1>3, Memory
     DEF Init, Base, Types, RunHasFiber, Up, NoServer, NoRun, Idle, Unfinished

LEMMA BaseStep ==
  ASSUME UpdateAssumption, Base, [Next]_vars
  PROVE  Base'
<1>1. RunHasFiber'
  <2>1. CASE UNCHANGED vars
    BY <2>1 DEF vars, Base, RunHasFiber, Up
  <2> QED
    BY <2>1, StepKinds, FiberStepHasFiber, DiskStepHasFiber, StartHasFiber,
       ProcessStepHasFiber DEF Base
<1> QED
  BY <1>1, TypesStep DEF Base

LEMMA BaseHolds == Spec => []Base
BY UpdateAssumption, BaseInit, BaseStep, PTL DEF Spec

\* The shape of every variable, and a fiber behind every run in progress.
THEOREM TypeCorrect == Spec => []TypeOK
<1>1. Base => TypeOK
  BY DEF Base, Types, RunHasFiber, TypeOK, Records, Reports, Servers, Runs, Installs,
         Relaunches, Uses, Mishaps, At, Working
<1> QED
  BY <1>1, BaseHolds, PTL

-----------------------------------------------------------------------------
(* What is reported *)

LEMMA FiberFrame ==
  ASSUME Types, FiberStep
  PROVE  /\ UNCHANGED <<versions, pointer, journal, server, ran>>
         /\ install'.old \in {install.old, None}
<1>1. UNCHANGED <<versions, pointer, journal, server, ran>>
  BY DEF FiberStep, disk, SameServer, Fails, EndsWith, Press, Retry, CheckSettles, Refuse, FetchFails, LandFails, Supersede, GoOn, FlipFails, Restart, SpawnFails, Deadline
<1>2. install' = Idle \/ install' = install \/ install'.old = install.old
  BY GotoType DEF FiberStep, Types, Steps, Fails, EndsWith, Press, Retry, CheckSettles, Refuse, FetchFails, LandFails, Supersede, GoOn, FlipFails, Restart, SpawnFails, Deadline
<1> QED
  BY <1>1, <1>2 DEF Idle

LEMMA DiskFrame ==
  ASSUME Types, DiskStep
  PROVE  /\ ran' = ran
         /\ server'.version = server.version /\ server'.report = server.report
         /\ journal' = journal \/ journal'.outcome # "ok"
         /\ install'.old \in {install.old, None}
<1>1. ran' = ran
  BY DEF DiskStep, SameServer, Clear, Land, Collect, Drop, Flip, RecordStart, Spawn, Revert, RecordFailure
<1>2. server'.version = server.version /\ server'.report = server.report
  BY DEF DiskStep, SameServer, Types, Servers, Clear, Land, Collect, Drop, Flip, RecordStart, Spawn, Revert, RecordFailure
<1>3. journal' = journal \/ journal'.outcome # "ok"
  <2>1. CASE RecordStart
    BY <2>1 DEF RecordStart, JournalBecomes, Record
  <2>2. CASE RecordFailure
    <3>1. JournalBecomes(Record("failed", install.target))
      BY <2>2 DEF RecordFailure
    <3> QED
      BY <3>1 DEF JournalBecomes, Record
  <2> QED
    BY <2>1, <2>2 DEF DiskStep, disk, Clear, Land, Collect, Drop, Flip, Spawn, Revert
<1>4. install' = Idle \/ install'.old = install.old
  BY GotoType DEF DiskStep, Types, Steps, Fails, EndsWith, Clear, Land, Collect, Drop, Flip, RecordStart, Spawn, Revert, RecordFailure
<1> QED
  BY <1>1, <1>2, <1>3, <1>4 DEF Idle

LEMMA BootHonest ==
  ASSUME Types, Honest, Boot
  PROVE  Honest'
<1>1. PICK v \in versions :
        /\ server' = [version |-> v, report |-> Reconciled(journal, v), stopping |-> FALSE]
        /\ ran' = ran \cup {v}
        /\ JournalBecomes(Reconciled(journal, v))
  BY DEF Boot
<1> DEFINE record == Reconciled(journal, v)
<1>2. record.outcome = "ok" => record.target \in ran'
  BY <1>1 DEF Reconciled, Record, Honest
<1>3. record.outcome = "failed" => record.target # v
  BY DEF Reconciled, Record, Types, Records
<1>4. journal'.outcome = "ok" => journal'.target \in ran'
  BY <1>1, <1>2 DEF JournalBecomes, Honest
<1> QED
  BY <1>1, <1>2, <1>3, <1>4 DEF Honest, ReportIsTrue

LEMMA HonestStep ==
  ASSUME UpdateAssumption, Base, Honest, [Next]_vars
  PROVE  Honest'
<1> USE DEF Base
<1>1. CASE FiberStep
  BY <1>1, FiberFrame DEF Honest, ReportIsTrue
<1>2. CASE DiskStep
  BY <1>2, DiskFrame DEF Honest, ReportIsTrue
<1>3. CASE Start \/ UNCHANGED vars
  BY <1>3 DEF Start, disk, vars, Honest, ReportIsTrue
<1>4. CASE Launch \/ Crash \/ StopSelf \/ RelaunchStep
  <2>1. CASE Down
    BY <2>1 DEF Down, disk, Honest, ReportIsTrue, NoServer, NoRecord
  <2>2. CASE UNCHANGED <<versions, pointer, server, run, install, ran>>
             /\ (UNCHANGED journal \/ \E v : JournalBecomes(Record("failed", v)))
    BY <2>2 DEF Honest, ReportIsTrue, JournalBecomes, Record
  <2> QED
    BY <1>4, <2>1, <2>2, ProcessSteps, BootHonest
<1> QED
  BY <1>1, <1>2, <1>3, <1>4, StepKinds

\* Whatever fails and whoever starts the server, it reports no failure of the
\* version it runs, and calls nothing installed that has not run.
THEOREM ReportsAreTrue == Spec => []ReportIsTrue
<1>1. Init => Honest
  <2> SUFFICES ASSUME Init PROVE Honest
    OBVIOUS
  <2>1. journal.outcome = "none" /\ server.report.outcome = "none"
    BY DEF Init, NoServer, NoRecord
  <2> QED
    BY <2>1 DEF Honest, ReportIsTrue
<1>2. Spec => []Honest
  BY <1>1, HonestStep, BaseHolds, UpdateAssumption, PTL DEF Spec
<1> QED
  BY <1>2, PTL DEF Honest

-----------------------------------------------------------------------------
(* Boots go forward *)

LEMMA Numbers ==
  ASSUME UpdateAssumption, Base
  PROVE  /\ Versions \subseteq Int /\ ran \subseteq Int
         /\ Up => server.version \in Versions
         /\ install.step \notin {"idle", "resolve"}
              => install.target \in Versions /\ install.target > server.version
<1>1. Versions \subseteq Int
  BY DEF UpdateAssumption
<1> QED
  BY <1>1 DEF Base, Types, RunHasFiber, Servers, MaybeVersion, Up

\* A boot starts a version that none of those that have run is newer than.
LEMMA BootsForward ==
  ASSUME UpdateAssumption, Base, Forward, Boot
  PROVE  \E v \in versions :
           /\ server'.version = v /\ ran' = ran \cup {v} /\ v \in versions'
           /\ Reaches(v) /\ (pointer # None => v = pointer)
<1>1. PICK v \in BootTargets \cap versions :
        /\ server' = [version |-> v, report |-> Reconciled(journal, v), stopping |-> FALSE]
        /\ ran' = ran \cup {v}
        /\ versions' \in IF Reconciled(journal, v).outcome = "ok"
                         THEN Collected({v}) ELSE {versions}
  BY DEF Boot
<1>2. v \in versions'
  BY <1>1 DEF Collected
<1>3. Reaches(v)
  <2>1. CASE pointer # None
    BY <2>1 DEF BootTargets, Forward
  <2>2. CASE pointer = None
    <3>1. PICK u \in versions : Reaches(u)
      BY <2>2 DEF Forward
    <3>2. u <= v /\ u \in Int /\ v \in Int
      BY <2>2, Numbers DEF BootTargets, Base, Types
    <3> QED
      BY <3>1, <3>2, Numbers DEF Reaches
  <2> QED
    BY <2>1, <2>2
<1> QED
  BY <1>1, <1>2, <1>3 DEF BootTargets

LEMMA RunningKept ==
  ASSUME UpdateAssumption, Base, Forward, DiskStep
  PROVE  server.version \in versions' /\ Reaches(server.version)
<1>1. Up /\ server.version \in versions /\ Reaches(server.version)
  BY FiberUp DEF Base, Forward
<1>2. CASE Clear
  <2>1. install.step \notin {"idle", "resolve"}
    BY <1>2 DEF Clear, At
  <2>2. /\ install.target \in Int /\ server.version \in Int
        /\ install.target > server.version
    BY <1>1, <2>1, Numbers
  <2>3. install.target # server.version
    BY <2>2
  <2> QED
    BY <1>1, <1>2, <2>3 DEF Clear
<1>3. CASE Collect \/ Drop
  BY <1>1, <1>3 DEF Collect, Drop, Collected
<1> QED
  BY <1>1, <1>2, <1>3 DEF DiskStep, Land, Flip, RecordStart, Spawn, Revert, RecordFailure,
     disk

LEMMA ForwardStep ==
  ASSUME UpdateAssumption, Base, Forward, [Next]_vars
  PROVE  Forward'
<1>1. CASE FiberStep
  BY <1>1, FiberFrame DEF Base, Forward, Reaches, Up
<1>2. CASE DiskStep
  <2>1. pointer' # None => Reaches(pointer')
    <3>1. CASE Flip
      <4>1. Reaches(install.target)
        <5>1. install.step \notin {"idle", "resolve"} /\ Up
          BY <3>1, <1>2, FiberUp DEF Flip, At, Base
        <5>2. /\ install.target \in Int /\ server.version \in Int /\ ran \subseteq Int
              /\ install.target > server.version
          BY <5>1, Numbers
        <5>3. Reaches(server.version)
          BY <1>2, RunningKept
        <5> QED
          BY <5>2, <5>3 DEF Reaches
      <4>2. pointer' = install.target /\ ran' = ran
        BY <3>1, <1>2, DiskFrame DEF Flip, Base
      <4> QED
        BY <4>1, <4>2 DEF Reaches
    <3>2. CASE Revert
      <4>1. ran' = ran /\ (pointer' = install.old \/ pointer' = pointer)
        BY <3>2 DEF Revert
      <4> QED
        BY <4>1 DEF Forward, Reaches
    <3>3. CASE pointer' = pointer
      BY <1>2, <3>3, DiskFrame DEF Base, Forward, Reaches
    <3> QED
      BY <1>2, <3>1, <3>2, <3>3 DEF DiskStep, Clear, Land, Collect, Drop, RecordStart,
         Spawn, RecordFailure, disk
  <2>2. install'.old # None => Reaches(install'.old)
    BY <1>2, DiskFrame DEF Base, Forward
  <2>3. server.version \in versions' /\ server.version \in ran /\ Reaches(server.version)
    BY <1>2, RunningKept, FiberUp DEF Base, Forward
  <2>4. server'.version = server.version /\ ran' = ran
    BY <1>2, DiskFrame DEF Base
  <2> QED
    BY <2>1, <2>2, <2>3, <2>4 DEF Forward, Reaches, Up
<1>3. CASE Start
  <2>1. UNCHANGED <<versions, pointer, server, ran>> /\ install'.old = pointer
    BY <1>3, StartBegins, StartFrame
  <2> QED
    BY <2>1 DEF Forward, Reaches, Up
<1>4. CASE Launch \/ Crash \/ StopSelf \/ RelaunchStep
  <2>1. CASE Down
    BY <2>1 DEF Down, disk, Forward, Reaches, Up, NoServer, Idle
  <2>2. CASE UNCHANGED <<versions, pointer, server, run, install, ran>>
    BY <2>2 DEF Forward, Reaches, Up
  <2>3. CASE ~Up /\ Boot
    <3>1. PICK v \in versions :
            /\ server'.version = v /\ ran' = ran \cup {v} /\ v \in versions'
            /\ Reaches(v) /\ (pointer # None => v = pointer)
      BY <2>3, BootsForward
    <3>2. v \in Int
      BY Numbers DEF Base, Types
    <3>3. \A w \in ran' : w <= v
      BY <3>1, <3>2 DEF Reaches
    <3>4. pointer' = pointer /\ install'.old = None
      BY <2>3 DEF Boot, Base, RunHasFiber, Idle
    <3> QED
      BY <3>1, <3>3, <3>4 DEF Forward, Reaches
  <2> QED
    BY <1>4, <2>1, <2>2, <2>3, ProcessSteps
<1>5. CASE UNCHANGED vars
  BY <1>5 DEF vars, Forward, Reaches, Up
<1> QED
  BY <1>1, <1>2, <1>3, <1>4, <1>5, StepKinds

LEMMA ForwardInit ==
  ASSUME Init
  PROVE  Forward
<1>1. ran = {} /\ (\E v \in Versions : versions = {v})
  BY DEF Init
<1>2. ~Up /\ install.old = None
  BY DEF Init, Up, NoServer, Idle
<1> QED
  BY <1>1, <1>2 DEF Forward, Reaches

LEMMA ForwardHolds == Spec => []Forward
BY UpdateAssumption, ForwardInit, ForwardStep, BaseHolds, PTL DEF Spec

\* No boot goes back behind a version that has run, whatever is interrupted,
\* fails to be written or removed, and whoever starts the server.
THEOREM BootsNeverDowngrade == Spec => NeverDowngrades
<1> DEFINE A == server'.version # server.version /\ server'.version # None
                  => \A v \in ran : v <= server'.version
<1>1. ASSUME UpdateAssumption, Base, Forward, [Next]_vars
      PROVE  A
  <2>1. CASE FiberStep
    BY <1>1, <2>1, FiberFrame DEF Base
  <2>2. CASE DiskStep
    BY <1>1, <2>2, DiskFrame DEF Base
  <2>3. CASE Start \/ UNCHANGED vars
    BY <2>3 DEF Start, vars
  <2>4. CASE Launch \/ Crash \/ StopSelf \/ RelaunchStep
    <3>1. CASE Down
      BY <3>1 DEF Down, NoServer
    <3>2. CASE UNCHANGED server
      BY <3>2
    <3>3. CASE Boot
      <4>1. PICK v \in versions : server'.version = v /\ Reaches(v)
        BY <1>1, <3>3, BootsForward
      <4> QED
        BY <4>1 DEF Reaches
    <3> QED
      BY <2>4, <3>1, <3>2, <3>3, ProcessSteps
  <2> QED
    BY <1>1, <2>1, <2>2, <2>3, <2>4, StepKinds
<1> QED
  BY <1>1, UpdateAssumption, BaseHolds, ForwardHolds, PTL DEF Spec, NeverDowngrades

-----------------------------------------------------------------------------
(* The trees on disk *)

LEMMA FiberTarget ==
  ASSUME Types, Landed, FiberStep
  PROVE  install'.step \in {"collect", "look", "flip"} => install'.target \in versions
<1>0. Idle.step = "idle"
  BY DEF Idle
<1> USE <1>0 DEF Fails, EndsWith, At, Landed, Types, Steps
<1>1. CASE Press
  BY <1>1, GotoType DEF Press
<1>2. CASE Retry
  BY <1>2, GotoType DEF Retry
<1>3. CASE CheckSettles
  BY <1>3, GotoType DEF CheckSettles
<1>4. CASE Refuse
  BY <1>4, GotoType DEF Refuse
<1>5. CASE FetchFails
  BY <1>5, GotoType DEF FetchFails
<1>6. CASE LandFails
  BY <1>6, GotoType DEF LandFails
<1>7. CASE Supersede
  BY <1>7, GotoType DEF Supersede
<1>8. CASE GoOn
  BY <1>8, GotoType DEF GoOn
<1>9. CASE FlipFails
  BY <1>9, GotoType DEF FlipFails
<1>10. CASE Restart
  BY <1>10, GotoType DEF Restart
<1>11. CASE SpawnFails
  BY <1>11, GotoType DEF SpawnFails
<1>12. CASE Deadline
  BY <1>12, GotoType DEF Deadline
<1> QED
  BY <1>1, <1>2, <1>3, <1>4, <1>5, <1>6, <1>7, <1>8, <1>9, <1>10, <1>11, <1>12 DEF FiberStep

\* The steps of the fiber: it ends, begins, or goes on with what it has.
LEMMA FiberGoes ==
  ASSUME Types, FiberStep
  PROVE  \/ install'.step \notin BeforeFlip \cup Flipped
         \/ /\ install'.old = install.old
            /\ install.step \in BeforeFlip \/ install'.step \notin BeforeFlip
            /\ install.step \in BeforeFlip \cup Flipped
<1>0. Idle.step = "idle"
  BY DEF Idle
<1> USE <1>0 DEF Fails, EndsWith, At, Types, Steps, BeforeFlip, Flipped
<1>1. CASE Press
  BY <1>1, GotoType DEF Press
<1>2. CASE Retry
  BY <1>2, GotoType DEF Retry
<1>3. CASE CheckSettles
  BY <1>3, GotoType DEF CheckSettles
<1>4. CASE Refuse
  BY <1>4, GotoType DEF Refuse
<1>5. CASE FetchFails
  BY <1>5, GotoType DEF FetchFails
<1>6. CASE LandFails
  BY <1>6, GotoType DEF LandFails
<1>7. CASE Supersede
  BY <1>7, GotoType DEF Supersede
<1>8. CASE GoOn
  BY <1>8, GotoType DEF GoOn
<1>9. CASE FlipFails
  BY <1>9, GotoType DEF FlipFails
<1>10. CASE Restart
  BY <1>10, GotoType DEF Restart
<1>11. CASE SpawnFails
  BY <1>11, GotoType DEF SpawnFails
<1>12. CASE Deadline
  BY <1>12, GotoType DEF Deadline
<1> QED
  BY <1>1, <1>2, <1>3, <1>4, <1>5, <1>6, <1>7, <1>8, <1>9, <1>10, <1>11, <1>12 DEF FiberStep

LEMMA FiberMishaps ==
  ASSUME FiberStep
  PROVE  /\ mishaps \subseteq mishaps'
         /\ mishaps' = {} => install.step # "flipped" \/ ~Deadline
<1>1. CASE Deadline
  BY <1>1 DEF Deadline, Happens, At
<1>2. CASE mishaps' = mishaps /\ ~Deadline
  BY <1>2
<1> QED
  BY <1>1, <1>2 DEF FiberStep, SameServer, Fails, Press, Retry, CheckSettles, Refuse, FetchFails, LandFails, Supersede, GoOn, FlipFails, Restart, SpawnFails

LEMMA DiskLanded ==
  ASSUME UpdateAssumption, Base, Forward, Landed, DiskStep
  PROVE  Landed'
<1>0. versions' # {} /\ Idle.step = "idle"
  BY RunningKept DEF Idle
<1> USE <1>0 DEF Fails, EndsWith, At, Landed, Base, Types, Steps
<1>1. CASE Clear
  BY <1>1, GotoType DEF Clear, disk, Collected
<1>2. CASE Land
  BY <1>2, GotoType DEF Land, disk, Collected
<1>3. CASE Collect
  BY <1>3, GotoType DEF Collect, disk, Collected
<1>4. CASE Drop
  BY <1>4, GotoType DEF Drop, disk, Collected
<1>5. CASE Flip
  BY <1>5, GotoType DEF Flip, disk, Collected
<1>6. CASE RecordStart
  BY <1>6, GotoType DEF RecordStart, disk, Collected
<1>7. CASE Spawn
  BY <1>7, GotoType DEF Spawn, disk, Collected
<1>8. CASE Revert
  BY <1>8, GotoType DEF Revert, disk, Collected
<1>9. CASE RecordFailure
  BY <1>9, GotoType DEF RecordFailure, disk, Collected
<1> QED
  BY <1>1, <1>2, <1>3, <1>4, <1>5, <1>6, <1>7, <1>8, <1>9 DEF DiskStep

LEMMA StraightDisk ==
  ASSUME UpdateAssumption, Base, Forward, Landed, Straight, DiskStep
  PROVE  Straight'
<1>0. /\ Idle.step = "idle" /\ server'.version = server.version
      /\ server.version \in versions /\ server.version \in versions'
      /\ mishaps \subseteq mishaps'
  <2>1. mishaps \subseteq mishaps'
    BY DEF DiskStep, SameServer, Happens, Clear, Land, Collect, Drop, Flip, RecordStart, Spawn, Revert, RecordFailure
  <2> QED
    BY <2>1, FiberUp, RunningKept, DiskFrame DEF Idle, Base, Forward
<1>1. CASE "started astray" \in mishaps
  BY <1>0, <1>1 DEF Straight
<1>2. CASE "started astray" \notin mishaps
  <2>1. install.step \notin {"idle", "resolve"} => install.target # server.version
    <3> SUFFICES ASSUME install.step \notin {"idle", "resolve"}
                 PROVE  install.target # server.version
      OBVIOUS
    <3>1. /\ install.target \in Int /\ server.version \in Int
          /\ install.target > server.version
      BY FiberUp, Numbers DEF Base
    <3> QED
      BY <3>1
  <2>2. install.target # None
    BY DEF Base, RunHasFiber, DiskStep, At, UpdateAssumption, Clear, Land, Collect, Drop, Flip, RecordStart, Spawn, Revert, RecordFailure
  <2> USE <1>0, <1>2, <2>1, <2>2
      DEF Straight, Landed, Base, Types, Steps, BeforeFlip, Flipped, At, Fails, EndsWith
  <2>11. CASE Clear
    BY <2>11, GotoType DEF Clear, disk, Collected
  <2>12. CASE Land
    BY <2>12, GotoType DEF Land, disk, Collected
  <2>13. CASE Collect
    BY <2>13, GotoType DEF Collect, disk, Collected
  <2>14. CASE Drop
    BY <2>14, GotoType DEF Drop, disk, Collected
  <2>15. CASE Flip
    BY <2>15, GotoType DEF Flip, disk, Collected
  <2>16. CASE RecordStart
    BY <2>16, GotoType DEF RecordStart, disk, Collected
  <2>17. CASE Spawn
    BY <2>17, GotoType DEF Spawn, disk, Collected
  <2>18. CASE Revert
    BY <2>18, GotoType DEF Revert, disk, Collected
  <2>19. CASE RecordFailure
    BY <2>19, GotoType DEF RecordFailure, disk, Collected
  <2> QED
    BY <2>11, <2>12, <2>13, <2>14, <2>15, <2>16, <2>17, <2>18, <2>19 DEF DiskStep
<1> QED
  BY <1>1, <1>2

LEMMA FailedFiber ==
  ASSUME UpdateAssumption, Base, Straight, FailedStopped, FiberStep
  PROVE  FailedStopped'
<1>0. /\ Idle.step = "idle" /\ NoRun.phase = "none" /\ mishaps \subseteq mishaps'
      /\ UNCHANGED <<pointer, server>>
  BY FiberMishaps, FiberFrame DEF Idle, NoRun, Base
<1> USE <1>0 DEF FailedStopped, Straight, Base, Types, RunHasFiber, Steps, BeforeFlip,
        Flipped, Working, At, Fails, EndsWith, Phase, Unfinished
<1>1. CASE Press
  BY <1>1, GotoType, PhaseType, FiberMishaps DEF Press, Interruptible
<1>2. CASE Retry
  BY <1>2, GotoType, PhaseType, FiberMishaps DEF Retry, Interruptible
<1>3. CASE CheckSettles
  BY <1>3, GotoType, PhaseType, FiberMishaps DEF CheckSettles, Interruptible
<1>4. CASE Refuse
  BY <1>4, GotoType, PhaseType, FiberMishaps DEF Refuse, Interruptible
<1>5. CASE FetchFails
  BY <1>5, GotoType, PhaseType, FiberMishaps DEF FetchFails, Interruptible
<1>6. CASE LandFails
  BY <1>6, GotoType, PhaseType, FiberMishaps DEF LandFails, Interruptible
<1>7. CASE Supersede
  BY <1>7, GotoType, PhaseType, FiberMishaps DEF Supersede, Interruptible
<1>8. CASE GoOn
  BY <1>8, GotoType, PhaseType, FiberMishaps DEF GoOn, Interruptible
<1>9. CASE FlipFails
  BY <1>9, GotoType, PhaseType, FiberMishaps DEF FlipFails, Interruptible
<1>10. CASE Restart
  BY <1>10, GotoType, PhaseType, FiberMishaps DEF Restart, Interruptible
<1>11. CASE SpawnFails
  BY <1>11, GotoType, PhaseType, FiberMishaps DEF SpawnFails, Interruptible
<1>12. CASE Deadline
  BY <1>12, GotoType, PhaseType, FiberMishaps DEF Deadline, Interruptible
<1> QED
  BY <1>1, <1>2, <1>3, <1>4, <1>5, <1>6, <1>7, <1>8, <1>9, <1>10, <1>11, <1>12 DEF FiberStep

LEMMA FailedDisk ==
  ASSUME UpdateAssumption, Base, Straight, FailedStopped, DiskStep
  PROVE  FailedStopped'
<1>0. /\ Idle.step = "idle" /\ server'.version = server.version
  BY DiskFrame DEF Idle, Base
<1> USE <1>0 DEF FailedStopped, Straight, Base, Types, Steps, BeforeFlip,
        Flipped, At, Fails, EndsWith, Phase, SameServer, Unfinished
<1>1. CASE Clear
  BY <1>1, GotoType, PhaseType DEF Clear, Happens, disk
<1>2. CASE Land
  BY <1>2, GotoType, PhaseType DEF Land, Happens, disk
<1>3. CASE Collect
  BY <1>3, GotoType, PhaseType DEF Collect, Happens, disk
<1>4. CASE Drop
  BY <1>4, GotoType, PhaseType DEF Drop, Happens, disk
<1>5. CASE Flip
  BY <1>5, GotoType, PhaseType DEF Flip, Happens, disk
<1>6. CASE RecordStart
  BY <1>6, GotoType, PhaseType DEF RecordStart, Happens, disk
<1>7. CASE Spawn
  BY <1>7, GotoType, PhaseType DEF Spawn, Happens, disk
<1>8. CASE Revert
  BY <1>8, GotoType, PhaseType DEF Revert, Happens, disk
<1>9. CASE RecordFailure
  BY <1>9, GotoType, PhaseType DEF RecordFailure, Happens, disk
<1> QED
  BY <1>1, <1>2, <1>3, <1>4, <1>5, <1>6, <1>7, <1>8, <1>9 DEF DiskStep

LEMMA LandedStep ==
  ASSUME UpdateAssumption, Base, Forward, Landed, [Next]_vars
  PROVE  Landed'
<1>1. CASE FiberStep
  BY <1>1, FiberFrame, FiberTarget DEF Base, Landed
<1>2. CASE DiskStep
  BY <1>2, DiskLanded
<1>3. CASE Start
  BY <1>3, StartBegins, StartFrame DEF Landed
<1>4. CASE Launch \/ Crash \/ StopSelf \/ RelaunchStep
  <2>0. Idle.step = "idle"
    BY DEF Idle
  <2>1. CASE Down
    BY <2>0, <2>1 DEF Down, disk, Landed
  <2>2. CASE UNCHANGED <<versions, install>>
    BY <2>2 DEF Landed
  <2>3. CASE ~Up /\ Boot
    BY <2>0, <2>3, BootsForward DEF Boot, Base, RunHasFiber, Landed
  <2> QED
    BY <1>4, <2>1, <2>2, <2>3, ProcessSteps
<1>5. CASE UNCHANGED vars
  BY <1>5 DEF vars, Landed
<1> QED
  BY <1>1, <1>2, <1>3, <1>4, <1>5, StepKinds

LEMMA StraightStep ==
  ASSUME UpdateAssumption, Base, Forward, Landed, Straight, [Next]_vars
  PROVE  Straight'
<1>0. Idle.step = "idle"
  BY DEF Idle
<1> USE DEF Straight
<1>1. CASE FiberStep
  <2>1. UNCHANGED <<versions, pointer, server>> /\ mishaps \subseteq mishaps'
    BY <1>1, FiberFrame, FiberMishaps DEF Base
  <2>2. \/ install'.step \notin BeforeFlip \cup Flipped
        \/ /\ install'.old = install.old
           /\ install.step \in BeforeFlip \/ install'.step \notin BeforeFlip
           /\ install.step \in BeforeFlip \cup Flipped
    BY <1>1, FiberGoes DEF Base
  <2> QED
    BY <2>1, <2>2
<1>2. CASE DiskStep
  BY <1>2, StraightDisk
<1>3. CASE Start
  <2>1. /\ UNCHANGED <<versions, pointer, server>> /\ mishaps \subseteq mishaps'
        /\ install'.old = pointer
    BY <1>3, StartBegins, StartFrame
  <2>2. "started astray" \notin mishaps' => pointer \in {server.version, None}
    BY <1>3, StartStraight
  <2> QED
    BY <2>1, <2>2
<1>4. CASE Launch \/ Crash \/ StopSelf \/ RelaunchStep
  <2>1. CASE Down
    BY <1>0, <2>1 DEF Down, disk, BeforeFlip, Flipped
  <2>2. CASE UNCHANGED <<versions, pointer, server, install, mishaps>>
    BY <2>2
  <2>3. CASE ~Up /\ Boot
    <3>1. install' = Idle /\ pointer' = pointer
      BY <2>3 DEF Boot, Base, RunHasFiber
    <3>2. pointer # None => pointer \in versions'
      BY <2>3, BootsForward
    <3> QED
      BY <1>0, <3>1, <3>2 DEF BeforeFlip, Flipped
  <2> QED
    BY <1>4, <2>1, <2>2, <2>3, ProcessSteps
<1>5. CASE UNCHANGED vars
  BY <1>5 DEF vars
<1> QED
  BY <1>1, <1>2, <1>3, <1>4, <1>5, StepKinds

LEMMA FailedStoppedStep ==
  ASSUME UpdateAssumption, Base, Straight, FailedStopped, [Next]_vars
  PROVE  FailedStopped'
<1>0. Idle.step = "idle" /\ NoRun.phase = "none"
  BY DEF Idle, NoRun
<1>1. CASE FiberStep
  BY <1>1, FailedFiber
<1>2. CASE DiskStep
  BY <1>2, FailedDisk
<1>3. CASE Start
  <2>1. run'.phase = "download" /\ install'.step = "fetch"
    BY <1>3, StartBegins
  <2> QED
    BY <2>1 DEF FailedStopped
<1>4. CASE Launch \/ Crash \/ StopSelf \/ RelaunchStep
  <2>1. CASE Down
    BY <1>0, <2>1 DEF Down, FailedStopped
  <2>2. CASE UNCHANGED <<pointer, server, run, install, mishaps>>
    BY <2>2 DEF FailedStopped
  <2>3. CASE ~Up /\ Boot
    BY <1>0, <2>3 DEF Boot, Base, RunHasFiber, FailedStopped
  <2> QED
    BY <1>4, <2>1, <2>2, <2>3, ProcessSteps
<1>5. CASE UNCHANGED vars
  BY <1>5 DEF vars, FailedStopped
<1> QED
  BY <1>1, <1>2, <1>3, <1>4, <1>5, StepKinds

LEMMA PointedInit ==
  ASSUME Init
  PROVE  Landed /\ Straight /\ FailedStopped
<1>1. /\ pointer \in versions \cup {None} /\ versions # {}
      /\ install.step = "idle" /\ run.phase = "none"
  BY DEF Init, Idle, NoRun
<1> QED
  BY <1>1 DEF Landed, Straight, FailedStopped, Flipped, BeforeFlip

LEMMA PointedHolds == Spec => [](Landed /\ Straight /\ FailedStopped)
<1>1. /\ Base /\ Forward /\ Landed /\ Straight /\ FailedStopped /\ [Next]_vars
      => Landed' /\ Straight' /\ FailedStopped'
  BY LandedStep, StraightStep, FailedStoppedStep, UpdateAssumption
<1> QED
  BY <1>1, PointedInit, BaseHolds, ForwardHolds, PTL DEF Spec

\* Whatever is interrupted, fails to be written or removed, and whoever starts
\* the server: what runs is complete on disk, and so is what the launcher would
\* start, unless a run started astray.
THEOREM AlwaysBootable == Spec => []Bootable
<1>1. Base /\ Forward /\ Landed /\ Straight => Bootable
  <2> SUFFICES ASSUME Base, Forward, Landed, Straight,
                      "started astray" \notin mishaps
               PROVE  BootTargets # {} /\ BootTargets \subseteq versions
    BY DEF Bootable, Forward
  <2>1. CASE pointer = None
    <3>1. versions \in (SUBSET Versions) \ {{}}
      BY DEF Base, Types, Landed
    <3>2. \E v \in versions : \A w \in versions : w <= v
      BY <3>1, UpdateAssumption DEF UpdateAssumption
    <3> QED
      BY <2>1, <3>2 DEF BootTargets
  <2>2. CASE pointer # None
    BY <2>2 DEF BootTargets, Straight
  <2> QED
    BY <2>1, <2>2
<1> QED
  BY <1>1, BaseHolds, ForwardHolds, PointedHolds, PTL

\* Under every fault: whenever a run is shown as failed and none of the three
\* mishaps behind the flip has happened since the boot, the pointer is as it was.
THEOREM FailuresChangeNothing == Spec => []FailedRunChangesNothing
<1>1. FailedStopped => FailedRunChangesNothing
  BY DEF FailedStopped, FailedRunChangesNothing
<1> QED
  BY <1>1, PointedHolds, PTL

=============================================================================
