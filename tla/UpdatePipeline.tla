--------------------------- MODULE UpdatePipeline ---------------------------
(* The update of the program by itself: a run that a press starts, the files  *)
(* it leaves on disk, the process that relaunches the server, and the boots.  *)
(*                                                                            *)
(* A run downloads a release next to the running one, flips the pointer the   *)
(* launcher boots by, hands over to a detached process and stops the server.  *)
(* Any step may be the last of its process, every removal and every write of  *)
(* the journal may fail, and a deadline interrupts a run that takes too long. *)
EXTENDS Integers

CONSTANTS
  Versions,    \* the releases, ordered
  None,        \* no version
  MaxRuns,     \* bound: runs started
  MaxCrashes   \* bound: crashes of the server

\* Of any releases one is the newest: there are only so many.
ASSUME UpdateAssumption ==
  /\ Versions \subseteq Nat /\ Versions # {} /\ None \notin Versions
  /\ \A some \in (SUBSET Versions) \ {{}} : \E v \in some : \A w \in some : w <= v
  /\ MaxRuns \in Nat /\ MaxCrashes \in Nat

VARIABLES
  versions,  \* disk: the complete trees under versions/
  pointer,   \* disk: the version current.json names
  journal,   \* disk: the record of the last run
  server,    \* the server process: version, boot verdict, about to stop
  run,       \* its memory: the run the clients are shown
  install,   \* its memory: the fiber that holds the apply lock
  relaunch,  \* the relaunch process of each run
  ran,       \* history: the versions that have run
  mishaps,   \* history: what went wrong behind the flip since the last boot
  used       \* the bounds spent: runs and crashes

vars == <<versions, pointer, journal, server, run, install, relaunch, ran,
          mishaps, used>>
disk == <<versions, pointer, journal>>

NoRun == [phase |-> "none", target |-> None]
Idle == [step |-> "idle", target |-> None, old |-> None]
NoRecord == [outcome |-> "none", target |-> None]
NoServer == [version |-> None, report |-> NoRecord, stopping |-> FALSE]
Record(outcome, v) == [outcome |-> outcome, target |-> v]

Up == server.version # None

-----------------------------------------------------------------------------
(* The disk *)

\* collectVersionGarbage: each removal of what is not kept may fail.
Collected(keep) == {left \in SUBSET versions : versions \cap keep \subseteq left}

\* resolveTarget: the pointer is believed whether its tree is there or not;
\* without one the newest tree is started.
BootTargets ==
  IF pointer # None THEN {pointer}
  ELSE {v \in versions : \A w \in versions : w <= v}

\* A best-effort write.
JournalBecomes(record) == journal' \in {journal, record}

-----------------------------------------------------------------------------
(* Boot *)

\* Variant: a record of failure is final.
ReconciledOnce(record, v) ==
  IF record.outcome # "started" THEN record
  ELSE Record(IF record.target = v THEN "ok" ELSE "failed", record.target)

\* reconcileJournalAtBoot: what runs decides what the record says.
Reconciled(record, v) ==
  IF record.outcome = "failed" /\ record.target = v THEN Record("ok", v)
  ELSE IF record.outcome # "started" THEN record
  ELSE Record(IF record.target = v THEN "ok" ELSE "failed", record.target)

\* The launcher imports the version; the engine settles the journal and, after
\* an update that landed, removes every other version.
Boot ==
  /\ \E v \in BootTargets \cap versions :
       LET record == Reconciled(journal, v)
       IN  /\ server' = [version |-> v, report |-> record, stopping |-> FALSE]
           /\ ran' = ran \cup {v}
           /\ JournalBecomes(record)
           /\ versions' \in IF record.outcome = "ok" THEN Collected({v}) ELSE {versions}
  /\ mishaps' = {}
  /\ UNCHANGED <<pointer, run, install>>

\* A user starts the program; a server that runs is left alone.
Launch == ~Up /\ Boot /\ UNCHANGED <<relaunch, used>>

\* The memory of the server goes with its process.
Down ==
  /\ server' = NoServer /\ run' = NoRun /\ install' = Idle
  /\ UNCHANGED <<disk, ran, mishaps>>

Crash ==
  /\ Up /\ used.crashes < MaxCrashes
  /\ used' = [used EXCEPT !.crashes = @ + 1]
  /\ Down /\ UNCHANGED relaunch

\* The signal the server sends itself after the hand-over.
StopSelf == server.stopping /\ Down /\ UNCHANGED <<relaunch, used>>

-----------------------------------------------------------------------------
(* The run *)

At(step) == install.step = step
Goto(step) == install' = [install EXCEPT !.step = step]
EndsWith(phase) == run' = [run EXCEPT !.phase = phase] /\ install' = Idle
Fails == EndsWith("failed")
Phase(phase) == run' = [run EXCEPT !.phase = phase]
SameServer == UNCHANGED <<server, relaunch, ran, mishaps, used>>
\* Something goes wrong behind the flip, if it does.
Happens(mishap, does) ==
  mishaps' = mishaps \cup IF does THEN {mishap} ELSE {}

Unfinished == {"download", "verify", "flip"}

\* install: the apply lock is taken or the press changes nothing. A server
\* that is about to stop takes it like any other.
Press ==
  /\ Up /\ At("idle") /\ Goto("resolve")
  /\ UNCHANGED <<disk, run>> /\ SameServer

\* retryRun: the failed run is cleared before the lock is tried.
Retry ==
  /\ Up /\ run.phase = "failed"
  /\ run' = NoRun
  /\ IF At("idle") THEN Goto("resolve") ELSE UNCHANGED install
  /\ UNCHANGED disk /\ SameServer

\* A check that settles clears a run that has failed.
CheckSettles ==
  /\ Up /\ run.phase = "failed"
  /\ run' = NoRun
  /\ UNCHANGED <<disk, install>> /\ SameServer

\* No source answers, nothing is newer, or this node is too old for it.
Refuse ==
  /\ At("resolve") /\ install' = Idle
  /\ UNCHANGED <<disk, run>> /\ SameServer

\* A run that starts while the pointer names another version than the one that
\* runs, which an earlier run has flipped it to.
Astray == pointer \notin {server.version, None}

\* Variant: whatever the sources offer is installed.
StartOffered ==
  /\ At("resolve") /\ used.runs < MaxRuns
  /\ \E v \in Versions \ {server.version} :
       /\ run' = [phase |-> "download", target |-> v]
       /\ install' = [step |-> "fetch", target |-> v, old |-> pointer]
  /\ used' = [used EXCEPT !.runs = @ + 1]
  /\ Happens("started astray", Astray)
  /\ UNCHANGED <<disk, server, relaunch, ran>>

\* The sources, asked again, offer a newer version.
Start ==
  /\ At("resolve") /\ used.runs < MaxRuns
  /\ \E v \in Versions :
       /\ v > server.version
       /\ run' = [phase |-> "download", target |-> v]
       /\ install' = [step |-> "fetch", target |-> v, old |-> pointer]
  /\ used' = [used EXCEPT !.runs = @ + 1]
  /\ Happens("started astray", Astray)
  /\ UNCHANGED <<disk, server, relaunch, ran>>

\* Download, signature, extraction and checksums, all in the workspace.
FetchFails == At("fetch") /\ Fails /\ UNCHANGED disk /\ SameServer

\* The verified tree replaces the one of its version: first that one goes,
Clear ==
  /\ At("fetch") /\ Goto("land")
  /\ versions' \in {versions, versions \ {install.target}}
  /\ UNCHANGED <<pointer, journal, run>> /\ SameServer

\* then it is renamed into its place,
Land ==
  /\ At("land") /\ install.target \notin versions /\ Goto("collect")
  /\ versions' = versions \cup {install.target}
  /\ UNCHANGED <<pointer, journal, run>> /\ SameServer

\* or it is not.
LandFails == At("land") /\ Fails /\ UNCHANGED disk /\ SameServer

\* Variant: the incoming version is not kept.
CollectOthers ==
  /\ At("collect") /\ Goto("look") /\ Phase("verify")
  /\ versions' \in Collected({server.version})
  /\ UNCHANGED <<pointer, journal>> /\ SameServer

Collect ==
  /\ At("collect") /\ Goto("look") /\ Phase("verify")
  /\ versions' \in Collected({server.version, install.target})
  /\ UNCHANGED <<pointer, journal>> /\ SameServer

\* The last look: a still newer version has appeared, and ends the run.
Supersede ==
  /\ At("look") /\ \E v \in Versions : v > install.target
  /\ Goto("drop") /\ Phase("failed")
  /\ UNCHANGED disk /\ SameServer

\* The payload that will not boot goes away.
Drop ==
  /\ At("drop") /\ install' = Idle
  /\ versions' \in Collected({server.version})
  /\ UNCHANGED <<pointer, journal, run>> /\ SameServer

GoOn ==
  /\ At("look") /\ Goto("flip") /\ Phase("flip")
  /\ UNCHANGED disk /\ SameServer

\* The flip, out of reach of an interrupt: the pointer and then its record.
Flip ==
  /\ At("flip") /\ Goto("record")
  /\ pointer' = install.target
  /\ UNCHANGED <<versions, journal, run>> /\ SameServer

FlipFails == At("flip") /\ Fails /\ UNCHANGED disk /\ SameServer

RecordStart ==
  /\ At("record") /\ Goto("flipped")
  /\ JournalBecomes(Record("started", install.target))
  /\ UNCHANGED <<versions, pointer, run>> /\ SameServer

Restart ==
  /\ At("flipped") /\ Goto("spawn") /\ Phase("restart")
  /\ UNCHANGED disk /\ SameServer

\* The relaunch process runs; the server will stop.
Spawn ==
  /\ At("spawn") /\ install' = Idle
  /\ relaunch' = [relaunch EXCEPT ![used.runs] = "stop"]
  /\ server' = [server EXCEPT !.stopping = TRUE]
  /\ UNCHANGED <<disk, run, ran, mishaps, used>>

\* Variant: the run fails as it does before the flip.
SpawnFailsLate ==
  At("spawn") /\ Fails /\ UNCHANGED disk /\ SameServer

SpawnFails ==
  /\ At("spawn") /\ Goto("revert")
  /\ UNCHANGED <<disk, run>> /\ SameServer

\* The pointer as it was, or none when there was none; if that fails, nobody
\* hears of it.
Revert ==
  /\ At("revert") /\ Goto("record failure")
  /\ \E fails \in BOOLEAN :
       /\ pointer' = IF fails THEN pointer ELSE install.old
       /\ Happens("not put back", fails)
  /\ UNCHANGED <<versions, journal, run, server, relaunch, ran, used>>

RecordFailure ==
  /\ At("record failure") /\ Fails
  /\ JournalBecomes(Record("failed", install.target))
  /\ UNCHANGED <<versions, pointer>> /\ SameServer

\* Variant: only the download is bounded.
DownloadOnly == {"resolve", "fetch", "land", "collect"}

\* Where the deadline finds a run that it may interrupt: anywhere but between
\* the flip and its record.
Interruptible ==
  {"resolve", "fetch", "land", "collect", "look", "drop", "flip",
   "flipped", "spawn", "revert", "record failure"}

\* Variant: what the fiber leaves behind is left as it is.
DeadlineUnsettled ==
  /\ install.step \in Interruptible
  /\ install' = Idle
  /\ UNCHANGED <<disk, run>> /\ SameServer

\* boundedInstallBody: the fiber ends, and a run in progress fails with it.
Deadline ==
  /\ install.step \in Interruptible
  /\ install' = Idle
  /\ run' = IF run.phase \in Unfinished
            THEN [run EXCEPT !.phase = "failed"] ELSE run
  /\ Happens("cut off after flip", At("flipped"))
  /\ UNCHANGED <<disk, server, relaunch, ran, used>>

-----------------------------------------------------------------------------
(* The relaunch process: it may also die anywhere *)

RelaunchGoes(r, step) == relaunch' = [relaunch EXCEPT ![r] = step]

\* stopDaemon: whatever server runs by now is stopped.
StopServer(r) ==
  /\ relaunch[r] = "stop" /\ RelaunchGoes(r, "wait")
  /\ Down /\ UNCHANGED used

\* The pinned port is free, which it is not while a server runs.
PortFree(r) ==
  /\ relaunch[r] = "wait" /\ ~Up /\ RelaunchGoes(r, "launch")
  /\ UNCHANGED <<disk, server, run, install, ran, mishaps, used>>

\* The port stays busy: the record of the last run becomes a failure.
PortBusy(r) ==
  /\ relaunch[r] = "wait" /\ RelaunchGoes(r, "none")
  /\ \E v \in IF journal = NoRecord THEN BootTargets ELSE {journal.target} :
       JournalBecomes(Record("failed", v))
  /\ UNCHANGED <<versions, pointer, server, run, install, ran, mishaps, used>>

\* launchDaemon: a server that was started meanwhile is kept.
Relaunch(r) ==
  /\ relaunch[r] = "launch" /\ ~Up /\ RelaunchGoes(r, "none")
  /\ Boot /\ UNCHANGED used

RelaunchEnds(r) ==
  /\ relaunch[r] # "none" /\ RelaunchGoes(r, "none")
  /\ UNCHANGED <<disk, server, run, install, ran, mishaps, used>>

-----------------------------------------------------------------------------
(* The specification *)

Init ==
  /\ versions \in {{v} : v \in Versions}
  /\ pointer \in versions \cup {None}
  /\ journal = NoRecord
  /\ server = NoServer /\ run = NoRun /\ install = Idle
  /\ relaunch = [r \in 1 .. MaxRuns |-> "none"]
  /\ ran = {} /\ mishaps = {}
  /\ used = [runs |-> 0, crashes |-> 0]

AfterFlip ==
  RecordStart \/ Restart \/ Spawn \/ SpawnFails \/ Revert \/ RecordFailure

RunStep ==
  \/ Refuse \/ Start \/ FetchFails \/ Clear \/ Land \/ LandFails
  \/ Collect \/ Supersede \/ Drop \/ GoOn \/ Flip \/ FlipFails
  \/ AfterFlip

RelaunchStep ==
  \E r \in 1 .. MaxRuns :
    \/ StopServer(r) \/ PortFree(r) \/ PortBusy(r)
    \/ Relaunch(r) \/ RelaunchEnds(r)

Next ==
  \/ Launch \/ Crash \/ StopSelf
  \/ Press \/ Retry \/ CheckSettles
  \/ RunStep \/ Deadline
  \/ RelaunchStep

\* The clock runs: the deadline comes, and the server's signal. Of the run's
\* own steps only the few after the flip are sure to be taken.
Fairness ==
  /\ WF_vars(Deadline) /\ WF_vars(StopSelf) /\ WF_vars(AfterFlip)

Spec == Init /\ [][Next]_vars
FairSpec == Spec /\ Fairness

-----------------------------------------------------------------------------
(* Properties *)

MaybeVersion == Versions \cup {None}

Steps == {"idle", "resolve", "fetch", "land", "collect", "look", "drop", "flip",
          "record", "flipped", "spawn", "revert", "record failure"}

\* Every variable has the shape the code gives it, and a run that is shown as
\* in progress has a fiber that works on it (boundedInstallBody: settle).
TypeOK ==
  /\ versions \subseteq Versions
  /\ pointer \in MaybeVersion
  /\ journal \in [outcome: {"none", "started", "ok", "failed"}, target: MaybeVersion]
  /\ server \in [version: MaybeVersion, stopping: BOOLEAN,
                 report: [outcome: {"none", "ok", "failed"}, target: MaybeVersion]]
  /\ run \in [phase: {"none", "failed", "restart"} \cup Unfinished,
              target: MaybeVersion]
  /\ install \in [step: Steps, target: MaybeVersion, old: MaybeVersion]
  /\ relaunch \in [1 .. MaxRuns -> {"none", "stop", "wait", "launch"}]
  /\ ran \subseteq Versions
  /\ mishaps \subseteq {"started astray", "not put back", "cut off after flip"}
  /\ used \in [runs: 0 .. MaxRuns, crashes: 0 .. MaxCrashes]
  /\ run.phase \in Unfinished => ~At("idle")

\* What runs is complete on disk, and so is what the launcher would start,
\* whatever step a crash, a deadline or a failed removal or write follows, with
\* one exception: a run that started while the pointer still named the version
\* an earlier one had flipped it to keeps the running tree and its own, and not
\* the one the pointer names (fetchVersion.ts: fetchVersionToDisk; gc.ts:
\* collectVersionGarbage).
Bootable ==
  /\ Up => server.version \in versions
  /\ "started astray" \notin mishaps
       => BootTargets # {} /\ BootTargets \subseteq versions

\* A run that is shown as failed changed nothing: the pointer names what runs
\* now, unless one of the three mishaps behind the flip preceded it. Where there
\* is no pointer the next boot takes the newest tree, that of the failed run
\* included (transitions.ts: failRun; updateEngineLive.ts: installBody).
FailedRunChangesNothing ==
  run.phase = "failed" /\ mishaps = {} => pointer \in {server.version, None}

\* The same without the exceptions, as transitions.ts: failUnfinishedRun
\* says of a run the deadline has interrupted.
FailedRunSwitchedNothing ==
  run.phase = "failed" => pointer \in {server.version, None}

\* What a server reports of the last update is true of what it runs: it does
\* not call its own version a failure, and what it calls installed has run
\* (journal.ts: reconcileJournalAtBoot).
ReportIsTrue ==
  /\ server.report.outcome = "failed" => server.report.target # server.version
  /\ server.report.outcome = "ok" => server.report.target \in ran

\* A boot never goes back behind a version that has run, whoever starts it.
NeverDowngrades ==
  [][server'.version # server.version /\ server'.version # None
       => \A v \in ran : v <= server'.version]_vars

\* Every press is answered for: the lock is free again, and no run is left in
\* progress. One in its hand-over may be: nobody settles the phase "restart" of
\* a run the deadline has cut off (updateEngineLive.ts: boundedInstallBody).
RunEnds == []<>(At("idle") /\ run.phase \notin Unfinished)

=============================================================================
