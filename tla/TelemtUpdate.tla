---- MODULE TelemtUpdate ----
(***************************************************************************)
(* The agent replaces the binary of the Telemt service beside it           *)
(* (internal/agent/telemtupdate): it reads the version of the running      *)
(* process, downloads and verifies the release, renames the installed      *)
(* binary to `.bak', installs the new one, restarts the service, waits for *)
(* it to report the new version ready, and either removes the backup or    *)
(* renames it back and restarts again.                                     *)
(*                                                                         *)
(* The agent may die between any two steps; nothing remembers the update   *)
(* but the two files, and the panel sends the job again.  The service      *)
(* itself may be restarted by its supervisor at any time and then runs     *)
(* whatever file is installed.  `sound' are the releases that report       *)
(* ready; another one may answer with its version all the same.            *)
(* Left out: the caches a success resets to hurry the next snapshot.       *)
(***************************************************************************)
EXTENDS Integers, FiniteSets

CONSTANTS
  Releases,     \* bound: versions 1..Releases
  MaxUpdates,   \* bound: jobs run
  MaxBadLuck    \* bound: crashes, failed renames, restarts and downloads

ASSUME UpdateAssumption == Releases \in Nat \ {0} /\ {MaxUpdates, MaxBadLuck} \subseteq Nat

Versions == 1..Releases
NoFile == 0
Down == 0

VARIABLES
  sound,      \* the releases that start and report ready
  installed,  \* the release at BinaryPath
  backup,     \* the release at BinaryPath.bak
  serving,    \* the release of the running process
  update,     \* progress of the job in hand
  goal,       \* Payload.Version of the job in hand
  answered,   \* the release that reported ready in the poll in hand
  updates, badLuck,
  unproven,   \* a swap replaced a binary other than the working, running one
  upset       \* "crash": the agent died in an update; "rename": a rename
              \* failed; "restart": a restart command failed; "mixed": the two
              \* answers of a poll came from two releases

updateVars == <<sound, installed, backup, serving, update, goal, answered, updates, badLuck,
                unproven, upset>>
updateFaults == <<badLuck, upset>>

UpdateTypeOK ==
  /\ sound \subseteq Versions /\ 1 \in sound
  /\ {installed, backup, goal} \subseteq Versions \cup {NoFile} /\ serving \in Versions \cup {Down}
  /\ answered \in sound \cup {NoFile} /\ (answered # NoFile => update = "gate")
  /\ update \in {"none", "staged", "aside", "swapped", "gate", "roll back", "restored"}
  /\ update = "none" <=> goal = NoFile
  /\ update = "aside" => installed = NoFile
  /\ update \in {"aside", "swapped", "gate", "roll back"} => backup # NoFile
  /\ update \in {"swapped", "gate", "roll back"} => installed = goal
  /\ updates \in 0..MaxUpdates /\ badLuck \in 0..MaxBadLuck
  /\ unproven \in BOOLEAN /\ upset \subseteq {"crash", "rename", "restart", "mixed"}

UpdateInit ==
  /\ sound \in {s \in SUBSET Versions : 1 \in s}
  /\ installed = 1 /\ serving = 1 /\ backup = NoFile
  /\ update = "none" /\ goal = NoFile /\ answered = NoFile /\ updates = 0 /\ badLuck = 0
  /\ unproven = FALSE /\ upset = {}

Misfortunes(n, kind) ==
  /\ badLuck + n <= MaxBadLuck /\ badLuck' = badLuck + n
  /\ upset' = upset \cup kind

Misfortune(kind) == Misfortunes(1, kind)

\* What a start of the service yields.
Started(file) == IF file \in sound THEN {file} ELSE {file, Down}

UpdateEnds == update' = "none" /\ goal' = NoFile /\ answered' = NoFile

(***************************************************************************)
(* handleTelemtUpdateJob reads the running version and refuses when there  *)
(* is none.  allow_downgrade skips the gate; without it an older version   *)
(* is refused and the same version is a success with nothing done.         *)
(***************************************************************************)
checkDowngrade(current, target, allow) == allow \/ target > current

handleTelemtUpdateJob(v, allow) ==
  /\ update = "none" /\ updates < MaxUpdates
  /\ serving # Down /\ checkDowngrade(serving, v, allow)
  /\ update' = "staged" /\ goal' = v /\ updates' = updates + 1
  /\ UNCHANGED <<sound, installed, backup, serving, answered, unproven, updateFaults>>

\* No room, a checksum that differs, a download cut short.
StagingFails ==
  /\ update = "staged" /\ Misfortune({}) /\ UpdateEnds
  /\ UNCHANGED <<sound, installed, backup, serving, updates, unproven>>

\* First rename of swapBinaryWith; it stats the installed binary first.
BacksUp ==
  /\ update = "staged" /\ installed # NoFile
  /\ backup' = installed /\ installed' = NoFile /\ update' = "aside"
  /\ unproven' = (unproven \/ installed # serving \/ serving \notin sound)
  /\ UNCHANGED <<sound, serving, goal, answered, updates, updateFaults>>

BackUpFails ==
  /\ update = "staged"
  /\ IF installed = NoFile THEN UNCHANGED updateFaults ELSE Misfortune({"rename"})
  /\ UpdateEnds
  /\ UNCHANGED <<sound, installed, backup, serving, updates, unproven>>

\* Second rename; when it fails the first is undone, or that fails too.
Installs ==
  /\ update = "aside"
  /\ installed' = goal /\ update' = "swapped"
  /\ UNCHANGED <<sound, backup, serving, goal, answered, updates, unproven, updateFaults>>

InstallFails ==
  /\ update = "aside"
  /\ \/ Misfortune({"rename"}) /\ installed' = backup /\ backup' = NoFile
     \/ Misfortunes(2, {"rename"}) /\ UNCHANGED <<installed, backup>>
  /\ UpdateEnds
  /\ UNCHANGED <<sound, serving, updates, unproven>>

(***************************************************************************)
(* The restart command.  A supervisor that restarts in the background      *)
(* returns while the old process still answers.  A failed command may have *)
(* done nothing, stopped the service or started it.                        *)
(***************************************************************************)
AfterRestart == Started(installed) \cup {serving}
AfterFailedRestart == Started(installed) \cup {serving, Down}

RestartsService ==
  /\ update = "swapped"
  /\ serving' \in AfterRestart /\ update' = "gate"
  /\ UNCHANGED <<sound, installed, backup, goal, answered, updates, unproven, updateFaults>>

restoreAfterRestartFailure ==
  /\ update = "swapped"
  /\ serving' \in AfterFailedRestart
  /\ \/ Misfortune({"restart"}) /\ installed' = backup /\ backup' = NoFile
     \/ Misfortunes(2, {"restart", "rename"}) /\ UNCHANGED <<installed, backup>>
  /\ UpdateEnds
  /\ UNCHANGED <<sound, updates, unproven>>

(***************************************************************************)
(* The gate asks whether the service is ready and then, in a second call,  *)
(* for its version; another process may answer that.                       *)
(***************************************************************************)
HealthReady ==
  /\ update = "gate" /\ answered = NoFile /\ serving \in sound
  /\ answered' = serving
  /\ UNCHANGED <<sound, installed, backup, serving, update, goal, updates, unproven, updateFaults>>

\* Mutant: ready is enough, whatever version answers.
ReadyIsEnough == update = "gate" /\ answered # NoFile

pollHealth == update = "gate" /\ answered # NoFile /\ serving = goal

Mixed == IF answered = serving THEN {} ELSE {"mixed"}

HealthConfirms ==
  /\ pollHealth
  /\ \/ backup' = NoFile /\ upset' = upset \cup Mixed /\ UNCHANGED badLuck
     \/ Misfortune({"rename"} \cup Mixed) /\ UNCHANGED backup
  /\ UpdateEnds
  /\ UNCHANGED <<sound, installed, serving, updates, unproven>>

\* No version, or another one.
PollsAgain ==
  /\ answered # NoFile /\ answered' = NoFile
  /\ UNCHANGED <<sound, installed, backup, serving, update, goal, updates, unproven, updateFaults>>

\* The window lapses: not ready, an old version, or a cancelled context.
HealthLapses ==
  /\ update = "gate" /\ answered = NoFile /\ update' = "roll back"
  /\ UNCHANGED <<sound, installed, backup, serving, goal, answered, updates, unproven, updateFaults>>

\* Mutant: the backup stays where it is.
RestoreForgotten ==
  /\ update = "roll back" /\ update' = "restored"
  /\ UNCHANGED <<sound, installed, backup, serving, goal, answered, updates, unproven, updateFaults>>

restoreBackup ==
  /\ update = "roll back"
  /\ \/ installed' = backup /\ backup' = NoFile /\ update' = "restored"
        /\ UNCHANGED <<goal, answered, updateFaults>>
     \/ Misfortune({"rename"}) /\ UpdateEnds /\ UNCHANGED <<installed, backup>>
  /\ UNCHANGED <<sound, serving, updates, unproven>>

RollbackRestarts ==
  /\ update = "restored"
  /\ \/ serving' \in AfterRestart /\ UNCHANGED updateFaults
     \/ Misfortune({"restart"}) /\ serving' \in AfterFailedRestart
  /\ UpdateEnds
  /\ UNCHANGED <<sound, installed, backup, updates, unproven>>

\* The agent dies; the job in hand is forgotten.
AgentDies ==
  /\ update # "none" /\ Misfortune({"crash"}) /\ UpdateEnds
  /\ UNCHANGED <<sound, installed, backup, serving, updates, unproven>>

\* The supervisor starts the service again: a crash of it, or a reboot.
SupervisorStarts ==
  /\ serving' \in Started(installed)
  /\ UNCHANGED <<sound, installed, backup, update, goal, answered, updates, unproven, updateFaults>>

UpdateNext ==
  \/ \E v \in Versions, allow \in BOOLEAN : handleTelemtUpdateJob(v, allow)
  \/ StagingFails \/ BacksUp \/ BackUpFails \/ Installs \/ InstallFails
  \/ RestartsService \/ restoreAfterRestartFailure
  \/ HealthReady \/ HealthConfirms \/ PollsAgain \/ HealthLapses \/ restoreBackup \/ RollbackRestarts
  \/ AgentDies \/ SupervisorStarts

UpdateSpec == UpdateInit /\ [][UpdateNext]_updateVars

(***************************************************************************)
(* One of the two files holds a release that works, whatever crashes,      *)
(* failed renames, failed restarts and repeated jobs came before, as long  *)
(* as every swap met its documented precondition, that the file it         *)
(* replaced was the live, working binary, and no poll took "ready" from    *)
(* the old process and the version from the new one.                       *)
(***************************************************************************)
WorkingBinaryKept == unproven \/ "mixed" \in upset \/ sound \cap {installed, backup} # {}

(***************************************************************************)
(* An update that ran to its end, confirmed or rolled back, leaves a       *)
(* working release installed: the next start of the service succeeds.      *)
(***************************************************************************)
EndsInstalled == update = "none" /\ upset = {} => installed \in sound

(***************************************************************************)
(* swapBinary says that overwriting an old backup is never a loss.         *)
(* Violated: the agent dies after the swap and before the restart, the job *)
(* is sent again, the old process still reports the old version, and the   *)
(* second swap overwrites the only working binary with the untried one.    *)
(***************************************************************************)
LastGoodSurvives == sound \cap {installed, backup} # {}
====
