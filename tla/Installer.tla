------------------------------ MODULE Installer ------------------------------
(***************************************************************************)
(* scripts/install.sh, the resumable installer started by main.sh.         *)
(*                                                                         *)
(* The installer walks through STATE_ORDER.  It keeps the state it has     *)
(* reached in the file ../.install_state, runs the step script of that     *)
(* state, saves the next state, and in place of nvidia.sh installs a       *)
(* systemd user unit and reboots.  Both files are named relative to the    *)
(* directory the run was started in: an operator starts runs from          *)
(* LaunchDirs, systemd starts its run from the home directory.             *)
(*                                                                         *)
(* A run is a process.  Runs may overlap (flock guards one read or one     *)
(* write of the state file, not the run), may be killed between any two    *)
(* steps, and all of them die with the machine.                            *)
(***************************************************************************)
EXTENDS Naturals, Sequences, FiniteSets

CONSTANTS
    Operators,        \* terminals in which the operator starts install.sh
    Service,          \* the run systemd starts when the user session starts
    LaunchDirs,       \* directories ("..") of the state file of operator runs
    HomeDir,          \* the same for the run started by systemd
    Writable,         \* the directories in which the user may create files
    ScriptFiles,      \* the files of scripts/install
    Executable,       \* does install.sh have the x bit that ExecStart needs
    MaxFaults         \* bound: kills, power losses and failed writes

Dirs == LaunchDirs \cup {HomeDir}
Runs == Operators \cup {Service}

ASSUME ConstantsAssumption ==
    /\ Service \notin Operators
    /\ HomeDir \notin LaunchDirs
    /\ Writable \subseteq Dirs
    /\ "FINISH" \notin ScriptFiles
    /\ Executable \in BOOLEAN
    /\ MaxFaults \in Nat

-----------------------------------------------------------------------------
(* The tables of the script.                                               *)

STEPS ==
    [START                |-> "common_deps.sh",
     COMMON_DEPS_DONE     |-> "python.sh",
     PYTHON_DONE          |-> "nvidia.sh",
     NVIDIA_DONE          |-> "docker.sh",
     DOCKER_DONE          |-> "validate_env.sh",
     VLLM_DONE            |-> "vllm.sh",
     PROXY_AND_FIREWALL   |-> "proxy_and_firewall.sh",
     SETTING_AUTO_SCRIPTS |-> "setting_auto_scripts.sh",
     VALIDATION_DONE      |-> "FINISH"]

STATE_ORDER ==
    <<"START", "COMMON_DEPS_DONE", "PYTHON_DONE", "NVIDIA_DONE",
      "DOCKER_DONE", "VLLM_DONE", "VALIDATION_DONE", "FINISH">>

REBOOTING == "REBOOTING_AFTER_NVIDIA"
Missing == "missing"                 \* the state file does not exist

Ordered == {STATE_ORDER[i] : i \in 1..Len(STATE_ORDER)}
FileContents == Ordered \cup {REBOOTING, ""}

Index(s) == CHOOSE i \in 1..Len(STATE_ORDER) : STATE_ORDER[i] = s

Mut_NextState(s) == STATE_ORDER[IF Index(s) < 7 THEN Index(s) + 2 ELSE 8]

\* The state saved after the script of s, for a state before FINISH.
NextState(s) == STATE_ORDER[Index(s) + 1]

\* A state whose script can be looked up: ${STEPS[""]} and ${STEPS[unknown]}
\* abort the run under set -u, a state outside STATE_ORDER aborts it too.
HasStep(s) == s \in DOMAIN STEPS /\ s \in Ordered

-----------------------------------------------------------------------------
VARIABLES
    stateFile,    \* [Dirs -> contents of .install_state, or Missing]
    flagFile,     \* [Dirs -> BOOLEAN]: .installed exists
    done,         \* the step scripts that have succeeded on this machine
    unit,         \* resume-install.service, see UnitType
    pc,           \* [Runs -> where the run is; "idle" is no process]
    dir,          \* [Runs -> directory of the run's files]
    cur,          \* [Runs -> CURRENT_STATE]
    saving,       \* [Runs -> new_state of save_install_state]
    faults

vars == <<stateFile, flagFile, done, unit, pc, dir, cur, saving, faults>>
files == <<stateFile, flagFile>>

UnitType == [file    : BOOLEAN,   \* the unit file exists
             enabled : BOOLEAN,   \* linked from default.target.wants
             known   : BOOLEAN]   \* was started in this boot: stays loaded

Labels == {"idle", "open", "check", "read", "disable", "rm_unit",
           "reset_failed", "truncate", "write", "loop", "exec", "write_unit",
           "enable", "reboot", "rm_state", "touch_flag"}

TypeOK ==
    /\ stateFile \in [Dirs -> FileContents \cup {Missing}]
    /\ flagFile \in [Dirs -> BOOLEAN]
    /\ done \subseteq ScriptFiles
    /\ unit \in UnitType
    /\ pc \in [Runs -> Labels]
    /\ dir \in [Runs -> Dirs]
    /\ cur \in [Runs -> FileContents]
    /\ saving \in [Runs -> FileContents]
    /\ faults \in 0..MaxFaults

Init ==
    /\ stateFile = [d \in Dirs |-> Missing]
    /\ flagFile = [d \in Dirs |-> FALSE]
    /\ done = {}
    /\ unit = [file |-> FALSE, enabled |-> FALSE, known |-> FALSE]
    /\ pc = [p \in Runs |-> "idle"]
    /\ dir = [p \in Runs |-> HomeDir]
    /\ cur = [p \in Runs |-> ""]
    /\ saving = [p \in Runs |-> ""]
    /\ faults = 0

At(p, l) == pc[p] = l
Goto(p, l) == pc' = [pc EXCEPT ![p] = l]
Write(p, s) == stateFile' = [stateFile EXCEPT ![dir[p]] = s]

-----------------------------------------------------------------------------
(* Start of a run.                                                         *)

Launch(p, d) ==
    /\ At(p, "idle")
    /\ Goto(p, "open")
    /\ dir' = [dir EXCEPT ![p] = d]
    /\ UNCHANGED <<files, done, unit, cur, saving, faults>>

\* touch; exec 6<>: fails (set -e) where the directory is not writable, and
\* creates an empty file where there is none.
OpenState(p) ==
    /\ At(p, "open")
    /\ \/ /\ dir[p] \notin Writable
          /\ Goto(p, "idle")
          /\ UNCHANGED stateFile
       \/ /\ dir[p] \in Writable
          /\ Goto(p, "check")
          /\ Write(p, IF stateFile[dir[p]] = Missing THEN "" ELSE stateFile[dir[p]])
    /\ UNCHANGED <<flagFile, done, unit, dir, cur, saving, faults>>

CheckFullInstallation(p) ==
    /\ At(p, "check")
    /\ Goto(p, IF flagFile[dir[p]] THEN "idle" ELSE "read")
    /\ UNCHANGED <<files, done, unit, dir, cur, saving, faults>>

Mut_GetInstallState(p) ==
    /\ At(p, "read")
    /\ LET s == IF stateFile[dir[p]] \in {Missing, ""} THEN "FINISH" ELSE stateFile[dir[p]]
       IN /\ cur' = [cur EXCEPT ![p] = s]
          /\ Goto(p, IF s = REBOOTING THEN "disable" ELSE "loop")
    /\ UNCHANGED <<files, done, unit, dir, saving, faults>>

GetInstallState(p) ==
    /\ At(p, "read")
    /\ LET s == IF stateFile[dir[p]] = Missing THEN "START" ELSE stateFile[dir[p]]
       IN /\ cur' = [cur EXCEPT ![p] = s]
          /\ Goto(p, IF s = REBOOTING THEN "disable" ELSE "loop")
    /\ UNCHANGED <<files, done, unit, dir, saving, faults>>

-----------------------------------------------------------------------------
(* disable_reboot_service, when the file says REBOOTING_AFTER_NVIDIA.      *)

\* systemctl disable fails, and set -e ends the run, without a unit file.
DisableUnit(p) ==
    /\ At(p, "disable")
    /\ IF unit.file
       THEN unit' = [unit EXCEPT !.enabled = FALSE] /\ Goto(p, "rm_unit")
       ELSE UNCHANGED unit /\ Goto(p, "idle")
    /\ UNCHANGED <<files, done, dir, cur, saving, faults>>

\* rm -f and daemon-reload: a unit that ran in this boot stays loaded.
RemoveUnit(p) ==
    /\ At(p, "rm_unit")
    /\ unit' = [unit EXCEPT !.file = FALSE]
    /\ Goto(p, "reset_failed")
    /\ UNCHANGED <<files, done, dir, cur, saving, faults>>

\* reset-failed fails when the unit is not loaded; when it succeeds the manager
\* may unload the unit.  Then CURRENT_STATE becomes NVIDIA_DONE and is saved.
ResetFailed(p) ==
    /\ At(p, "reset_failed")
    /\ \/ /\ unit.known
          /\ \E k \in BOOLEAN : unit' = [unit EXCEPT !.known = k]
          /\ cur' = [cur EXCEPT ![p] = "NVIDIA_DONE"]
          /\ saving' = [saving EXCEPT ![p] = "NVIDIA_DONE"]
          /\ Goto(p, "truncate")
       \/ /\ ~unit.known
          /\ Goto(p, "idle")
          /\ UNCHANGED <<unit, cur, saving>>
    /\ UNCHANGED <<files, done, dir, faults>>

-----------------------------------------------------------------------------
(* save_install_state.  The redirection 6> truncates the file when the     *)
(* subshell starts, before flock is asked for.                             *)

SaveTruncate(p) ==
    /\ At(p, "truncate")
    /\ Write(p, "")
    /\ Goto(p, "write")
    /\ UNCHANGED <<flagFile, done, unit, dir, cur, saving, faults>>

Mut_SaveWrite(p) ==
    /\ At(p, "write")
    /\ Write(p, IF saving[p] = REBOOTING THEN "NVIDIA_DONE" ELSE saving[p])
    /\ IF saving[p] = REBOOTING
       THEN Goto(p, "write_unit") /\ UNCHANGED cur
       ELSE Goto(p, "loop") /\ cur' = [cur EXCEPT ![p] = saving[p]]
    /\ UNCHANGED <<flagFile, done, unit, dir, saving, faults>>

Mut_StaleState(p) ==
    /\ At(p, "write")
    /\ Write(p, saving[p])
    /\ Goto(p, IF saving[p] = REBOOTING THEN "write_unit" ELSE "loop")
    /\ UNCHANGED <<flagFile, done, unit, dir, cur, saving, faults>>

\* After the write the run goes on where it called save_install_state: to
\* setup_reboot_service, or to the next iteration with the saved state.
SaveWrite(p) ==
    /\ At(p, "write")
    /\ Write(p, saving[p])
    /\ IF saving[p] = REBOOTING
       THEN Goto(p, "write_unit") /\ UNCHANGED cur
       ELSE Goto(p, "loop") /\ cur' = [cur EXCEPT ![p] = saving[p]]
    /\ UNCHANGED <<flagFile, done, unit, dir, saving, faults>>

\* The echo fails (disk full): FATAL ERROR, exit 1, the file stays truncated.
SaveFails(p) ==
    /\ At(p, "write")
    /\ faults < MaxFaults
    /\ faults' = faults + 1
    /\ Goto(p, "idle")
    /\ UNCHANGED <<files, done, unit, dir, cur, saving>>

-----------------------------------------------------------------------------
(* The loop of execute_installation_sequence.                              *)

Mut_Iterate(p) ==
    /\ At(p, "loop")
    /\ cur' = [cur EXCEPT ![p] = IF cur[p] = "" THEN "COMMON_DEPS_DONE" ELSE cur[p]]
    /\ Goto(p, IF cur[p] = "FINISH" THEN "rm_state" ELSE "exec")
    /\ UNCHANGED <<files, done, unit, dir, saving, faults>>

\* Chooses what this iteration does, up to the start of the step script.
Iterate(p) ==
    /\ At(p, "loop")
    /\ \/ /\ cur[p] = "FINISH"
          /\ Goto(p, "rm_state")
          /\ UNCHANGED saving
       \/ /\ cur[p] # "FINISH" /\ ~HasStep(cur[p])
          /\ Goto(p, "idle")
          /\ UNCHANGED saving
       \/ /\ HasStep(cur[p]) /\ STEPS[cur[p]] = "nvidia.sh"
          /\ saving' = [saving EXCEPT ![p] = REBOOTING]
          /\ Goto(p, "truncate")
       \/ /\ cur[p] # "FINISH" /\ HasStep(cur[p]) /\ STEPS[cur[p]] # "nvidia.sh"
          /\ Goto(p, "exec")
          /\ UNCHANGED saving
    /\ UNCHANGED <<files, done, unit, dir, cur, faults>>

\* bash "$INSTALL_DIR/$script_to_run" returns 0.
ScriptSucceeds(p) ==
    /\ At(p, "exec")
    /\ STEPS[cur[p]] \in ScriptFiles
    /\ done' = done \cup {STEPS[cur[p]]}
    /\ saving' = [saving EXCEPT ![p] = NextState(cur[p])]
    /\ Goto(p, "truncate")
    /\ UNCHANGED <<files, unit, dir, cur, faults>>

Mut_ScriptFails(p) ==
    /\ At(p, "exec")
    /\ saving' = [saving EXCEPT ![p] = NextState(cur[p])]
    /\ Goto(p, "truncate")
    /\ UNCHANGED <<files, done, unit, dir, cur, faults>>

\* It returns something else (127 if there is no such file): exit 1.
ScriptFails(p) ==
    /\ At(p, "exec")
    /\ Goto(p, "idle")
    /\ UNCHANGED <<files, done, unit, dir, cur, saving, faults>>

\* The FINISH branch: rm -f of the state file, then touch of the flag.
RemoveState(p) ==
    /\ At(p, "rm_state")
    /\ Write(p, Missing)
    /\ Goto(p, "touch_flag")
    /\ UNCHANGED <<flagFile, done, unit, dir, cur, saving, faults>>

TouchFlag(p) ==
    /\ At(p, "touch_flag")
    /\ flagFile' = [flagFile EXCEPT ![dir[p]] = TRUE]
    /\ Goto(p, "idle")
    /\ UNCHANGED <<stateFile, done, unit, dir, cur, saving, faults>>

-----------------------------------------------------------------------------
(* setup_reboot_service.                                                   *)

WriteUnit(p) ==
    /\ At(p, "write_unit")
    /\ unit' = [unit EXCEPT !.file = TRUE]
    /\ Goto(p, "enable")
    /\ UNCHANGED <<files, done, dir, cur, saving, faults>>

\* Fails if another run has removed the unit file meanwhile.
EnableUnit(p) ==
    /\ At(p, "enable")
    /\ IF unit.file
       THEN unit' = [unit EXCEPT !.enabled = TRUE] /\ Goto(p, "reboot")
       ELSE UNCHANGED unit /\ Goto(p, "idle")
    /\ UNCHANGED <<files, done, dir, cur, saving, faults>>

Mut_Boot ==
    /\ pc' = [p \in Runs |-> "idle"]
    /\ UNCHANGED <<dir, unit>>

\* The machine restarts: every process dies; an enabled unit is started, and
\* runs install.sh if systemd can execute it.
Boot ==
    LET starts == unit.enabled /\ unit.file
    IN /\ pc' = [p \in Runs |-> IF p = Service /\ starts /\ Executable
                                THEN "open" ELSE "idle"]
       /\ dir' = [dir EXCEPT ![Service] = HomeDir]
       /\ unit' = [unit EXCEPT !.known = starts]

Reboot(p) ==
    /\ At(p, "reboot")
    /\ Boot
    /\ UNCHANGED <<files, done, cur, saving, faults>>

-----------------------------------------------------------------------------
(* The environment.                                                        *)

\* Ctrl-C, a lost terminal, the OOM killer; at "reboot" also a refused sudo.
Kill(p) ==
    /\ ~At(p, "idle")
    /\ faults < MaxFaults
    /\ faults' = faults + 1
    /\ Goto(p, "idle")
    /\ UNCHANGED <<files, done, unit, dir, cur, saving>>

PowerLoss ==
    /\ faults < MaxFaults
    /\ faults' = faults + 1
    /\ Boot
    /\ UNCHANGED <<files, done, cur, saving>>

NoRunIn(d) == \A p \in Runs : dir[p] = d => At(p, "idle")

\* The operator's way out of a state the script itself cannot leave: START into
\* an empty file, FINISH once only the script named FINISH is left to "run".
OperatorEdits(d) ==
    /\ NoRunIn(d)
    /\ \/ /\ stateFile[d] = ""
          /\ stateFile' = [stateFile EXCEPT ![d] = "START"]
       \/ /\ stateFile[d] = "VALIDATION_DONE"
          /\ stateFile' = [stateFile EXCEPT ![d] = "FINISH"]
    /\ UNCHANGED <<flagFile, done, unit, pc, dir, cur, saving, faults>>

Step(p) ==
    \/ OpenState(p) \/ CheckFullInstallation(p) \/ GetInstallState(p)
    \/ DisableUnit(p) \/ RemoveUnit(p) \/ ResetFailed(p)
    \/ SaveTruncate(p) \/ SaveWrite(p)
    \/ Iterate(p) \/ RemoveState(p) \/ TouchFlag(p)
    \/ WriteUnit(p) \/ EnableUnit(p) \/ Reboot(p)

Next ==
    \/ \E p \in Operators, d \in LaunchDirs : Launch(p, d)
    \/ \E p \in Runs :
          Step(p) \/ ScriptSucceeds(p) \/ ScriptFails(p) \/ SaveFails(p) \/ Kill(p)
    \/ PowerLoss
    \/ \E d \in LaunchDirs : OperatorEdits(d)

Spec == Init /\ [][Next]_vars

\* A process that can take a step takes it, a script that is retried for ever
\* succeeds in the end.
RunFairness ==
    \A p \in Runs : WF_vars(Step(p)) /\ SF_vars(ScriptSucceeds(p)) /\ WF_vars(ScriptFails(p))

\* The operator starts install.sh again whenever no run is going on.
OperatorFairness == \A p \in Operators, d \in LaunchDirs : WF_vars(Launch(p, d))

RunSpec == Spec /\ RunFairness
AttendedSpec == RunSpec /\ OperatorFairness

-----------------------------------------------------------------------------
(* Properties.                                                             *)

\* The scripts whose success a state stands for: those of the states before it,
\* except nvidia.sh, which the loop never runs, and FINISH, which is no script.
Claims(s) ==
    LET last == IF s = REBOOTING THEN Index("PYTHON_DONE") ELSE Index(s)
    IN IF s \in Ordered \cup {REBOOTING}
       THEN {STEPS[STATE_ORDER[i]] : i \in 1..(last - 1)} \ {"nvidia.sh", "FINISH"}
       ELSE {}

\* A checkpoint is never ahead of the work: whatever a state file says, the
\* scripts it stands for have succeeded, in spite of kills, power losses, failed
\* writes, overlapping runs and the truncation outside the lock (lines 42-54).
CheckpointHonest ==
    \A d \in Dirs : Claims(stateFile[d]) \subseteq done

\* The flag that makes every later run skip the installation (lines 21-29) is
\* only there once every script the loop runs has succeeded.
FlagHonest ==
    \A d \in Dirs : flagFile[d] => Claims("FINISH") \subseteq done

\* No step script completes before the scripts of all earlier states have
\* (lines 213-222): docker.sh never runs on a machine without common_deps.sh.
StepsInOrder ==
    [][\A i \in 1..Len(STATE_ORDER) :
          (i < Len(STATE_ORDER) /\ STEPS[STATE_ORDER[i]] \in done' \ done)
          => Claims(STATE_ORDER[i]) \subseteq done]_vars

\* The states in the order in which a file holds them.
Path == <<"START", "COMMON_DEPS_DONE", "PYTHON_DONE", REBOOTING, "NVIDIA_DONE",
          "DOCKER_DONE", "VLLM_DONE", "VALIDATION_DONE", "FINISH">>

\* With one operator, a save (lines 133, 203, 221) moves the file on by one place,
\* from the state it holds, which the run has read or saved itself, in spite of
\* kills and of the edits in between: no step is done twice and none is skipped.
SavesNext ==
    \A p \in Runs : At(p, "truncate") =>
        \E i \in 1..(Len(Path) - 1) : stateFile[dir[p]] = Path[i] /\ saving[p] = Path[i + 1]

\* With one operator, the machine is only restarted while the state file announces
\* the restart (lines 203-204), so that the next run does not do it again.
RebootAnnounced ==
    \A p \in Runs : At(p, "reboot") => stateFile[dir[p]] = REBOOTING

\* An installation in which nothing is killed, and which is started again when it
\* has stopped, gets from START through the restart to the last script (lines
\* 138-226).  It gets no further by itself: FINISH is no script (line 213).
Advances ==
    \A d \in LaunchDirs :
        (stateFile[d] = "START" /\ ~flagFile[d] /\ faults = 0)
        ~> (stateFile[d] = "VALIDATION_DONE" \/ faults > 0)

\* With an operator at hand an installation that has announced a restart moves on
\* after it, even if the unit file is missing: "Use -f to suppress error if file
\* doesn't exist" (line 87).
Resumes ==
    \A d \in LaunchDirs : (stateFile[d] = REBOOTING) ~> (stateFile[d] # REBOOTING)

\* The inductive invariant behind CheckpointHonest, FlagHonest and StepsInOrder.
CurHonest ==
    \A p \in Runs :
        At(p, "loop") \/ At(p, "exec") \/ At(p, "disable") \/ At(p, "rm_unit")
            \/ At(p, "reset_failed") => Claims(cur[p]) \subseteq done
SavingHonest ==
    \A p \in Runs : At(p, "truncate") \/ At(p, "write") => Claims(saving[p]) \subseteq done
ExecHasStep ==
    \A p \in Runs : At(p, "exec") => /\ HasStep(cur[p])
                                     /\ STEPS[cur[p]] # "nvidia.sh"
ResumingAt ==
    \A p \in Runs : At(p, "disable") \/ At(p, "rm_unit") \/ At(p, "reset_failed")
                    => cur[p] = REBOOTING
FinishingAt ==
    \A p \in Runs : At(p, "rm_state") \/ At(p, "touch_flag") => Claims("FINISH") \subseteq done

InstallInv ==
    /\ TypeOK
    /\ CheckpointHonest
    /\ FlagHonest
    /\ CurHonest
    /\ SavingHonest
    /\ ExecHasStep
    /\ ResumingAt
    /\ FinishingAt
=============================================================================
